----------------------------- MODULE CrossModule -----------------------------
(***************************************************************************)
(* How analyze gives a value to the URL of a call when the value is held   *)
(* in a constant: of the same unit, of a sibling module it imports, or of  *)
(* a webpack module it requires (findings/_base_env.py, _dataflow.py,      *)
(* _modulegraph.py, extract.py, analyze.py), and the re-extract that goes  *)
(* over the same blobs again (findings/reextract.py).                      *)
(*                                                                         *)
(* A unit is the sequence of its bindings, exports and calls in the order  *)
(* of the walk.  The code sees no scopes, so the model has none: a name of *)
(* a call may be any binding of that name in the call's module.  A URL is  *)
(* a sequence of operands, literals and names; its value is the sequence   *)
(* of literals, and the empty sequence stands for a URL with no value.     *)
(***************************************************************************)
EXTENDS Integers, Sequences, FiniteSets, TLC, SequencesExt

CONSTANTS
  Literals,    \* the string literals
  Absolute,    \* those that begin with a scheme and a host
  Candidates,  \* from a specifier, the keys tried for it, in order
  MaxNodes,    \* _MAX_AST_NODES: the prefix of a unit whose calls are seen
  MaxFiles,    \* the files of one map the write budget has room for
  Crawls,      \* the runs to analyze: sequences of fetched assets
  MaxFaults    \* the crashes and failed reads of a behaviour

VARIABLES
  crawl,   \* the assets of the run, in the order of its rows
  pass,    \* "analyze", "reextract" or "over"
  phase,   \* "index" while the pre-pass runs, "units" during the loop
  at,      \* the next asset of the phase
  index,   \* the CrossModuleIndex of this pass
  rows,    \* the endpoint rows written so far
  done,    \* the assets whose analysis is committed
  lost,    \* the assets some pass could not read when it harvested
  faults   \* the faults still to come

xvars == <<crawl, pass, phase, at, index, rows, done, lost, faults>>

NoValue == <<>>
Empty == [n \in {} |-> NoValue]
-----------------------------------------------------------------------------
(* The nodes of a unit, in the order they are written; mod is the webpack    *)
(* module a node belongs to, or 0:                                           *)
(*   [is |-> "bind", mod, name, how, expr, public], how const or assign;     *)
(*   the same without a value, how param;                                    *)
(*   [is |-> "bind", mod, name, how, pairs], how object: from the dotted     *)
(*   name of each property of the literal, the operands of its value;        *)
(*   [is |-> "bind", mod, name, how, from, as], how import or require;       *)
(*   [is |-> "set", mod, name, expr], which gives a property another value,  *)
(*   under whatever name of the object;                                      *)
(*   [is |-> "export", mod, name, as] and [is |-> "call", mod, expr].        *)

Nodes(u, kind) == {i \in DOMAIN u : u[i].is = kind}
Binds(u, hows) == {i \in Nodes(u, "bind") : u[i].how \in hows}
Bound(u, n) == {i \in Nodes(u, "bind") : u[i].name = n}
Body(u, m) == SelectSeq(u, LAMBDA x : x.mod = m)
-----------------------------------------------------------------------------
(* Constants.                                                              *)

PoisonedSeen(u) == {u[i].name : i \in {j \in Nodes(u, "bind") :
                                          Cardinality({k \in Bound(u, u[j].name) : k <= MaxNodes}) > 1}}

\* _declared_names: the names bound or assigned more than once, in the whole unit.
Poisoned(u) == {u[i].name : i \in {j \in Nodes(u, "bind") : Cardinality(Bound(u, u[j].name)) > 1}}

Fold(e, env) ==
  IF \A i \in DOMAIN e : e[i] \in Literals \cup DOMAIN env
  THEN FlattenSeq([i \in DOMAIN e |-> IF e[i] \in Literals THEN <<e[i]>> ELSE env[e[i]]])
  ELSE NoValue

ResolveLocalConsts(raw) ==
  LET env[k \in 0 .. Cardinality(DOMAIN raw)] ==
        IF k = 0 THEN Empty
        ELSE [n \in {m \in DOMAIN raw : Fold(raw[m], env[k - 1]) # NoValue} |-> Fold(raw[n], env[k - 1])]
  IN  env[Cardinality(DOMAIN raw)]

RawConsts(u, names) ==
  [n \in names |-> u[CHOOSE i \in Binds(u, {"const"}) :
                       u[i].name = n /\ \A j \in Binds(u, {"const"}) : u[j].name = n => i <= j].expr]

LocalStringConsts(u) ==
  ResolveLocalConsts(RawConsts(u, {u[i].name : i \in Binds(u, {"const"})} \ Poisoned(u)))

\* The properties of the object literals with these names.  A name that is
\* assigned is poisoned; a property that is assigned is not.
ObjectConsts(u, names) ==
  LET objects == {i \in Binds(u, {"object"}) : u[i].name \in names}
  IN  [d \in UNION {DOMAIN u[i].pairs : i \in objects} |->
         u[CHOOSE i \in objects : d \in DOMAIN u[i].pairs].pairs[d]]

\* The constants with the properties their values give: no constant is built
\* from a property.
WithObjects(consts, pairs) ==
  consts @@ [d \in {p \in DOMAIN pairs : Fold(pairs[p], consts) # NoValue} |-> Fold(pairs[d], consts)]

\* collect_base_env: the constants and the properties of the unit.
ConstPrefixes(u) ==
  WithObjects(LocalStringConsts(u),
              ObjectConsts(u, {u[i].name : i \in Binds(u, {"object"})} \ Poisoned(u)))

\* _add_string_export reads the declaration alone; an alias goes through the
\* constants, and is written last.
CollectModuleExports(u) ==
  LET direct == {i \in Binds(u, {"const"}) : u[i].public /\ Len(u[i].expr) = 1 /\ u[i].expr[1] \in Literals}
      local == LocalStringConsts(u)
      aliased == {i \in Nodes(u, "export") : u[i].name \in DOMAIN local}
  IN  [a \in {u[i].as : i \in aliased} |->
         local[u[CHOOSE i \in aliased : u[i].as = a /\ \A j \in aliased : u[j].as = a => j <= i].name]]
      @@ [n \in {u[i].name : i \in direct} |->
            u[CHOOSE i \in direct : u[i].name = n /\ \A j \in direct : u[j].name = n => j <= i].expr]

CollectWebpackModules(u) ==
  LET ids == {u[i].mod : i \in Nodes(u, "export")} \ {0}
  IN  [m \in {i \in ids : DOMAIN CollectModuleExports(Body(u, i)) # {}} |-> CollectModuleExports(Body(u, m))]
-----------------------------------------------------------------------------
(* The index of a run, one asset at a time.                                *)

NoIndex == [exports |-> Empty, webpack |-> Empty]

Under(f, k) == IF k \in DOMAIN f THEN f[k] ELSE Empty
MergeUnder(f, k, new) == IF DOMAIN new = {} THEN f ELSE (k :> (new @@ Under(f, k))) @@ f

\* The files of an asset's map, when the engine recovers any of them.
Recovered(a, outcome) == IF a.map # "none" /\ outcome = "recovers" THEN a.files ELSE <<>>

HarvestMinified(ix, a) ==
  [exports |-> MergeUnder(ix.exports, a.url, CollectModuleExports(Body(a.bundle, 0))),
   webpack |-> IF a.webpack THEN MergeUnder(ix.webpack, a.build, CollectWebpackModules(a.bundle)) ELSE ix.webpack]

HarvestAssetExports(ix, a, outcome) ==
  LET files == Recovered(a, outcome)
  IN  IF files # <<>>
      THEN [ix EXCEPT !.exports = FoldLeft(LAMBDA ex, f : MergeUnder(ex, f.path, CollectModuleExports(f.unit)), @, files)]
      ELSE HarvestMinified(ix, a)

\* Whole files, in the map's order, until the write budget is spent.
BeautifiedToDisk(files) == SubSeq(files, 1, IF Len(files) < MaxFiles THEN Len(files) ELSE MaxFiles)

\* The units of an asset, each with the key of its module.
Units(a, files) ==
  IF files # <<>>
  THEN {[path |-> files[i].path, key |-> files[i].path, chunk |-> FALSE, unit |-> files[i].unit] : i \in DOMAIN files}
  ELSE {[path |-> "input.js", key |-> a.url, chunk |-> a.webpack, unit |-> a.bundle]}

\* What the loop analyzes.
AnalysisUnits(a, outcome) == Units(a, BeautifiedToDisk(Recovered(a, outcome)))
-----------------------------------------------------------------------------
(* A unit's calls.                                                         *)

\* The candidates of a specifier that export the name it imports.
Exporting(node, exports) ==
  SelectSeq(Candidates[node.from], LAMBDA k : k \in DOMAIN exports /\ node.as \in DOMAIN exports[k])

CrossModuleConsts(u, exports) ==
  LET found == {i \in Binds(u, {"import"}) : Exporting(u[i], exports) # <<>>}
  IN  [n \in {u[i].name : i \in found} |->
         LET i == CHOOSE i \in found : u[i].name = n /\ \A j \in found : u[j].name = n => j <= i
         IN  exports[Head(Exporting(u[i], exports))][u[i].as]]

WebpackMembers(u, modules) ==
  LET ok == {i \in Binds(u, {"require"}) : /\ u[i].name \notin Poisoned(u)
                                           /\ u[i].from \in DOMAIN modules
                                           /\ u[i].as \in DOMAIN modules[u[i].from]}
  IN  [n \in {u[i].name : i \in ok} |->
         LET i == CHOOSE i \in ok : u[i].name = n IN modules[u[i].from][u[i].as]]

\* What the names of a unit fold to: an import before a constant of its own.
BaseEnv(x, build, ix) ==
  CrossModuleConsts(x.unit, ix.exports)
  @@ (IF x.chunk THEN WebpackMembers(x.unit, Under(ix.webpack, build)) ELSE Empty)
  @@ ConstPrefixes(x.unit)

\* The URLs declared in the unit and called nowhere in it.
DeclaredConsts(u, called) ==
  LET env == ConstPrefixes(u)
      parts == UNION ({Range(u[i].expr) : i \in Binds(u, {"const"})}
                        \cup UNION {{Range(e) : e \in Range(u[i].pairs)} : i \in Binds(u, {"object"})})
  IN  {env[n] : n \in {m \in DOMAIN env \ parts : env[m][1] \in Absolute /\ env[m] \notin called}}

ExtractUnit(x, build, ix) ==
  LET u == x.unit
      env == BaseEnv(x, build, ix)
      seen == {i \in Nodes(u, "call") : i <= MaxNodes}
      calls == {[node |-> i, url |-> Fold(u[i].expr, env)] : i \in seen}
  IN  calls \cup {[node |-> 0, url |-> v] : v \in DeclaredConsts(u, {c.url : c \in calls})}

ExtractEndpoints(i, a, ix, outcome) ==
  UNION {{[asset |-> i, path |-> x.path, key |-> x.key, node |-> c.node, url |-> c.url] :
            c \in ExtractUnit(x, a.build, ix)} : x \in AnalysisUnits(a, outcome)}
-----------------------------------------------------------------------------
(* The passes.                                                             *)

Init ==
  /\ crawl \in Crawls
  /\ pass = "analyze" /\ phase = "index" /\ at = 1
  /\ index = NoIndex
  /\ rows = {} /\ done = {}
  /\ lost = {}
  /\ faults = MaxFaults

InPhase(p) == pass # "over" /\ phase = p /\ at <= Len(crawl)

\* build_export_index, one asset.
Harvest ==
  /\ InPhase("index")
  /\ index' = HarvestAssetExports(index, crawl[at], crawl[at].engine)
  /\ at' = at + 1
  /\ UNCHANGED <<crawl, pass, phase, rows, done, lost, faults>>

\* The engine or the object store fails during the pre-pass: the first makes
\* the asset count as one without a map, the second contributes nothing.
HarvestFails ==
  /\ InPhase("index") /\ faults > 0
  /\ \/ crawl[at].map # "none" /\ index' = HarvestAssetExports(index, crawl[at], "malformed")
     \/ index' = index
  /\ lost' = lost \cup {at}
  /\ at' = at + 1
  /\ faults' = faults - 1
  /\ UNCHANGED <<crawl, pass, phase, rows, done>>

IndexBuilt ==
  /\ pass # "over" /\ phase = "index" /\ at > Len(crawl)
  /\ phase' = "units" /\ at' = 1
  /\ UNCHANGED <<crawl, pass, index, rows, done, lost, faults>>

\* A delivery leaves alone what an earlier one has analyzed; the re-extract
\* goes over every asset.
Skips == pass = "analyze" /\ at \in done

\* One asset of the loop: its rows and its status commit together, and a row
\* that is there already is not written again.
ExtractAs(outcome) ==
  /\ InPhase("units") /\ ~Skips
  /\ rows' = rows \cup ExtractEndpoints(at, crawl[at], index, outcome)
  /\ done' = done \cup {at}
  /\ at' = at + 1
  /\ UNCHANGED <<crawl, pass, phase, index, lost>>

Extract == InPhase("units") /\ ExtractAs(crawl[at].engine) /\ UNCHANGED faults

\* The engine fails here: the bundle is analyzed in the map's place.
ExtractFallsBack ==
  /\ InPhase("units") /\ faults > 0 /\ crawl[at].map # "none"
  /\ ExtractAs("malformed")
  /\ faults' = faults - 1

SkipDone ==
  /\ InPhase("units") /\ Skips
  /\ at' = at + 1
  /\ UNCHANGED <<crawl, pass, phase, index, rows, done, lost, faults>>

BeginPass(p) == pass' = p /\ phase' = "index" /\ at' = 1 /\ index' = NoIndex

\* The stage is interrupted or its worker dies, and it runs again.
Redelivered ==
  /\ pass = "analyze" /\ faults > 0
  /\ BeginPass("analyze")
  /\ faults' = faults - 1
  /\ UNCHANGED <<crawl, rows, done, lost>>

\* The run is over; the user teaches a wrapper.
Reextract ==
  /\ pass = "analyze" /\ phase = "units" /\ at > Len(crawl)
  /\ BeginPass("reextract")
  /\ UNCHANGED <<crawl, rows, done, lost, faults>>

Over ==
  /\ pass = "reextract" /\ phase = "units" /\ at > Len(crawl)
  /\ pass' = "over" /\ phase' = "index" /\ at' = 1 /\ index' = NoIndex
  /\ UNCHANGED <<crawl, rows, done, lost, faults>>

Next ==
  \/ Harvest \/ HarvestFails \/ IndexBuilt
  \/ Extract \/ ExtractFallsBack \/ SkipDone
  \/ Redelivered \/ Reextract \/ Over

Spec == Init /\ [][Next]_xvars
-----------------------------------------------------------------------------
(* What the names of a call really are.                                    *)

\* The properties a module sets after their literal.
SetIn(u, m) == {u[i].name : i \in {j \in Nodes(u, "set") : u[j].mod = m}}

Files(a) == Range(a.files)
UnitOf(r) ==
  LET a == crawl[r.asset] IN
  IF \E f \in Files(a) : f.path = r.path THEN (CHOOSE f \in Files(a) : f.path = r.path).unit ELSE a.bundle

\* The units the run's assets stand for, each with its key and its build.
RunUnits ==
  UNION {{[asset |-> i, key |-> x.key, unit |-> x.unit] : x \in Units(crawl[i], Recovered(crawl[i], crawl[i].engine))} :
           i \in DOMAIN crawl}
BuildUnits(build) == {x \in RunUnits : crawl[x.asset].build = build}

\* The constants of a module that are bound once in it, and the properties of
\* such objects that nothing sets.
TrueConsts(u, m) ==
  LET b == Body(u, m)
      Once(hows) == {b[i].name : i \in {j \in Binds(b, hows) : Cardinality(Bound(b, b[j].name)) = 1}}
      pairs == ObjectConsts(b, Once({"object"}))
      unset == DOMAIN pairs \ SetIn(u, m)
  IN  WithObjects(ResolveLocalConsts(RawConsts(b, Once({"const"}))), [d \in unset |-> pairs[d]])

\* The values a module gives to one of its exports: one, or none that is certain.
Given(u, m, as) ==
  LET env == TrueConsts(u, m)
      of == {u[i].name : i \in {j \in Nodes(u, "export") : u[j].mod = m /\ u[j].as = as}}
              \cup {u[i].name : i \in {j \in Binds(u, {"const"}) : u[j].public /\ u[j].mod = m /\ u[j].name = as}}
  IN  {env[n] : n \in of \cap DOMAIN env}

\* The units of the same build a binding takes its value from.
Source(node, build) ==
  LET served == SelectSeq(Candidates[node.from], LAMBDA k : \E x \in BuildUnits(build) : x.key = k)
  IN  {x \in BuildUnits(build) : served # <<>> /\ x.key = Head(served)}

TakenValues(node, build) ==
  IF node.how = "import" THEN UNION {Given(x.unit, 0, node.as) : x \in Source(node, build)}
  ELSE UNION {Given(x.unit, node.from, node.as) : x \in BuildUnits(build)}

TrueEnv(u, m, build) ==
  LET b == Body(u, m)
      taken == {i \in Binds(b, {"import", "require"}) : /\ Cardinality(Bound(b, b[i].name)) = 1
                                                        /\ Cardinality(TakenValues(b[i], build)) = 1}
  IN  [n \in {b[i].name : i \in taken} |->
         CHOOSE v \in TakenValues(b[CHOOSE i \in taken : b[i].name = n], build) : TRUE]
      @@ TrueConsts(u, m)

\* The URL of a row is the one the program certainly uses there.
Right(r) ==
  LET u == UnitOf(r) IN
  IF r.node = 0
  THEN \E i \in Binds(u, {"const", "object"}) :
         r.url \in Range(TrueConsts(u, u[i].mod))
  ELSE Fold(u[r.node].expr, TrueEnv(u, u[r.node].mod, crawl[r.asset].build)) = r.url

Imports(u, e) == {i \in Binds(u, {"import"}) : u[i].name \in Range(e)}

\* The row's URL may be the old value of a property its unit sets.
FromSet(r) ==
  LET u == UnitOf(r) IN
  IF r.node = 0
  THEN \E i \in Nodes(u, "set") : u[i].name \in DOMAIN ConstPrefixes(u) /\ ConstPrefixes(u)[u[i].name] = r.url
  ELSE Range(u[r.node].expr) \cap SetIn(u, u[r.node].mod) # {}
-----------------------------------------------------------------------------
CrossModuleConstants ==
  /\ Absolute \subseteq Literals
  /\ MaxNodes \in Nat /\ MaxFiles \in Nat \ {0} /\ MaxFaults \in Nat
  /\ \A c \in Crawls : \A i \in DOMAIN c : \A u \in {c[i].bundle} \cup {f.unit : f \in Files(c[i])} :
       \* a program names nothing its module does not bind
       \A j \in Nodes(u, "call") : \A n \in Range(u[j].expr) \ Literals :
         \/ \E k \in Bound(u, n) : u[k].mod = u[j].mod
         \/ \E k \in Binds(u, {"object"}) : u[k].mod = u[j].mod /\ n \in DOMAIN u[k].pairs

\* A URL that comes from the unit's own constants, or from the modules it
\* requires, is the one the program uses at that place, whatever binding of
\* its names the call reads and however far into a large unit it stands
\* (_declared_names, resolve_local_consts, collect_webpack_requires).  Except a
\* URL read from a property of an object literal that the unit sets again: no
\* assignment to a property is tracked, and the row holds the value of the
\* literal (the limitation collect_base_env's comment names).
LocalsNeverInvented ==
  \A r \in rows :
    /\ r.url # NoValue
    /\ r.node = 0 \/ Imports(UnitOf(r), UnitOf(r)[r.node].expr) = {}
    /\ ~FromSet(r)
    => Right(r)

\* An imported constant is found whenever the pre-pass read the run's assets:
\* the index holds the module under the very key the importer's loop looks it
\* up by, with a map, with an empty or broken one, and with none
\* (_harvest_asset_exports against _analysis_units).
ImportsFound ==
  lost = {} =>
    \A r \in rows : r.node # 0 =>
      LET u == UnitOf(r) IN
      \A i \in Imports(u, u[r.node].expr) : \A x \in RunUnits :
        LET given == CollectModuleExports(x.unit) IN
        /\ x.key = Head(Candidates[u[i].from])
        /\ \A y \in RunUnits : y.key = x.key => y = x
        /\ u[r.node].expr = <<u[i].name>> /\ Imports(u, <<u[i].name>>) = {i}
        /\ u[i].as \in DOMAIN given
        => r.url = given[u[i].as]

\* The URL of a row is the one the program uses there: none is made of a value
\* its names do not have, unless of a property the unit sets again, and none is
\* missed that an import gives.
UrlsAreTheirs == LocalsNeverInvented /\ ImportsFound
=============================================================================
