---------------------------- MODULE FindingIdentity ----------------------------
(***************************************************************************)
(* What makes two sightings one finding (findings/normalize.py), what a    *)
(* finding keeps of its sightings (findings/analyze.py, findings/store.py) *)
(* and what a diff of two runs says (findings/queries.py).  Two runs       *)
(* analyze the same code; between them it was built anew, so that the      *)
(* names its build chooses changed, and the base may have been analyzed    *)
(* under the identity before this one.                                     *)
(***************************************************************************)
EXTENDS Integers, Sequences, FiniteSets

CONSTANTS
  Texts,    \* what a substitution holds
  NameIn,   \* the name a substitution reads, of each text; NoName of an expression
  NoName,
  Builds,   \* functions from the texts of one build to those of the next
  Codes     \* the programs: sets of call sites

\* A call site is one place of the program: what stands there is one URL.
IdentityConstantsOK ==
  /\ NameIn \in [Texts -> Texts \cup {NoName}]
  /\ Builds \subseteq [Texts -> Texts]
  /\ \A c \in Codes : \A site \in c :
       /\ DOMAIN site = {"id", "lane", "method", "path", "keys", "kind", "auth"}
       /\ Len(site.path) \in Nat /\ DOMAIN site.path = 1 .. Len(site.path)
       /\ \A i \in DOMAIN site.path : DOMAIN site.path[i] = {"k", "n"}
       /\ \A other \in c : other.id = site.id => other = site

VARIABLES
  code,   \* the call sites of the program
  build,  \* how the second build renames
  oldest, \* the version of the base's identity
  base,   \* rows of the base run: from keys to attributes
  run     \* rows of the newer run

ivars == <<code, build, oldest, base, run>>

Versions == {2, 3}
Current == 3

Init ==
  /\ code \in Codes /\ build \in Builds /\ oldest \in Versions
  /\ base = << >> /\ run = << >>
-----------------------------------------------------------------------------
(* A URL is a sequence of segments [k, n]: literal text, an integer, a uuid, *)
(* a hash, a whole substitution, one with text around it, or what stands for *)
(* an unknown part in the lane of the suspected.                             *)
Token(kind) == [k |-> kind, n |-> ""]
ValueTemplates == {Token("id"), Token("uuid"), Token("hash")}

\* template_segment
TemplateSegment(seg) == IF seg.k = "int" THEN Token("id") ELSE seg

WholePlaceholder(seg, holders) == seg.k = "var" \/ (holders /\ seg.k \in {"holder", "expr"})

\* placeholder_name: an expression, and EXPR, have none.
PlaceholderName(seg) == IF seg.k = "var" THEN NameIn[seg.n] ELSE IF seg.k = "holder" THEN seg.n ELSE NoName

\* A literal, or a placeholder with text around it, which is shape.
Shape(seg, holders) ==
  ~WholePlaceholder(seg, holders) /\ TemplateSegment(seg) \notin ValueTemplates

\* A parameter by position: a value, or a placeholder after a literal; a leading
\* placeholder is an unresolved base.
PositionalSegment(path, holders, i) ==
  IF WholePlaceholder(path[i], holders) THEN \E j \in 1 .. i - 1 : Shape(path[j], holders)
  ELSE TemplateSegment(path[i]) \in ValueTemplates

\* _templatize_path: the path and, of its parameters, the segments they are.
TemplatizePath(path, holders) ==
  [i \in DOMAIN path |->
    IF WholePlaceholder(path[i], holders) /\ PositionalSegment(path, holders, i)
    THEN Token("id") ELSE TemplateSegment(path[i])]
PathParams(path, holders) == {i \in DOMAIN path : PositionalSegment(path, holders, i)}

\* _path_static_segment_count of the lane of the suspected.
HasStatic(path) == \E i \in DOMAIN path : path[i].k \notin {"var", "holder", "expr"}

\* A key: the version is hashed with the type and the value.
Key(version, type, method, path, query, at) ==
  [v |-> version, type |-> type, method |-> method, path |-> path, query |-> query, at |-> at]
Nowhere == [loc |-> "none", pos |-> 0, name |-> ""]
AtPosition(p) == [loc |-> "path", pos |-> p, name |-> ""]
AtQuery(name) == [loc |-> "query", pos |-> 0, name |-> name]
BuiltAtRuntime == "${}"

\* The lane a site's finding is in; a suspected one without a literal keeps its text.
TypeOf(site) ==
  CASE site.lane = "call" -> "endpoint"
    [] site.lane = "suspected" /\ HasStatic(site.path) -> "endpoint_suspected"
    [] OTHER -> "endpoint_unresolved"

\* normalize_endpoint, normalize_suspected_endpoint
Normalized(site) == TemplatizePath(site.path, site.lane = "suspected")
Params(site) == PathParams(site.path, site.lane = "suspected")
QueryKeys(keys) == keys \ {BuiltAtRuntime}

\* Identity v2: substitutions stay in the value, and so does a query key that
\* is built at run time.
V2Path(path) == [i \in DOMAIN path |-> TemplateSegment(path[i])]

EndpointKey(site, version) ==
  CASE TypeOf(site) = "endpoint_unresolved" ->
         Key(version, "endpoint_unresolved", site.method, site.path, site.keys, Nowhere)
    [] TypeOf(site) # "endpoint_unresolved" /\ version = 2 ->
         Key(2, TypeOf(site), site.method, V2Path(site.path), site.keys, Nowhere)
    [] OTHER -> Key(3, TypeOf(site), site.method, Normalized(site), QueryKeys(site.keys), Nowhere)

\* normalize_param_value: the operation has no query.
ParamKey(site, version, at) ==
  Key(version, "param", site.method, EndpointKey(site, version).path, {}, at)

\* PathParam: a parameter's position is its place among them.
Position(params, i) == Cardinality({j \in params : j <= i})

\* Of one sighting: {position -> [names, integer]}.
Evidence(site) ==
  LET params == Params(site)
      At(p) == site.path[CHOOSE i \in params : Position(params, i) = p]
  IN  [p \in {Position(params, i) : i \in params} |->
        [names |-> {PlaceholderName(At(p))} \ {NoName}, integer |-> TemplateSegment(At(p)) = Token("id")]]

\* The attributes one sighting gives its endpoint.
Sighted(site, version) ==
  [params |-> IF version = 3 /\ TypeOf(site) # "endpoint_unresolved" THEN Evidence(site) ELSE << >>,
   dynamic |-> version = 3 /\ BuiltAtRuntime \in site.keys,
   kinds |-> {site.kind}, auth |-> site.auth, sites |-> {site.id}]

SightedParam(site, evidence) ==
  [params |-> evidence, dynamic |-> FALSE, kinds |-> {}, auth |-> {}, sites |-> {site.id}]

\* merge_path_param_evidence: names are united, and one template sighting makes
\* the value not known to be an integer.
MergeEvidence(old, new) ==
  [p \in DOMAIN old \cup DOMAIN new |->
    [names |-> UNION {e[p].names : e \in {f \in {old, new} : p \in DOMAIN f}},
     integer |-> \A e \in {f \in {old, new} : p \in DOMAIN f} : e[p].integer]]

\* _merge_attributes: a kind that two sightings disagree on is none.
Ambiguous == {"none"}
MergeKinds(old, new) == IF old = new THEN old ELSE Ambiguous

Merge(old, new) ==
  [params |-> MergeEvidence(old.params, new.params),
   dynamic |-> old.dynamic \/ new.dynamic,
   kinds |-> MergeKinds(old.kinds, new.kinds),
   auth |-> old.auth \cup new.auth,
   sites |-> old.sites \cup new.sites]

\* record_finding: a row is inserted or merged into, the occurrence added.
Recorded(rows, entries) ==
  LET keys == {entry[1] : entry \in entries}
      Given(k) == (CHOOSE entry \in entries : entry[1] = k)[2]
  IN  [k \in DOMAIN rows \cup keys |->
        IF k \notin keys THEN rows[k]
        ELSE IF k \in DOMAIN rows THEN Merge(rows[k], Given(k)) ELSE Given(k)]

\* _record_endpoint: a row of its own for each query key and, since v3, for each
\* position; the other lanes have none.
ParamRows(site, version) ==
  IF TypeOf(site) # "endpoint" THEN {}
  ELSE {<<ParamKey(site, version, AtQuery(name)), SightedParam(site, << >>)>> :
          name \in IF version = 3 THEN QueryKeys(site.keys) ELSE site.keys}
       \cup {<<ParamKey(site, version, AtPosition(p)),
               SightedParam(site, [q \in {1} |-> [names |-> Evidence(site)[p].names, integer |-> FALSE]])>> :
               p \in IF version = 3 THEN DOMAIN Evidence(site) ELSE {}}

RecordSite(rows, site, version) ==
  Recorded(rows, {<<EndpointKey(site, version), Sighted(site, version)>>} \cup ParamRows(site, version))
-----------------------------------------------------------------------------
\* The code after the next build.
Renamed(seg) == IF seg.k \in {"var", "mix"} THEN [seg EXCEPT !.n = build[@]] ELSE seg
Rebuilt(site) == [site EXCEPT !.path = [i \in DOMAIN site.path |-> Renamed(site.path[i])]]

SitesOf(rows) == UNION {rows[k].sites : k \in DOMAIN rows}

\* Sites are recorded in any order; a stage that is retried records them again.
AnalyzeBase(site) ==
  /\ base' = RecordSite(base, site, oldest)
  /\ UNCHANGED <<code, build, oldest, run>>

AnalyzeRun(site) ==
  /\ run' = RecordSite(run, Rebuilt(site), Current)
  /\ UNCHANGED <<code, build, oldest, base>>

Next == \E site \in code : AnalyzeBase(site) \/ AnalyzeRun(site)

Spec == Init /\ [][Next]_ivars
-----------------------------------------------------------------------------
\* rewrite_v2_value: what has no counterpart stays as it is.
RewriteV2(key) ==
  LET holders == key.type = "endpoint_suspected" IN
  CASE key.type \in {"endpoint", "endpoint_suspected"} ->
         Key(Current, key.type, key.method, TemplatizePath(key.path, holders), QueryKeys(key.query), key.at)
    [] key.type = "param" /\ key.at = AtQuery(BuiltAtRuntime) -> key
    [] key.type = "param" /\ key.at # AtQuery(BuiltAtRuntime) ->
         Key(Current, key.type, key.method, TemplatizePath(key.path, FALSE), key.query, key.at)
    [] OTHER -> [key EXCEPT !.v = Current]

\* Mutant: the stored hashes are compared.
StoredKey(key) == key

\* current_finding_hash
CurrentKey(key) == IF key.v = Current THEN key ELSE RewriteV2(key)

\* diff_runs: findings by path parameter are not new to a base that is older
\* than they are.
KeysOf(rows) == {CurrentKey(k) : k \in DOMAIN rows}
BaseUpgraded == \E k \in DOMAIN base : CurrentKey(k) # k
Carried == IF BaseUpgraded THEN {k \in KeysOf(run) : k.at.loc = "path"} ELSE {}
NewFindings == (KeysOf(run) \ KeysOf(base)) \ Carried
GoneFindings == KeysOf(base) \ KeysOf(run)
-----------------------------------------------------------------------------
AllOf(rows) == SitesOf(rows) = {site.id : site \in code}
\* Nothing that a build chooses is left in the value.
Positional(site) ==
  /\ TypeOf(site) # "endpoint_unresolved"
  /\ \A i \in DOMAIN site.path :
       /\ site.path[i].k # "mix"
       /\ site.path[i].k = "var" => \E j \in 1 .. i - 1 :
            TemplateSegment(site.path[j]) \notin ValueTemplates /\ site.path[j].k \notin {"var", "expr", "holder"}

\* The same code, built again and analyzed under the identity of today, shows
\* nothing new and nothing gone but the query keys v2 made up, as long as no
\* substitution is part of a value (normalize.py, diff_runs).
SameCodeNoDiff ==
  AllOf(base) /\ AllOf(run) /\ (\A site \in code : Positional(site)) =>
    /\ NewFindings = {}
    /\ \A k \in GoneFindings : k.at = AtQuery(BuiltAtRuntime)
=============================================================================
