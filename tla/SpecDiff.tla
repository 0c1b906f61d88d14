------------------------------- MODULE SpecDiff -------------------------------
(***************************************************************************)
(* Which endpoints of a session an OpenAPI document leaves out: the spec   *)
(* attached to the session (spec/service.py), the base-URL rules of the    *)
(* analyst (spec/base_url_service.py, findings/base_url.py), and the       *)
(* verdicts on the session's endpoints (spec/classify.py, spec/ingest.py). *)
(*                                                                         *)
(* A task is a request, or what the worker does at a run's end.  A step is *)
(* one statement of a transaction that reads what is committed, or several *)
(* that nothing told apart here comes between; a transaction's writes are  *)
(* seen when it commits.  Paths are sequences of segments, and a finding's *)
(* path starts with a slash.  Which operation was matched, the counts of a *)
(* summary and the event that carries them are left out.                   *)
(***************************************************************************)
EXTENDS Integers, SequencesExt

CONSTANTS
  Holders,      \* segments that hold a parameter: {id}, a number, a UUID
  Vars,         \* segments that are one substitution: ${x}
  Mixed,        \* segments with a substitution and more
  HttpMethods, PathItemMethods,
  Endpoints,    \* [id, method, path, real]: the operation of a finding, and the path it
                \* calls in truth
  Assets,       \* what is recorded at a time: sets of occurrences <<endpoint, how>>
  Bodies,       \* spec_ref to document: [passes, servers, paths]
  Rules,        \* base-URL rules: [kind, prefix, ids, base]
  Tasks,
  MaxRules, MaxRuns, MaxTasks, MaxMishaps \* bounds

VARIABLES
  spec,    \* session_spec: the spec_ref, or NoSpec
  rules,   \* session_base_url, the latest updated first
  occ,     \* occurrences of the session's endpoints: <<endpoint, how>>
  verdict, \* finding_spec_status by endpoint
  working, \* a run is at work
  task,    \* each task's transaction
  stale,   \* history: verdicts may be older than what they are made of
  runs, begun, mishaps \* runs and tasks begun, and transactions lost, up to the bounds

dvars == <<spec, rules, occ, verdict, working, task, stale, runs, begun, mishaps>>
-----------------------------------------------------------------------------
(* classify.py. *)

Star == "*"

\* compare_key, of a path.
Key(path) ==
  [i \in DOMAIN path |-> IF path[i] \in Holders \union Vars THEN Star ELSE path[i]]

IsPartial(path) == \E i \in DOMAIN path : path[i] \in Mixed \/ (i = 1 /\ path[i] \in Vars)

\* One of the keys is what another, longer one ends in.
IsProperSuffix(shorter, longer) == shorter # << >> /\ IsStrictSuffix(shorter, longer)

Overlap(key, doc) == IsProperSuffix(key, doc) \/ IsProperSuffix(doc, key)

\* Mutant: another method's path is looked for before a suffix.
ClassifyShadowFirst(method, path, docs) ==
  CASE method \notin HttpMethods -> "non-http"
    [] method \in HttpMethods /\ IsPartial(path) -> "partial"
    [] OTHER ->
         IF \E d \in docs : d.method = method /\ Key(d.path) = Key(path) THEN "documented"
         ELSE IF \E d \in docs : Key(d.path) = Key(path) THEN "undocumented-method"
         ELSE IF \E d \in docs : Overlap(Key(path), Key(d.path)) THEN "suffix-verify"
         ELSE "undocumented-path"

\* classify_operation: the first that holds.
Classify(method, path, docs) ==
  CASE method \notin HttpMethods -> "non-http"
    [] method \in HttpMethods /\ IsPartial(path) -> "partial"
    [] OTHER ->
         IF \E d \in docs : d.method = method /\ Key(d.path) = Key(path) THEN "documented"
         ELSE IF \E d \in docs : Overlap(Key(path), Key(d.path)) THEN "suffix-verify"
         ELSE IF \E d \in docs : Key(d.path) = Key(path) THEN "undocumented-method"
         ELSE "undocumented-path"

IsShadow(reason) == reason \in {"undocumented-method", "undocumented-path"}
-----------------------------------------------------------------------------
(* ingest.py: a document is read if it passes every guard. *)

Guards == {"size", "parse", "bounds", "local refs", "schema"}

Accepted(body) == Guards \subseteq body.passes

\* The path of a server's URL, its variables replaced by their defaults.
ServerBase(server) ==
  [i \in DOMAIN server.path |->
     IF server.path[i] \in DOMAIN server.defaults THEN server.defaults[server.path[i]]
     ELSE server.path[i]]

ServerBases(body) ==
  IF body.servers = {} THEN {<< >>} ELSE {ServerBase(server) : server \in body.servers}

Documented(body) ==
  UNION {{[method |-> method, path |-> base \o item.path] :
            method \in item.methods \intersect PathItemMethods, base \in ServerBases(body)} :
         item \in body.paths}
-----------------------------------------------------------------------------
(* base_url.py: a rule prepends its base to a path without a host. *)

\* _match: the latest rule that selects the finding, or the one with the
\* longest prefix.
Applied(rs, e) ==
  LET selects  == {i \in DOMAIN rs : rs[i].kind = "selection" /\ e.id \in rs[i].ids}
      prefixes == {i \in DOMAIN rs : rs[i].kind = "prefix" /\ IsPrefix(rs[i].prefix, e.path)}
  IN IF selects # {} THEN {rs[i] : i \in {j \in selects : \A k \in selects : j <= k}}
     ELSE {rs[i] : i \in {j \in prefixes : \A k \in prefixes :
                            Len(rs[k].prefix) <= Len(rs[j].prefix)}}

Join(rule, path) == IF IsPrefix(rule.base, path) THEN path ELSE rule.base \o path

\* _strip_leading_base_var.
StripLeadingVar(path) ==
  IF path # << >> /\ path[1] \in Vars THEN SubSeq(path, 2, Len(path)) ELSE path

\* The path calls the real one, or what is left of it without a base; the root
\* is left of everything and counts as nothing.
Spells(path, real) == Key(path) = Key(real) \/ IsProperSuffix(Key(path), Key(real))

Misleads(rule, e) == ~Spells(rule.base \o e.path, e.real)

(* What is taken of the code that calls the endpoints: where a path is known
   it spells the real one, and so does what follows an unknown base.       *)
SpecDiffAssumption == \A e \in Endpoints :
  /\ IsPartial(e.path) \/ Spells(e.path, e.real)
  /\ IsPartial(StripLeadingVar(e.path)) \/ Spells(StripLeadingVar(e.path), e.real)

ASSUME SpecDiffConstants ==
  /\ SpecDiffAssumption
  /\ UNION Assets \subseteq Endpoints \X {"relative", "absolute", "capture"}
  /\ MaxRules \in Nat /\ MaxRuns \in Nat /\ MaxTasks \in Nat /\ MaxMishaps \in Nat
-----------------------------------------------------------------------------
(* _classify_session. *)

NoSpec == "none"

Unjudged == [reason |-> "none", spec |-> NoSpec, misled |-> FALSE]
NoVerdicts == [e \in Endpoints |-> Unjudged]

Found == {o[1] : o \in occ}
SameOperation(e, f) == e.method = f.method /\ e.path = f.path
Captured(e) == <<e, "capture">> \in occ

\* An operation seen with a host anywhere in the session is not given a base.
HasHost(e) == \E o \in occ : o[2] # "relative" /\ SameOperation(o[1], e)

Rebasing(e) == IF HasHost(e) THEN {} ELSE Applied(rules, e)

ClassifiedPath(e) ==
  IF Captured(e) THEN StripLeadingVar(e.path)
  ELSE IF Rebasing(e) = {} THEN e.path
  ELSE Join(CHOOSE r \in Rebasing(e) : TRUE, e.path)

(* misled is a history: the rule gave the call a base it does not have. *)
Judge(e, ref) ==
  [reason |-> Classify(e.method, ClassifiedPath(e), Documented(Bodies[ref])),
   spec   |-> ref,
   misled |-> ~Captured(e) /\ \E r \in Rebasing(e) : Misleads(r, e)]
-----------------------------------------------------------------------------
AtRest == [pc |-> "idle", attaches |-> FALSE, spec |-> NoSpec, rows |-> {},
           verdicts |-> NoVerdicts, alone |-> FALSE]

Idle(t) == task[t].pc = "idle"
Others(t) == Tasks \ {t}

\* alone is a history: no other task was at work since this one began.
Disturbed(ts) == [u \in Tasks |-> [ts[u] EXCEPT !.alone = FALSE]]
Begins(t, new) ==
  /\ begun < MaxTasks /\ begun' = begun + 1
  /\ task' = [Disturbed(task) EXCEPT ![t] = [new EXCEPT !.alone = \A u \in Others(t) : Idle(u)]]

Init ==
  /\ spec = NoSpec /\ rules = << >> /\ occ = {} /\ verdict = NoVerdicts
  /\ working = FALSE /\ task = [t \in Tasks |-> AtRest] /\ stale = FALSE
  /\ runs = 0 /\ begun = 0 /\ mishaps = 0

(* attach_and_classify: the document is read, and the session's row is held
   until the transaction ends.  One that is refused leaves no row.         *)
Attach(t, ref) ==
  /\ Idle(t) /\ \A u \in Others(t) : ~task[u].attaches
  /\ Accepted(Bodies[ref])
  /\ Begins(t, [AtRest EXCEPT !.pc = "rows", !.attaches = TRUE, !.spec = ref])
  /\ UNCHANGED <<spec, rules, occ, verdict, working, stale, runs, mishaps>>

Reclassifying == [AtRest EXCEPT !.pc = "read"]

(* add_rule: the rule is committed, one of the same prefix replaced, and the
   session classified again in a transaction of its own.                   *)
AddRule(t, rule) ==
  LET replaced(r) == rule.kind = "prefix" /\ r.kind = "prefix" /\ r.prefix = rule.prefix
      kept == SelectSeq(rules, LAMBDA r : ~replaced(r))
  IN /\ Idle(t) /\ Len(kept) < MaxRules
     /\ rules' = <<rule>> \o kept
     /\ Begins(t, Reclassifying)
     /\ UNCHANGED <<spec, occ, verdict, working, stale, runs, mishaps>>

\* delete_rule.
DeleteRule(t, i) ==
  /\ Idle(t)
  /\ rules' = RemoveAt(rules, i)
  /\ Begins(t, Reclassifying)
  /\ UNCHANGED <<spec, occ, verdict, working, stale, runs, mishaps>>

\* reclassify_run: nothing to do without a spec.
ReadSpec(t) ==
  /\ task[t].pc = "read"
  /\ task' = [task EXCEPT ![t] = IF spec = NoSpec THEN AtRest
                                 ELSE [@ EXCEPT !.pc = "rows", !.spec = spec]]
  /\ UNCHANGED <<spec, rules, occ, verdict, working, stale, runs, begun, mishaps>>

\* _classify_session: the distinct endpoints of every run of the session.
SelectEndpoints(t) ==
  /\ task[t].pc = "rows"
  /\ task' = [task EXCEPT ![t].pc = "context", ![t].rows = Found]
  /\ UNCHANGED <<spec, rules, occ, verdict, working, stale, runs, begun, mishaps>>

\* The rules, the operations with a host and the captured findings; then a
\* verdict on each endpoint.
ClassifyEndpoints(t) ==
  /\ task[t].pc = "context"
  /\ task' = [task EXCEPT ![t].pc = "commit",
                ![t].verdicts = [e \in Endpoints |-> IF e \in task[t].rows
                                                     THEN Judge(e, task[t].spec) ELSE Unjudged]]
  /\ UNCHANGED <<spec, rules, occ, verdict, working, stale, runs, begun, mishaps>>

\* The verdicts replace those of the same findings, whatever spec they are of.
Commit(t) ==
  /\ task[t].pc = "commit"
  /\ verdict' = [e \in Endpoints |-> IF e \in task[t].rows THEN task[t].verdicts[e]
                                     ELSE verdict[e]]
  /\ spec' = IF task[t].attaches THEN task[t].spec ELSE spec
  /\ stale' = ~task[t].alone
  /\ task' = [task EXCEPT ![t] = AtRest]
  /\ UNCHANGED <<rules, occ, working, runs, begun, mishaps>>

\* A statement fails, or the process ends: a rule, or a run's end, stays.
Rollback(t) ==
  /\ ~Idle(t) /\ mishaps < MaxMishaps /\ mishaps' = mishaps + 1
  /\ stale' = (stale \/ ~task[t].attaches)
  /\ task' = [task EXCEPT ![t] = AtRest]
  /\ UNCHANGED <<spec, rules, occ, verdict, working, runs, begun>>
-----------------------------------------------------------------------------
(* The session's runs, one at a time. *)

RunStarts ==
  /\ ~working /\ runs < MaxRuns
  /\ working' = TRUE /\ runs' = runs + 1
  /\ UNCHANGED <<spec, rules, occ, verdict, task, stale, begun, mishaps>>

\* Analyze, of an asset, and correlate: endpoints in a file, with or without a
\* host, or among the requests observed, in one transaction.
Records(occurrences) ==
  /\ working
  /\ occ' = occ \union occurrences
  /\ UNCHANGED <<spec, rules, verdict, working, task, stale, runs, begun, mishaps>>

\* A wrapper is taught after the run's end: the endpoints its assets turn out to
\* call are not classified.  During the run that is one more of Records.
Reextracts(occurrences) ==
  /\ ~working /\ runs > 0
  /\ occ' = occ \union occurrences
  /\ task' = Disturbed(task) /\ stale' = TRUE
  /\ UNCHANGED <<spec, rules, verdict, working, runs, begun, mishaps>>

\* Mutant: a run's end leaves the verdicts as they are.
AdvanceOnly(t) ==
  /\ working /\ Idle(t) /\ working' = FALSE
  /\ UNCHANGED <<spec, rules, occ, verdict, task, stale, runs, begun, mishaps>>

\* coordinator.advance: the last stage is over, and the session classified
\* again after the run's transition.
Advance(t) ==
  /\ working /\ Idle(t) /\ working' = FALSE
  /\ Begins(t, Reclassifying)
  /\ UNCHANGED <<spec, rules, occ, verdict, stale, runs, mishaps>>

\* A run that fails or is cancelled is not followed by a classification.
RunStops ==
  /\ working /\ working' = FALSE
  /\ task' = Disturbed(task) /\ stale' = TRUE
  /\ UNCHANGED <<spec, rules, occ, verdict, runs, begun, mishaps>>

Next ==
  \/ \E t \in Tasks :
       \/ \E ref \in DOMAIN Bodies : Attach(t, ref)
       \/ \E rule \in Rules : AddRule(t, rule)
       \/ \E i \in DOMAIN rules : DeleteRule(t, i)
       \/ ReadSpec(t) \/ SelectEndpoints(t) \/ ClassifyEndpoints(t) \/ Commit(t)
       \/ Rollback(t) \/ Advance(t)
  \/ \E occurrences \in Assets : Records(occurrences) \/ Reextracts(occurrences)
  \/ RunStarts \/ RunStops

Spec == Init /\ [][Next]_dvars
-----------------------------------------------------------------------------
\* The document has the operation that the endpoint calls in truth.
IsDocumented(e, ref) ==
  \E d \in Documented(Bodies[ref]) : d.method = e.method /\ Key(d.path) = Key(e.real)

\* A call is never stored as a shadow of the document that has it, however
\* much of its base is missing, unless a rule gave it a wrong one (the safety
\* invariant of classify_operation, which rests on base_url.py as well).
NoFalseShadow == \A e \in Endpoints :
  IsShadow(verdict[e].reason) /\ ~verdict[e].misled => ~IsDocumented(e, verdict[e].spec)

\* Once nothing is at work every endpoint has the verdict that the session's
\* spec, rules and occurrences give it, unless the last classification
\* overlapped another, failed, or was missing after a run that did not finish
\* or a wrapper taught late (add_rule, delete_rule, reclassify_run, advance).
VerdictsCurrent ==
  spec # NoSpec /\ ~working /\ ~stale /\ (\A t \in Tasks : Idle(t)) =>
    \A e \in Found : verdict[e] = Judge(e, spec)

\* A call whose base is unknown is not called a shadow of the document that
\* has it (the gate of is_partial).
UnresolvedIsNoShadow == \A e \in Endpoints :
  e.path[1] \in Vars /\ IsShadow(verdict[e].reason) => ~IsDocumented(e, verdict[e].spec)
===============================================================================
