------------------------------ MODULE Correlate ------------------------------
(***************************************************************************)
(* The correlate stage (correlate/stage.py, match.py and bodies.py): the   *)
(* requests a capture observed give the endpoints found without a host the *)
(* url they were called at, and their bodies give parameters.              *)
(*                                                                         *)
(* A path is a sequence of segments.  The stage runs again when its worker *)
(* dies before the job is finished.                                        *)
(***************************************************************************)
EXTENDS Integers, Sequences, FiniteSets

CONSTANTS
  Endpoints,    \* [method, var, tail]: var, a leading ${base}; tail, the segments after it
  Requests,     \* [method, url], a url being [host, path]
  Param,        \* a segment that matches any one: {id} or ${name}
  MaxEndpoints, \* bound: endpoints without a host the run found
  MaxRequests,  \* bound: requests it observed
  Deaths        \* bound: executions that die

CorrelateConstantsOK ==
  /\ \A e \in Endpoints : Len(e.tail) \in Nat
  /\ \A r \in Requests : Len(r.url.path) \in Nat
  /\ MaxEndpoints \in Nat /\ MaxRequests \in Nat /\ Deaths \in Nat

VARIABLES
  ops,      \* the run's endpoints that analysis found no host for
  observed, \* the capture-requests blob of its manifest
  hosts,    \* urls attached to each endpoint, as occurrences of the capture
  hints,    \* endpoints that have body parameters
  matcher,  \* the execution: [pc, resolved]
  deaths    \* executions that died

mvars == <<ops, observed, hosts, hints, matcher, deaths>>

UpTo(n, S) == {T \in SUBSET S : Cardinality(T) <= n}
Nothing == [pc |-> "idle", resolved |-> {}]

Init ==
  /\ ops \in UpTo(MaxEndpoints, Endpoints)
  /\ observed \in UpTo(MaxRequests, Requests)
  /\ hosts = [e \in Endpoints |-> {}] /\ hints = {}
  /\ matcher = Nothing /\ deaths = 0
-----------------------------------------------------------------------------
(* match.py. *)

\* _parse_tail: a path of parameters alone is never matched.
Constants(e) == Cardinality({i \in 1..Len(e.tail) : e.tail[i] # Param})

Absorbed(e, path) == Len(path) - Len(e.tail)

\* _absorbed: the last segments of the path align with the tail; only a
\* leading variable stands for what comes before.
Aligned(e, path) ==
  /\ Constants(e) > 0
  /\ IF e.var THEN Absorbed(e, path) >= 0 ELSE Absorbed(e, path) = 0
  /\ \A i \in 1..Len(e.tail) : e.tail[i] \in {Param, path[Absorbed(e, path) + i]}

\* _specificity: more constants, then less of the path absorbed.
MoreSpecific(e, f, path) ==
  \/ Constants(e) > Constants(f)
  \/ Constants(e) = Constants(f) /\ Absorbed(e, path) < Absorbed(f, path)

\* The endpoints that match a request to the url.
Candidates(eps, obs, url) ==
  {e \in eps : Aligned(e, url.path) /\ \E r \in obs : r.url = url /\ r.method = e.method}

MostSpecific(cands, path) == {e \in cands : \A f \in cands : ~MoreSpecific(f, e, path)}

\* Mutant: of several that are as specific, each wins.
WinsTied(eps, obs, e) ==
  {u \in {r.url : r \in obs} : e \in MostSpecific(Candidates(eps, obs, u), u.path)}

\* The urls at which the endpoint is the single most specific one.
Wins(eps, obs, e) ==
  {u \in {r.url : r \in obs} : MostSpecific(Candidates(eps, obs, u), u.path) = {e}}

\* correlate: an endpoint that won a single url is resolved to it.
Resolve(eps, obs) ==
  {x \in eps \X {r.url : r \in obs} : Wins(eps, obs, x[1]) = {x[2]}}
-----------------------------------------------------------------------------
(* stage.py and bodies.py. *)

\* The endpoints that have no host by now, and the urls they resolve to.
ReadFindings ==
  /\ matcher.pc = "idle"
  /\ matcher' = [pc |-> "write",
                 resolved |-> Resolve({e \in ops : hosts[e] = {}}, observed)]
  /\ UNCHANGED <<ops, observed, hosts, hints, deaths>>

\* The occurrences, in one transaction; one that is there stays as it is.
WriteOccurrences ==
  /\ matcher.pc = "write"
  /\ hosts' = [e \in Endpoints |-> hosts[e] \cup {u \in {r.url : r \in observed} :
                                                   <<e, u>> \in matcher.resolved}]
  /\ matcher' = [matcher EXCEPT !.pc = "bodies"]
  /\ UNCHANGED <<ops, observed, hints, deaths>>

\* analyze_bodies: parameters for the endpoints this execution resolved, in
\* a transaction of its own; when it fails the stage still succeeds.
AnalyzeBodies ==
  /\ matcher.pc = "bodies"
  /\ hints' \in {hints, hints \cup {x[1] : x \in matcher.resolved}}
  /\ matcher' = [matcher EXCEPT !.pc = "end"]
  /\ UNCHANGED <<ops, observed, hosts, deaths>>

\* The worker dies before the job is finished: the stage is run again.
Redelivered ==
  /\ matcher.pc # "idle" /\ deaths < Deaths
  /\ deaths' = deaths + 1 /\ matcher' = Nothing
  /\ UNCHANGED <<ops, observed, hosts, hints>>

Next == ReadFindings \/ WriteOccurrences \/ AnalyzeBodies \/ Redelivered

Spec == Init /\ [][Next]_mvars
-----------------------------------------------------------------------------
Matches(e, u) == e \in Candidates(ops, observed, u)
Seen == {r.url : r \in observed}

\* What one execution attaches is never a guess: an endpoint gets a url if
\* and only if it matches it better than every other endpoint does, and
\* matches no second url that well; then it has parameters only for that
\* (match.correlate, against its stated rules).
NeverGuesses == deaths = 0 /\ matcher.pc \in {"bodies", "end"} =>
  /\ \A e \in ops, u \in Seen : u \in hosts[e] <=>
       /\ Matches(e, u)
       /\ \A f \in ops \ {e} : Matches(f, u) => MoreSpecific(e, f, u.path)
       /\ \A v \in Seen \ {u} : Matches(e, v) =>
            \E f \in ops \ {e} : Matches(f, v) /\ ~MoreSpecific(e, f, v.path)
  /\ hints \subseteq {e \in ops : hosts[e] # {}}
=============================================================================
