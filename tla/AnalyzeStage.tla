---------------------------- MODULE AnalyzeStage ----------------------------
(***************************************************************************)
(* The analyze stage (findings/analyze.py), the findings it writes         *)
(* (findings/store.py), the coverage it counts (findings/coverage.py) and  *)
(* the re-extraction a user starts by teaching the session a wrapper       *)
(* (findings/wrapper_service.py, findings/reextract.py).                   *)
(*                                                                         *)
(* One asset is one database transaction of several statements, at the     *)
(* isolation the database defaults to: a statement reads what is           *)
(* committed, waits for the row another transaction has changed, and two   *)
(* transactions that wait for each other lose one of them.  A second       *)
(* execution of the stage may overlap the first when its lease lapsed, and *)
(* the re-extraction runs in the API beside both.                          *)
(***************************************************************************)
EXTENDS RunAssets, Sequences

CONSTANTS
  Findings,  \* what can be found, by its identity hash
  Native,    \* the findings in each asset's code
  Taught,    \* those found there only through the taught wrapper
  Bad,       \* the sets of urls whose code the analysis may choke on
  One,       \* the url that stands for the uploaded input of a run without rows
  Workers,
  Api,       \* the request that teaches the wrapper
  Modes,     \* "crawl": a run with asset rows; "single": one input, no rows
  Budget     \* bound: crashes, lapses, pauses, outages, faults and lessons

ASSUME AnalyzeAssumption ==
  /\ Native \in [Url -> SUBSET Findings] /\ Taught \in [Url -> SUBSET Findings]
  /\ Bad \subseteq SUBSET (Url \ {One}) /\ One \in Url /\ Api \notin Workers
  /\ Modes \subseteq {"crawl", "single"}

VARIABLES
  rows,      \* the run_asset table
  found,     \* each finding's stored evidence, NoFinding when it has no row
  seen,      \* the stored occurrences
  coverage,  \* the run's analyze.coverage events, by the url they count
  stage,     \* "fetching", then the analyze job as the run sees it
  control,   \* a pause has been requested and not yet taken
  rule,      \* the session knows the wrapper
  bad,       \* the urls whose code the analysis chokes on
  ex,        \* each writer's execution
  left,      \* what is left of the budget
  past       \* history: two executions overlapped; two transactions were open
             \* at once; an error that is no verdict was taken for one; the
             \* request died

vars == <<rows, found, seen, coverage, stage, control, rule, bad, ex, left, past>>

Writers == Workers \cup {Api}
Single == Present(rows) = {}

\* The evidence of a sighting: which asset, and by which reading of its code.
Evidence == [url : Url, taught : BOOLEAN]
NoFinding == {}

SightingsOf(u, taught) ==
  LET by(fs, t) == [finding : fs, from : {[url |-> u, taught |-> t]}]
  IN  by(Native[u], FALSE) \cup (IF taught THEN by(Taught[u], TRUE) ELSE {})

Idle == [pc |-> "idle", todo |-> {}, cur |-> One, rule |-> FALSE,
         unwritten |-> {}, read |-> NoFinding, at |-> "none",
         own |-> <<>>, occ |-> {}]

Running(w) == ex[w].pc # "idle"
InTransaction(w) == ex[w].pc \in {"blob", "merge"}

Init ==
  /\ \E mode \in Modes :
       rows = IF mode = "crawl" THEN SeedPending(NoRows, Url) ELSE NoRows
  /\ found = [f \in Findings |-> NoFinding] /\ seen = {} /\ coverage = <<>>
  /\ stage = "fetching" /\ control = FALSE /\ rule = FALSE
  /\ bad \in Bad
  /\ ex = [w \in Writers |-> Idle]
  /\ left \in Budget
  /\ past = [overlap |-> FALSE, together |-> FALSE, apiDied |-> FALSE]
-----------------------------------------------------------------------------
(* record_finding. *)

\* The row as this transaction sees it: its own version first.
Sees(w, f) == IF f \in DOMAIN ex[w].own THEN ex[w].own[f] ELSE found[f]

\* Another transaction has an uncommitted version of the row.
HeldBy(v, f) == InTransaction(v) /\ f \in DOMAIN ex[v].own

\* What the statement w has to run next would wait for.
Wants(w, f) ==
  \/ /\ ex[w].pc = "merge" /\ f = ex[w].at.finding
     /\ ex[w].read \cup {ex[w].at.from} # ex[w].read
  \/ /\ ex[w].pc = "blob" /\ Sees(w, f) = NoFinding /\ ex[w].unwritten # {}
     /\ \A s \in ex[w].unwritten : s.finding = f

WaitsFor(w, v) == v # w /\ \E f \in Findings : Wants(w, f) /\ HeldBy(v, f)

Own(w, f, evidence) ==
  [g \in DOMAIN ex[w].own \cup {f} |-> IF g = f THEN evidence ELSE ex[w].own[g]]

(* INSERT .. ON CONFLICT DO NOTHING waits only for an insert in flight; the
   new row carries this sighting's evidence.                               *)
Insert(w) ==
  /\ ex[w].pc = "blob"
  /\ \E s \in ex[w].unwritten :
       /\ Sees(w, s.finding) = NoFinding
       /\ \A v \in Writers \ {w} : ~HeldBy(v, s.finding)
       /\ ex' = [ex EXCEPT ![w].own = Own(w, s.finding, {s.from}),
                           ![w].occ = @ \cup {s},
                           ![w].unwritten = @ \ {s}]
  /\ UNCHANGED <<bad, rows, found, seen, coverage, stage, control, rule, left, past>>

(* The row is there: read its attributes. *)
ReadExisting(w) ==
  /\ ex[w].pc = "blob"
  /\ \E s \in ex[w].unwritten :
       /\ Sees(w, s.finding) # NoFinding
       /\ ex' = [ex EXCEPT ![w].pc = "merge", ![w].at = s,
                           ![w].read = Sees(w, s.finding)]
  /\ UNCHANGED <<bad, rows, found, seen, coverage, stage, control, rule, left, past>>

\* Mutant: the first writer's attributes are kept as they are.
MergeNothing(w) ==
  /\ ex[w].pc = "merge"
  /\ ex' = [ex EXCEPT ![w].pc = "blob", ![w].at = "none", ![w].read = NoFinding,
                      ![w].occ = @ \cup {ex[w].at},
                      ![w].unwritten = @ \ {ex[w].at}]
  /\ UNCHANGED <<bad, rows, found, seen, coverage, stage, control, rule, left, past>>

(* _merge_attributes, of what was read: write only on an actual change. *)
Merge(w) ==
  /\ ex[w].pc = "merge"
  /\ LET s == ex[w].at
         merged == ex[w].read \cup {s.from} IN
       /\ merged # ex[w].read => \A v \in Writers \ {w} : ~HeldBy(v, s.finding)
       /\ ex' = [ex EXCEPT ![w].pc = "blob", ![w].at = "none", ![w].read = NoFinding,
                           ![w].own = IF merged = ex[w].read THEN @
                                      ELSE Own(w, s.finding, merged),
                           ![w].occ = @ \cup {s},
                           ![w].unwritten = @ \ {s}]
  /\ UNCHANGED <<bad, rows, found, seen, coverage, stage, control, rule, left, past>>
-----------------------------------------------------------------------------
(* The stage. *)

(* The coordinator starts the stage when the fetch is over. *)
FetchOne(u) ==
  /\ stage = "fetching" /\ rows[u].fetch = "pending"
  /\ rows' \in {SetFetchOk(rows, u), SetFetchFailed(rows, u)}
  /\ UNCHANGED <<bad, found, seen, coverage, stage, control, rule, ex, left, past>>

FetchOver ==
  /\ stage = "fetching" /\ \A u \in Present(rows) : FetchSettled(rows[u])
  /\ stage' = "running"
  /\ UNCHANGED <<bad, rows, found, seen, coverage, control, rule, ex, left, past>>

(* analyze_run: the session's wrappers are loaded first, the rows after. *)
Start(w) ==
  /\ stage = "running" /\ ~Running(w)
  /\ \/ /\ \A v \in Workers : ~Running(v)
        /\ UNCHANGED <<left, past>>
     \/ /\ \E v \in Workers : Running(v)
        /\ left.lapses > 0
        /\ left' = [left EXCEPT !.lapses = @ - 1]
        /\ past' = [past EXCEPT !.overlap = TRUE]
  /\ ex' = [ex EXCEPT ![w] = [Idle EXCEPT !.pc = "list", !.rule = rule]]
  /\ UNCHANGED <<bad, rows, found, seen, coverage, stage, control, rule>>

Unanalyzed(u) == rows[u].fetch = "ok" /\ rows[u].analyze = "pending"

ListRows(w) ==
  /\ w \in Workers /\ ex[w].pc = "list"
  /\ ex' = [ex EXCEPT ![w].pc = "index",
              ![w].todo = IF Single THEN {One} ELSE {u \in Url : Unanalyzed(u)}]
  /\ UNCHANGED <<bad, rows, found, seen, coverage, stage, control, rule, left, past>>

(* ControlInterrupt: an open transaction is rolled back, the run is paused. *)
EndInterrupted(w) ==
  /\ ex' = [ex EXCEPT ![w] = Idle]
  /\ stage' = IF stage = "running" THEN "paused" ELSE stage

Interrupted(w) == control /\ EndInterrupted(w)

(* build_export_index looks at the flags before each fetched asset, and
   nothing that goes wrong in it matters.                                  *)
BuildIndex(w) ==
  /\ ex[w].pc = "index"
  /\ \/ ~Single /\ Interrupted(w)
     \/ /\ ex' = [ex EXCEPT ![w].pc = "next"]
        /\ UNCHANGED stage
  /\ UNCHANGED <<bad, rows, found, seen, coverage, control, rule, left, past>>

Begin(w, u) ==
  /\ ex' = [ex EXCEPT ![w].pc = "blob", ![w].cur = u, ![w].todo = @ \ {u},
                      ![w].unwritten = SightingsOf(u, ex[w].rule),
                      ![w].own = <<>>, ![w].occ = {}]
  /\ past' = [past EXCEPT !.together = @ \/ \E v \in Writers \ {w} : InTransaction(v)]

(* The top of the loop: the flags, then the asset's own transaction. *)
NextAsset(w) ==
  /\ w \in Workers /\ ex[w].pc = "next" /\ ex[w].todo # {}
  /\ \/ ~Single /\ Interrupted(w) /\ UNCHANGED past
     \/ /\ Single \/ ~control
        /\ \E u \in ex[w].todo : Begin(w, u)
        /\ UNCHANGED stage
  /\ UNCHANGED <<bad, rows, found, seen, coverage, control, rule, left>>

(* Findings, occurrences, the coverage event and the row's verdict commit as
   one.                                                                    *)
Commit(w) ==
  /\ w \in Workers /\ ex[w].pc = "blob" /\ ex[w].unwritten = {}
  /\ Single \/ ex[w].cur \notin bad
  /\ found' = [f \in Findings |-> Sees(w, f)]
  /\ seen' = seen \cup ex[w].occ
  /\ coverage' = Append(coverage, ex[w].cur)
  /\ rows' = IF Single THEN rows ELSE SetAnalyzeOk(rows, ex[w].cur)
  /\ ex' = [ex EXCEPT ![w].pc = "publish", ![w].own = <<>>, ![w].occ = {}]
  /\ UNCHANGED <<bad, stage, control, rule, left, past>>

(* Published after the commit; a broker that fails fails the attempt. *)
Publish(w) ==
  /\ ex[w].pc = "publish"
  /\ \/ /\ ex' = [ex EXCEPT ![w].pc = "next"]
        /\ UNCHANGED left
     \/ /\ left.faults > 0
        /\ left' = [left EXCEPT !.faults = @ - 1]
        /\ ex' = [ex EXCEPT ![w] = Idle]
  /\ UNCHANGED <<bad, rows, found, seen, coverage, stage, control, rule, past>>

\* Mutant: the interrupt ends the transaction, and the asset, as if it were done.
InterruptCommits(w) ==
  /\ w \in Workers /\ InTransaction(w) /\ ~Single /\ Interrupted(w)
  /\ rows' = SetAnalyzeOk(rows, ex[w].cur)
  /\ UNCHANGED <<bad, found, seen, coverage, control, rule, left, past>>

(* The flags are read between the recovered files of a mapped asset. *)
InterruptBlob(w) ==
  /\ w \in Workers /\ InTransaction(w) /\ ~Single /\ Interrupted(w)
  /\ UNCHANGED <<bad, rows, found, seen, coverage, control, rule, left, past>>

(* ClientError or SQLAlchemyError: rolled back and raised, the attempt is
   retried.  The database's choice among transactions that wait for each
   other is such an error, and costs no budget.                            *)
InfraError(w) ==
  /\ w \in Workers /\ InTransaction(w)
  /\ \/ /\ left.faults > 0
        /\ left' = [left EXCEPT !.faults = @ - 1]
     \/ /\ \E v \in Writers : WaitsFor(w, v) /\ WaitsFor(v, w)
        /\ UNCHANGED left
  /\ ex' = [ex EXCEPT ![w] = Idle]
  /\ UNCHANGED <<bad, rows, found, seen, coverage, stage, control, rule, past>>

\* Mutant: code the extractor chokes on fails the attempt.
OtherErrorRaised(w) ==
  /\ w \in Workers /\ InTransaction(w) /\ ex[w].cur \in bad
  /\ ex' = [ex EXCEPT ![w] = Idle]
  /\ UNCHANGED <<bad, rows, found, seen, coverage, stage, control, rule, left, past>>

(* Any other exception is the asset's verdict: code the extractor chokes on,
   but also a store that cannot be reached (no ClientError) and a scanner
   that timed out.  A run without rows has no verdict to give: it raises.  *)
OtherError(w) ==
  /\ w \in Workers /\ InTransaction(w)
  /\ \/ /\ ex[w].cur \in bad
        /\ UNCHANGED left
     \/ /\ ex[w].cur \notin bad /\ left.outages > 0
        /\ left' = [left EXCEPT !.outages = @ - 1]
  /\ ex' = [ex EXCEPT ![w] = IF Single THEN Idle
                             ELSE [@ EXCEPT !.pc = "fail", !.own = <<>>, !.occ = {}]]
  /\ UNCHANGED <<bad, rows, found, seen, coverage, stage, control, rule, past>>

MarkFailed(w) ==
  /\ ex[w].pc = "fail"
  /\ rows' = SetAnalyzeFailed(rows, ex[w].cur)
  /\ ex' = [ex EXCEPT ![w].pc = "next"]
  /\ UNCHANGED <<bad, found, seen, coverage, stage, control, rule, left, past>>

(* Nothing is left of the snapshot; the fingerprint pass may be interrupted. *)
Finish(w) ==
  /\ w \in Workers /\ ex[w].pc = "next" /\ ex[w].todo = {}
  /\ \/ Interrupted(w)
     \/ /\ ex' = [ex EXCEPT ![w] = Idle]
        /\ stage' = IF stage = "running" THEN "done" ELSE stage
  /\ UNCHANGED <<bad, rows, found, seen, coverage, control, rule, left, past>>
-----------------------------------------------------------------------------
(* add_rule: the wrapper is committed first; the re-extraction then goes over
   the rows fetched by now, a transaction each, whatever the run is doing.
   It gives no verdict and emits no coverage.                              *)
Teach ==
  /\ left.lessons > 0 /\ ~Running(Api)
  /\ left' = [left EXCEPT !.lessons = @ - 1]
  /\ rule' = TRUE
  /\ ex' = [ex EXCEPT ![Api] = [Idle EXCEPT !.pc = "list", !.rule = TRUE]]
  /\ UNCHANGED <<bad, rows, found, seen, coverage, stage, control, past>>

\* Mutant: only what the stage has analyzed is read again.
ReextractAnalyzed ==
  /\ ex[Api].pc = "list"
  /\ ex' = [ex EXCEPT ![Api].pc = "next",
              ![Api].todo = {u \in Url : rows[u].analyze = "ok"}]
  /\ UNCHANGED <<bad, rows, found, seen, coverage, stage, control, rule, left, past>>

Reextract ==
  /\ ex[Api].pc = "list"
  /\ ex' = [ex EXCEPT ![Api].pc = "next",
              ![Api].todo = IF Single THEN {One}
                            ELSE {u \in Url : rows[u].fetch = "ok"}]
  /\ UNCHANGED <<bad, rows, found, seen, coverage, stage, control, rule, left, past>>

ReextractNext ==
  /\ ex[Api].pc = "next"
  /\ \/ \E u \in ex[Api].todo : Begin(Api, u)
     \/ /\ ex[Api].todo = {}
        /\ ex' = [ex EXCEPT ![Api] = Idle]
        /\ UNCHANGED past
  /\ UNCHANGED <<bad, rows, found, seen, coverage, stage, control, rule, left>>

ReextractCommit ==
  /\ ex[Api].pc = "blob" /\ ex[Api].unwritten = {}
  /\ Single \/ ex[Api].cur \notin bad
  /\ found' = [f \in Findings |-> Sees(Api, f)]
  /\ seen' = seen \cup ex[Api].occ
  /\ ex' = [ex EXCEPT ![Api].pc = "next", ![Api].own = <<>>, ![Api].occ = {}]
  /\ UNCHANGED <<bad, rows, coverage, stage, control, rule, left, past>>

(* Any error of the request ends it, and nobody tries again. *)
ReextractFails ==
  /\ \/ /\ Running(Api) /\ left.faults > 0
        /\ left' = [left EXCEPT !.faults = @ - 1]
     \/ /\ InTransaction(Api)
        /\ ex[Api].cur \in bad \/ \E v \in Writers : WaitsFor(Api, v) /\ WaitsFor(v, Api)
        /\ UNCHANGED left
  /\ ex' = [ex EXCEPT ![Api] = Idle]
  /\ past' = [past EXCEPT !.apiDied = TRUE]
  /\ UNCHANGED <<bad, rows, found, seen, coverage, stage, control, rule>>
-----------------------------------------------------------------------------
(* The environment. *)
Pause ==
  /\ stage = "running" /\ ~control /\ left.pauses > 0
  /\ control' = TRUE
  /\ left' = [left EXCEPT !.pauses = @ - 1]
  /\ UNCHANGED <<bad, rows, found, seen, coverage, stage, rule, ex, past>>

Resume ==
  /\ stage = "paused"
  /\ stage' = "running" /\ control' = FALSE
  /\ UNCHANGED <<bad, rows, found, seen, coverage, rule, ex, left, past>>

Crash(w) ==
  /\ w \in Workers /\ Running(w) /\ left.crashes > 0
  /\ ex' = [ex EXCEPT ![w] = Idle]
  /\ left' = [left EXCEPT !.crashes = @ - 1]
  /\ UNCHANGED <<bad, rows, found, seen, coverage, stage, control, rule, past>>

Write(w) == Insert(w) \/ ReadExisting(w) \/ Merge(w)

Execute(w) ==
  \/ ListRows(w) \/ BuildIndex(w) \/ NextAsset(w) \/ Write(w) \/ Commit(w)
  \/ Publish(w) \/ InterruptBlob(w) \/ InfraError(w) \/ OtherError(w)
  \/ MarkFailed(w) \/ Finish(w)

Request ==
  Reextract \/ ReextractNext \/ ReextractCommit \/ ReextractFails \/ Write(Api)

Next ==
  \/ \E u \in Url : FetchOne(u)
  \/ \E w \in Workers : Start(w) \/ Execute(w) \/ Crash(w)
  \/ FetchOver \/ Teach \/ Request \/ Pause \/ Resume

Spec == Init /\ [][Next]_vars

(* The fetch ends, workers and the request take steps, a paused run is
   resumed, and the database gives a row to the transaction that waits for
   it, in turn.  Nobody has to teach or pause, nothing has to go wrong.    *)
Fairness ==
  /\ \A u \in Url : WF_vars(FetchOne(u))
  /\ \A w \in Workers : WF_vars(Start(w)) /\ WF_vars(Execute(w))
  /\ \A w \in Writers : SF_vars(Write(w))
  /\ WF_vars(FetchOver) /\ WF_vars(Request) /\ WF_vars(Resume)

FairSpec == Spec /\ Fairness
-----------------------------------------------------------------------------
(* "Per-asset commit (findings + status)" (_analyze_assets): an asset said to
   be analyzed has each finding of its code, with its occurrence, whatever
   execution or crash came in between, and is counted in the run's coverage,
   once unless two executions overlapped ("a redelivery skips an already
   analyze-terminal asset"); when the stage is done each fetched asset has
   its verdict.                                                            *)
AnalyzedMeansFound ==
  /\ \A u \in Present(rows) : rows[u].analyze = "ok" =>
       SightingsOf(u, FALSE) \subseteq seen /\ \E i \in DOMAIN coverage : coverage[i] = u
  /\ past.overlap \/ Single \/
       \A i, j \in DOMAIN coverage : coverage[i] = coverage[j] => i = j
  /\ \A s \in seen : found[s.finding] # NoFinding
  /\ stage = "done" => \A u \in Present(rows) : ~Unanalyzed(u)

(* "A later sighting's observed header" is not "silently lost"
   (_merge_attributes): each stored sighting's evidence is in its finding.
   It needs the transactions to come one after the other.                  *)
EvidenceKept ==
  \A s \in seen : s.from \in found[s.finding] \/ past.together

(* A taught wrapper reaches each asset's findings, by the re-extraction if the
   asset was fetched by then and by the stage if it was not: when both are
   over no asset was missed, though the stage reads the rules only once.   *)
LessonReachesAll ==
  /\ rule /\ stage = "done" /\ ~past.apiDied
  /\ \A w \in Writers : ~Running(w)
  => \A u \in Present(rows) :
       rows[u].analyze = "ok" => SightingsOf(u, TRUE) \subseteq seen

(* The stage ends: its retries are of bounded causes, and a transaction waits
   only for one that ends or for one that waits for it.                    *)
AnalyzeEnds == <>(stage = "done")
=============================================================================
