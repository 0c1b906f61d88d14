-------------------------- MODULE AnalyzeStageProofs --------------------------
(***************************************************************************)
(* Theorems about AnalyzeStage, for every set of assets, findings and       *)
(* workers, and every budget of crashes, lapses, pauses, outages, faults    *)
(* and lessons: what an asset said to be analyzed has in the store, that    *)
(* evidence is kept, and that a taught wrapper reaches every asset.         *)
(***************************************************************************)
EXTENDS AnalyzeStage, TLAPS

(* The states of an execution, and what a transaction holds. *)
Pc == {"idle", "list", "index", "next", "blob", "merge", "publish", "fail"}

Sighting == [finding : Findings, from : Evidence]

\* A transaction's own versions of the rows of findings.
Versions == UNION {[fs -> SUBSET Evidence] : fs \in SUBSET Findings}

\* A row that is there, or Absent.
Row == [fetch : Status \cup {"absent"}, analyze : Status, input : BOOLEAN,
        map : BOOLEAN, skipped : BOOLEAN]

Execution == [pc : Pc, todo : SUBSET Url, cur : Url, rule : BOOLEAN,
              unwritten : SUBSET Sighting, read : SUBSET Evidence,
              at : Sighting \cup {"none"}, own : Versions, occ : SUBSET Sighting]

\* What the history variable holds.
History == [overlap : BOOLEAN, together : BOOLEAN, apiDied : BOOLEAN]

StoreType ==
  /\ rows \in [Url -> Row]
  /\ found \in [Findings -> SUBSET Evidence]
  /\ seen \subseteq Sighting
  /\ coverage \in Seq(Url)

FlagsType ==
  /\ stage \in {"fetching", "running", "paused", "done"}
  /\ control \in BOOLEAN /\ rule \in BOOLEAN
  /\ past \in History

TypeOK == StoreType /\ FlagsType /\ ex \in [Writers -> Execution]

\* Past the listing of the rows: what is in hand, and whether it has a verdict.
Listed == {"index", "next", "blob", "merge", "publish", "fail"}
InHand == {"blob", "merge", "fail"}

(* The snapshot of an execution holds fetched rows; the stage's executions
   begin when the fetch is over, the request's with the wrapper known.      *)
ExecOK(w) ==
  /\ InTransaction(w) =>
       ex[w].occ \cup ex[w].unwritten = SightingsOf(ex[w].cur, ex[w].rule)
  /\ ex[w].pc = "merge" => ex[w].at \in ex[w].unwritten
  /\ ex[w].rule => rule
  /\ w = Api => /\ ex[w].pc \in {"idle", "list", "next", "blob", "merge"}
                /\ Running(w) => ex[w].rule
  /\ w # Api /\ Running(w) => stage # "fetching"
  /\ w # Api /\ ~Single => /\ \A u \in ex[w].todo : rows[u].fetch = "ok"
                           /\ ex[w].pc \in InHand => rows[ex[w].cur].fetch = "ok"
  /\ ex[w].pc = "fail" => ~Single

RowsOK == /\ Single \/ Present(rows) = Url
          /\ \A u \in Url : rows[u].fetch = "absent" => rows[u] = Absent
          /\ \A u \in Present(rows) : rows[u].analyze # "pending" => rows[u].fetch = "ok"

(* The fetch is over when every row is settled. *)
FetchInv == /\ \A u \in Url : rows[u].input => rows[u].fetch = "ok"
            /\ stage # "fetching" => \A u \in Present(rows) : rows[u].fetch # "pending"

(* What has no verdict is ahead of every execution of the stage. *)
Ahead(w) == \A u \in Url : Unanalyzed(u) =>
              u \in ex[w].todo \/ (u = ex[w].cur /\ ex[w].pc \in InHand)
NoneSkipped == /\ stage = "done" => \A u \in Url : ~Unanalyzed(u)
               /\ \A w \in Workers : ex[w].pc \in Listed => Ahead(w)

(* What is analyzed is stored and counted. *)
Counted(u) == \E i \in DOMAIN coverage : coverage[i] = u
AnalyzedOK == \A u \in Present(rows) : rows[u].analyze = "ok" =>
                SightingsOf(u, FALSE) \subseteq seen /\ Counted(u)

(* Without an overlap there is one execution of the stage, and what is still
   before it has not been counted.                                          *)
Uncounted(w) ==
  /\ \A u \in ex[w].todo : rows[u].analyze = "pending"
  /\ ex[w].pc \in InHand => rows[ex[w].cur].analyze = "pending" /\ ex[w].cur \notin ex[w].todo
CountedOnce ==
  past.overlap \/ Single \/
    /\ \A i, j \in DOMAIN coverage : coverage[i] = coverage[j] => i = j
    /\ \A i \in DOMAIN coverage : rows[coverage[i]].analyze = "ok"
    /\ \A w \in Workers : ex[w].pc \in Listed => Uncounted(w)
    /\ \A v, w \in Workers : Running(v) /\ Running(w) => v = w

(* An occurrence is of a finding that has a row. *)
HasRow(w) ==
  /\ \A f \in DOMAIN ex[w].own : ex[w].own[f] # NoFinding
  /\ \A s \in ex[w].occ : Sees(w, s.finding) # NoFinding
  /\ ex[w].pc = "merge" => Sees(w, ex[w].at.finding) # NoFinding
RowsFirst == /\ \A s \in seen : found[s.finding] # NoFinding
             /\ \A w \in Writers : InTransaction(w) => HasRow(w)

(* One transaction at a time: it starts from what is stored, and adds to it. *)
Adds(w) ==
  /\ \A f \in DOMAIN ex[w].own : found[f] \subseteq ex[w].own[f]
  /\ \A s \in ex[w].occ : s.from \in Sees(w, s.finding)
  /\ ex[w].pc = "merge" => ex[w].read = Sees(w, ex[w].at.finding)
EvidenceInv ==
  past.together \/
    /\ \A v, w \in Writers : InTransaction(v) /\ InTransaction(w) => v = w
    /\ \A s \in seen : s.from \in found[s.finding]
    /\ \A w \in Writers : InTransaction(w) => Adds(w)

(* The wrapper has been applied to the asset, or will be by the request, or by
   the stage, which then knows it.                                          *)
ApiWill(u) ==
  \/ ex[Api].pc = "list"
  \/ u \in ex[Api].todo /\ Running(Api)
  \/ u = ex[Api].cur /\ InTransaction(Api)
StageWill(u) == /\ rows[u].analyze # "ok"
                /\ \/ rows[u].fetch = "failed"
                   \/ \A w \in Workers : Running(w) => ex[w].rule
LessonInv ==
  rule /\ ~past.apiDied =>
    \A u \in Present(rows) :
      SightingsOf(u, TRUE) \subseteq seen \/ ApiWill(u) \/ StageWill(u)

(* What the types, the rows and the executions keep by themselves; the other
   invariants rest on it.                                                   *)
ExecInv == \A w \in Writers : ExecOK(w)

TInv == TypeOK /\ RowsOK /\ ExecInv
-----------------------------------------------------------------------------
(* A row that is there stays there, whatever is stored in it. *)
LEMMA AbsentIs == Absent.fetch = "absent" /\ Absent.analyze = "pending"
BY DEF Absent, NewRow

RowsKeep(u) ==
  /\ rows' \in [Url -> Row]
  /\ rows'[u].fetch # "absent" /\ \A v \in Url : v # u => rows'[v] = rows[v]

LEMMA FetchRows ==
  ASSUME rows \in [Url -> Row], NEW u \in Url,
         rows' = SetFetchOk(rows, u) \/ rows' = SetFetchFailed(rows, u)
  PROVE  /\ RowsKeep(u) /\ rows'[u].analyze = rows[u].analyze /\ rows'[u].fetch \in {"ok", "failed"}
         /\ rows'[u].input => rows'[u].fetch = "ok" \/ rows[u].input
BY DEF SetFetchOk, SetFetchFailed, RowsKeep, Row, Status

LEMMA AnalyzeRows ==
  ASSUME rows \in [Url -> Row], NEW u \in Url, rows[u].fetch # "absent"
  PROVE  /\ rows' = SetAnalyzeOk(rows, u) => RowsKeep(u) /\ rows'[u].analyze = "ok"
         /\ rows' = SetAnalyzeFailed(rows, u) => RowsKeep(u) /\ rows'[u].analyze = "failed"
         /\ rows' = SetAnalyzeOk(rows, u) \/ rows' = SetAnalyzeFailed(rows, u) =>
              rows'[u].fetch = rows[u].fetch /\ rows'[u].input = rows[u].input
BY DEF SetAnalyzeOk, SetAnalyzeFailed, RowsKeep, Row, Status

LEMMA KeptPresence ==
  ASSUME NEW u \in Url, rows[u].fetch # "absent", RowsKeep(u)
  PROVE  Present(rows') = Present(rows)
BY AbsentIs DEF RowsKeep, Present

(* The versions of an open transaction. *)
LEMMA NoVersions == <<>> \in Versions /\ DOMAIN <<>> = {}
<1>1. <<>> \in [{} -> SUBSET Evidence]
  OBVIOUS
<1> QED
  BY <1>1 DEF Versions

LEMMA VersionsAre ==
  ASSUME NEW v \in Versions
  PROVE  DOMAIN v \subseteq Findings /\ \A f \in DOMAIN v : v[f] \subseteq Evidence
BY DEF Versions

LEMMA OwnIs ==
  ASSUME TypeOK, NEW w \in Writers, NEW f \in Findings, NEW e \in SUBSET Evidence
  PROVE  /\ Own(w, f, e) \in Versions
         /\ DOMAIN Own(w, f, e) = DOMAIN ex[w].own \cup {f}
         /\ Own(w, f, e)[f] = e
         /\ \A g \in DOMAIN ex[w].own : g # f => Own(w, f, e)[g] = ex[w].own[g]
<1>1. ex[w].own \in Versions
  BY DEF TypeOK, Execution
<1>2. DOMAIN ex[w].own \cup {f} \in SUBSET Findings
  BY <1>1, VersionsAre
<1>3. Own(w, f, e) \in [DOMAIN ex[w].own \cup {f} -> SUBSET Evidence]
  BY <1>1, VersionsAre DEF Own
<1>4. Own(w, f, e) \in Versions
  BY <1>2, <1>3 DEF Versions
<1> QED
  BY <1>4 DEF Own

LEMMA SeesType ==
  ASSUME TypeOK, NEW w \in Writers, NEW f \in Findings
  PROVE  Sees(w, f) \in SUBSET Evidence
<1>1. ex[w].own \in Versions /\ found[f] \in SUBSET Evidence
  BY DEF TypeOK, StoreType, Execution
<1> QED
  BY <1>1, VersionsAre DEF Sees

LEMMA SightingTypes ==
  ASSUME NEW u \in Url, NEW taught \in BOOLEAN
  PROVE  /\ SightingsOf(u, taught) \subseteq Sighting
         /\ SightingsOf(u, FALSE) \subseteq SightingsOf(u, taught)
<1>1. Native[u] \subseteq Findings /\ Taught[u] \subseteq Findings
  BY AnalyzeAssumption
<1> DEFINE by(fs, t) == [finding : fs, from : {[url |-> u, taught |-> t]}]
<1>2. \A fs \in SUBSET Findings : \A t \in BOOLEAN : by(fs, t) \subseteq Sighting
  BY DEF Sighting, Evidence
<1>3. /\ SightingsOf(u, FALSE) = by(Native[u], FALSE)
      /\ SightingsOf(u, TRUE) = by(Native[u], FALSE) \cup by(Taught[u], TRUE)
  BY DEF SightingsOf
<1> HIDE DEF by
<1> QED
  BY <1>1, <1>2, <1>3
-----------------------------------------------------------------------------
(* What a step does to an execution. *)
Only(w) == /\ ex' \in [Writers -> Execution]
           /\ \A v \in Writers : v # w => ex'[v] = ex[v]

LEMMA IdleIs ==
  /\ Idle \in Execution /\ Idle.pc = "idle" /\ Idle.todo = {} /\ Idle.rule = FALSE
  /\ Idle.unwritten = {} /\ Idle.own = <<>> /\ Idle.occ = {} /\ Idle.read = NoFinding
  /\ \A r \in BOOLEAN : LET e == [Idle EXCEPT !.pc = "list", !.rule = r]
                       IN  e \in Execution /\ e.pc = "list" /\ e.todo = {} /\ e.rule = r
BY NoVersions, AnalyzeAssumption DEF Idle, Execution, Pc, NoFinding

LEMMA PutEffect ==
  ASSUME TypeOK, NEW w \in Writers, NEW e \in Execution, ex' = [ex EXCEPT ![w] = e]
  PROVE  Only(w) /\ ex'[w] = e
BY DEF TypeOK, Only

LEMMA RestEffect ==
  ASSUME TypeOK, NEW w \in Writers, ex' = [ex EXCEPT ![w] = Idle]
  PROVE  Only(w) /\ ex'[w] = Idle
BY IdleIs DEF TypeOK, Only

LEMMA StartEffect ==
  ASSUME TypeOK, NEW w \in Writers, NEW r \in BOOLEAN,
         ex' = [ex EXCEPT ![w] = [Idle EXCEPT !.pc = "list", !.rule = r]]
  PROVE  Only(w) /\ ex'[w].pc = "list" /\ ex'[w].todo = {} /\ ex'[w].rule = r
<1>1. [Idle EXCEPT !.pc = "list", !.rule = r] \in Execution
  BY IdleIs
<1>2. Only(w) /\ ex'[w] = [Idle EXCEPT !.pc = "list", !.rule = r]
  BY <1>1 DEF TypeOK, Only
<1> QED
  BY <1>2, IdleIs

\* The asset, what is left, and what the execution knows of the wrapper.
KeepsPlace(w) ==
  ex'[w].todo = ex[w].todo /\ ex'[w].cur = ex[w].cur /\ ex'[w].rule = ex[w].rule

LEMMA GotoEffect ==
  ASSUME TypeOK, NEW w \in Writers, NEW pc \in Pc, ex' = [ex EXCEPT ![w].pc = pc]
  PROVE  Only(w) /\ ex'[w].pc = pc /\ KeepsPlace(w)
<1> DEFINE e == [ex[w] EXCEPT !.pc = pc]
<1>1. ex[w] \in Execution
  BY DEF TypeOK
<1>2. /\ e \in Execution /\ e.pc = pc /\ e.todo = ex[w].todo /\ e.cur = ex[w].cur
      /\ e.rule = ex[w].rule
  BY <1>1 DEF Execution
<1>3. ex' = [ex EXCEPT ![w] = e]
  OBVIOUS
<1> HIDE DEF e
<1>4. Only(w) /\ ex'[w] = e
  BY <1>2, <1>3, PutEffect
<1> QED
  BY <1>2, <1>4 DEF KeepsPlace

LEMMA ListEffect ==
  ASSUME TypeOK, NEW w \in Writers, NEW pc \in Pc, NEW todo \in SUBSET Url,
         ex' = [ex EXCEPT ![w].pc = pc, ![w].todo = todo]
  PROVE  /\ Only(w) /\ ex'[w].pc = pc /\ ex'[w].todo = todo /\ ex'[w].cur = ex[w].cur
         /\ ex'[w].rule = ex[w].rule
<1> DEFINE e == [ex[w] EXCEPT !.pc = pc, !.todo = todo]
<1>1. ex[w] \in Execution
  BY DEF TypeOK
<1>2. e \in Execution /\ e.pc = pc /\ e.todo = todo /\ e.cur = ex[w].cur /\ e.rule = ex[w].rule
  BY <1>1 DEF Execution
<1>3. ex' = [ex EXCEPT ![w] = e]
  OBVIOUS
<1> HIDE DEF e
<1>4. Only(w) /\ ex'[w] = e
  BY <1>2, <1>3, PutEffect
<1> QED
  BY <1>2, <1>4

LEMMA BeginEffect ==
  ASSUME TypeOK, NEW w \in Writers, NEW u \in Url, Begin(w, u)
  PROVE  /\ Only(w) /\ ex'[w].pc = "blob" /\ ex'[w].cur = u /\ ex'[w].todo = ex[w].todo \ {u}
         /\ ex'[w].rule = ex[w].rule /\ ex'[w].unwritten = SightingsOf(u, ex[w].rule)
         /\ ex'[w].own = <<>> /\ ex'[w].occ = {}
<1>1. ex[w].rule \in BOOLEAN
  BY DEF TypeOK, Execution
<1>2. SightingsOf(u, ex[w].rule) \subseteq Sighting
  BY <1>1, SightingTypes
<1> DEFINE e == [ex[w] EXCEPT !.pc = "blob", !.cur = u, !.todo = @ \ {u},
                  !.unwritten = SightingsOf(u, ex[w].rule), !.own = <<>>, !.occ = {}]
<1>3. ex[w] \in Execution
  BY DEF TypeOK
<1>4. /\ e \in Execution /\ e.pc = "blob" /\ e.cur = u /\ e.todo = ex[w].todo \ {u}
      /\ e.rule = ex[w].rule /\ e.unwritten = SightingsOf(u, ex[w].rule)
      /\ e.own = <<>> /\ e.occ = {}
  BY <1>2, <1>3, NoVersions DEF Execution, Pc
<1>5. ex' = [ex EXCEPT ![w] = e]
  BY DEF Begin
<1> HIDE DEF e
<1>6. Only(w) /\ ex'[w] = e
  BY <1>4, <1>5, PutEffect
<1> QED
  BY <1>4, <1>6

LEMMA EndEffect ==
  ASSUME TypeOK, NEW w \in Writers, NEW pc \in Pc,
         ex' = [ex EXCEPT ![w].pc = pc, ![w].own = <<>>, ![w].occ = {}]
  PROVE  Only(w) /\ ex'[w].pc = pc /\ KeepsPlace(w)
<1> DEFINE e == [ex[w] EXCEPT !.pc = pc, !.own = <<>>, !.occ = {}]
<1>1. ex[w] \in Execution
  BY DEF TypeOK
<1>2. /\ e \in Execution /\ e.pc = pc /\ e.todo = ex[w].todo /\ e.cur = ex[w].cur
      /\ e.rule = ex[w].rule
  BY <1>1, NoVersions DEF Execution
<1>3. ex' = [ex EXCEPT ![w] = e]
  OBVIOUS
<1> HIDE DEF e
<1>4. Only(w) /\ ex'[w] = e
  BY <1>2, <1>3, PutEffect
<1> QED
  BY <1>2, <1>4 DEF KeepsPlace

(* What a statement of a transaction does to it. *)
LEMMA InsertEffect ==
  ASSUME TypeOK, NEW w \in Writers, NEW s \in ex[w].unwritten,
         ex' = [ex EXCEPT ![w].own = Own(w, s.finding, {s.from}),
                          ![w].occ = @ \cup {s}, ![w].unwritten = @ \ {s}]
  PROVE  /\ Only(w) /\ KeepsPlace(w) /\ ex'[w].pc = ex[w].pc
         /\ ex'[w].own = Own(w, s.finding, {s.from})
         /\ ex'[w].occ = ex[w].occ \cup {s} /\ ex'[w].unwritten = ex[w].unwritten \ {s}
<1>1. s \in Sighting /\ s.finding \in Findings /\ {s.from} \in SUBSET Evidence
  BY DEF TypeOK, Execution, Sighting
<1>2. Own(w, s.finding, {s.from}) \in Versions
  BY <1>1, OwnIs
<1> QED
  BY <1>1, <1>2 DEF TypeOK, Execution, Only, KeepsPlace

LEMMA ReadEffect ==
  ASSUME TypeOK, NEW w \in Writers, NEW s \in ex[w].unwritten,
         ex' = [ex EXCEPT ![w].pc = "merge", ![w].at = s, ![w].read = Sees(w, s.finding)]
  PROVE  /\ Only(w) /\ KeepsPlace(w) /\ ex'[w].pc = "merge" /\ ex'[w].at = s
         /\ ex'[w].read = Sees(w, s.finding) /\ ex'[w].own = ex[w].own
         /\ ex'[w].occ = ex[w].occ /\ ex'[w].unwritten = ex[w].unwritten
<1>1. s \in Sighting /\ s.finding \in Findings
  BY DEF TypeOK, Execution, Sighting
<1>2. Sees(w, s.finding) \in SUBSET Evidence
  BY <1>1, SeesType
<1> DEFINE e == [ex[w] EXCEPT !.pc = "merge", !.at = s, !.read = Sees(w, s.finding)]
<1>3. ex[w] \in Execution
  BY DEF TypeOK
<1>4. /\ e \in Execution /\ e.pc = "merge" /\ e.todo = ex[w].todo /\ e.cur = ex[w].cur
      /\ e.rule = ex[w].rule /\ e.at = s /\ e.read = Sees(w, s.finding)
      /\ e.own = ex[w].own /\ e.occ = ex[w].occ /\ e.unwritten = ex[w].unwritten
  BY <1>1, <1>2, <1>3 DEF Execution, Pc
<1>5. ex' = [ex EXCEPT ![w] = e]
  OBVIOUS
<1> HIDE DEF e
<1>6. Only(w) /\ ex'[w] = e
  BY <1>4, <1>5, PutEffect
<1> QED
  BY <1>4, <1>6 DEF KeepsPlace

LEMMA MergeEffect ==
  ASSUME TypeOK, NEW w \in Writers, ex[w].at \in ex[w].unwritten, Merge(w)
  PROVE  /\ Only(w) /\ KeepsPlace(w) /\ ex'[w].pc = "blob"
         /\ ex'[w].own = IF ex[w].read \cup {ex[w].at.from} = ex[w].read THEN ex[w].own
                         ELSE Own(w, ex[w].at.finding, ex[w].read \cup {ex[w].at.from})
         /\ ex'[w].occ = ex[w].occ \cup {ex[w].at}
         /\ ex'[w].unwritten = ex[w].unwritten \ {ex[w].at}
<1> DEFINE s == ex[w].at
           merged == ex[w].read \cup {s.from}
           own == IF merged = ex[w].read THEN ex[w].own ELSE Own(w, s.finding, merged)
<1>1. s \in Sighting /\ s.finding \in Findings /\ merged \in SUBSET Evidence
  BY DEF TypeOK, Execution, Sighting
<1>2. own \in Versions
  BY <1>1, OwnIs DEF TypeOK, Execution
<1>3. ex' = [ex EXCEPT ![w].pc = "blob", ![w].at = "none", ![w].read = NoFinding, ![w].own = own,
                       ![w].occ = @ \cup {s}, ![w].unwritten = @ \ {s}]
  BY DEF Merge
<1> HIDE DEF own
<1>4. /\ Only(w) /\ KeepsPlace(w) /\ ex'[w].pc = "blob" /\ ex'[w].own = own
      /\ ex'[w].occ = ex[w].occ \cup {s} /\ ex'[w].unwritten = ex[w].unwritten \ {s}
  BY <1>1, <1>2, <1>3 DEF TypeOK, Execution, Only, KeepsPlace, Pc, NoFinding
<1> QED
  BY <1>4 DEF own
-----------------------------------------------------------------------------
(* What a step leaves of the flags and of the store. *)
LEMMA PastTypes ==
  ASSUME past \in History, NEW b \in BOOLEAN
  PROVE  /\ [past EXCEPT !.overlap = TRUE] \in History
         /\ [past EXCEPT !.apiDied = TRUE] \in History
         /\ [past EXCEPT !.together = @ \/ b] \in History
BY DEF History

LEMMA BeginPast ==
  ASSUME FlagsType, NEW w, NEW u, Begin(w, u)
  PROVE  past' \in History
<1> DEFINE b == \E v \in Writers \ {w} : InTransaction(v)
<1>1. b \in BOOLEAN
  OBVIOUS
<1>2. past' = [past EXCEPT !.together = @ \/ b]
  BY DEF Begin
<1> HIDE DEF b
<1> QED
  BY <1>1, <1>2, PastTypes DEF FlagsType

FlagsGrow == /\ FlagsType'
             /\ rule => rule'
             /\ stage # "fetching" => stage' # "fetching"

LEMMA InterruptFlags ==
  ASSUME NEW w, EndInterrupted(w)
  PROVE  stage' = stage \/ (stage = "running" /\ stage' = "paused")
BY DEF EndInterrupted

LEMMA NextFlags ==
  ASSUME FlagsType, Next
  PROVE  FlagsGrow
<1> DEFINE Kept == UNCHANGED <<control, rule, past>> /\ UNCHANGED stage
<1>1. Kept => FlagsGrow
  BY DEF FlagsGrow, FlagsType
<1>2. ASSUME UNCHANGED <<control, rule, past>>, stage' = stage \/ (stage = "running" /\ stage' \in {"paused", "done"})
      PROVE  FlagsGrow
  BY <1>2 DEF FlagsGrow, FlagsType
<1>3. ASSUME UNCHANGED <<stage, control, rule>>,
             past' \in History
      PROVE  FlagsGrow
  BY <1>3 DEF FlagsGrow, FlagsType
<1>4. ASSUME NEW u \in Url, FetchOne(u) PROVE FlagsGrow
  BY <1>4, <1>1 DEF FetchOne
<1>5. ASSUME NEW w \in Workers, Start(w) PROVE FlagsGrow
  <2>1. UNCHANGED <<stage, control, rule>> /\ (past' = past \/ past' = [past EXCEPT !.overlap = TRUE])
    BY <1>5 DEF Start
  <2> QED
    BY <2>1, <1>3, PastTypes DEF FlagsType
<1>6. ASSUME NEW w \in Writers, Write(w) PROVE FlagsGrow
  BY <1>6, <1>1 DEF Write, Insert, ReadExisting, Merge
<1>7. ASSUME NEW w \in Workers, Execute(w) PROVE FlagsGrow
  <2>1. ListRows(w) \/ Commit(w) \/ Publish(w) \/ InfraError(w) \/ OtherError(w) \/ MarkFailed(w) => Kept
    BY DEF ListRows, Commit, Publish, InfraError, OtherError, MarkFailed
  <2>2. BuildIndex(w) \/ InterruptBlob(w) \/ Finish(w) => FlagsGrow
    BY <1>2, InterruptFlags DEF BuildIndex, InterruptBlob, Finish, Interrupted
  <2>3. ASSUME NextAsset(w) PROVE FlagsGrow
    <3>1. CASE ~Single /\ Interrupted(w) /\ UNCHANGED past
      BY <3>1, <2>3, <1>2, InterruptFlags DEF NextAsset, Interrupted
    <3>2. CASE (\E u \in ex[w].todo : Begin(w, u)) /\ UNCHANGED stage
      BY <3>2, <2>3, <1>3, BeginPast DEF NextAsset
    <3> QED
      BY <2>3, <3>1, <3>2 DEF NextAsset
  <2>4. Write(w) => FlagsGrow
    BY <1>6 DEF Writers
  <2> QED
    BY <1>7, <1>1, <2>1, <2>2, <2>3, <2>4 DEF Execute
<1>8. ASSUME NEW w \in Workers, Crash(w) PROVE FlagsGrow
  BY <1>8, <1>1 DEF Crash
<1>9. FetchOver \/ Resume \/ Pause \/ Teach => FlagsGrow
  <2>1. FetchOver => FlagsGrow
    BY DEF FetchOver, FlagsGrow, FlagsType
  <2>2. Resume => FlagsGrow
    <3>1. Resume => stage' = "running" /\ control' \in BOOLEAN /\ rule' = rule /\ past' = past
      BY DEF Resume
    <3> QED
      BY <3>1 DEF FlagsGrow, FlagsType
  <2>3. Pause => FlagsGrow
    <3>1. Pause => stage' = stage /\ control' \in BOOLEAN /\ rule' = rule /\ past' = past
      BY DEF Pause
    <3> QED
      BY <3>1 DEF FlagsGrow, FlagsType
  <2>4. Teach => FlagsGrow
    BY DEF Teach, FlagsGrow, FlagsType
  <2> QED
    BY <2>1, <2>2, <2>3, <2>4
<1>10. ASSUME Request PROVE FlagsGrow
  <2>1. Reextract \/ ReextractCommit => Kept
    BY DEF Reextract, ReextractCommit
  <2>2. ReextractNext => FlagsGrow
    BY <1>1, <1>3, BeginPast DEF ReextractNext
  <2>3. ReextractFails => FlagsGrow
    BY <1>3, PastTypes DEF ReextractFails, FlagsType
  <2>4. Write(Api) => FlagsGrow
    BY <1>6 DEF Writers
  <2> QED
    BY <1>10, <1>1, <2>1, <2>2, <2>3, <2>4 DEF Request
<1> QED
  BY <1>4, <1>5, <1>7, <1>8, <1>9, <1>10 DEF Next

\* A fetched row stays fetched, and no row comes or goes.
StoreGrow == /\ StoreType' /\ RowsOK'
             /\ \A u \in Url : rows[u].fetch = "ok" => rows'[u].fetch = "ok"
             /\ Present(rows') = Present(rows)

LEMMA StoreKept ==
  ASSUME StoreType, RowsOK, UNCHANGED <<rows, found, seen, coverage>>
  PROVE  StoreGrow
BY DEF StoreGrow, StoreType, RowsOK, Single, Present

LEMMA RowsStep ==
  ASSUME StoreType, RowsOK, NEW u \in Url, rows[u].fetch # "absent", RowsKeep(u),
         rows'[u].analyze = "pending" \/ rows'[u].fetch = "ok",
         rows[u].fetch = "ok" => rows'[u].fetch = "ok"
  PROVE  /\ RowsOK' /\ Present(rows') = Present(rows) /\ rows' \in [Url -> Row]
         /\ \A v \in Url : rows[v].fetch = "ok" => rows'[v].fetch = "ok"
<1>1. Present(rows') = Present(rows)
  BY KeptPresence
<1>2. \A v \in Url : rows'[v].fetch = "absent" => rows'[v] = Absent
  BY DEF RowsKeep, RowsOK
<1>3. \A v \in Present(rows') : rows'[v].analyze # "pending" => rows'[v].fetch = "ok"
  <2> SUFFICES ASSUME NEW v \in Present(rows), rows'[v].analyze # "pending"
               PROVE  rows'[v].fetch = "ok"
    BY <1>1
  <2>1. v \in Url
    BY DEF Present
  <2> QED
    BY <2>1 DEF RowsKeep, RowsOK
<1>4. \A v \in Url : rows[v].fetch = "ok" => rows'[v].fetch = "ok"
  BY DEF RowsKeep
<1>5. (Single \/ Present(rows) = Url)'
  BY <1>1 DEF RowsOK, Single
<1> QED
  BY <1>1, <1>2, <1>3, <1>4, <1>5 DEF RowsOK, RowsKeep

(* A worker that has an asset's verdict to write has the asset. *)
LEMMA HeldRow ==
  ASSUME TInv, NEW w \in Workers, ~Single, ex[w].pc \in InHand
  PROVE  ex[w].cur \in Url /\ rows[ex[w].cur].fetch = "ok"
BY AnalyzeAssumption DEF TInv, TypeOK, Execution, ExecInv, ExecOK, Writers

LEMMA StoredTypes ==
  ASSUME TypeOK, NEW w \in Writers
  PROVE  /\ [f \in Findings |-> Sees(w, f)] \in [Findings -> SUBSET Evidence]
         /\ seen \cup ex[w].occ \subseteq Sighting
<1>1. ex[w].occ \subseteq Sighting
  BY DEF TypeOK, Execution
<1> QED
  BY <1>1, SeesType DEF TypeOK, StoreType

LEMMA FetchStore ==
  ASSUME TInv, NEW u \in Url, FetchOne(u)
  PROVE  /\ StoreGrow /\ RowsKeep(u) /\ rows'[u].analyze = "pending" /\ rows[u].fetch = "pending"
         /\ rows[u].analyze = "pending" /\ rows'[u].fetch \in {"ok", "failed"}
         /\ rows'[u].input => rows'[u].fetch = "ok" \/ rows[u].input
<1>1. /\ rows[u].fetch = "pending"
      /\ rows' = SetFetchOk(rows, u) \/ rows' = SetFetchFailed(rows, u)
      /\ UNCHANGED <<found, seen, coverage>>
  BY DEF FetchOne
<1>2. StoreType /\ RowsOK
  BY DEF TInv, TypeOK
<1>3. /\ RowsKeep(u) /\ rows'[u].analyze = rows[u].analyze /\ rows'[u].fetch \in {"ok", "failed"}
      /\ rows'[u].input => rows'[u].fetch = "ok" \/ rows[u].input
  BY <1>1, <1>2, FetchRows DEF StoreType
<1>4. u \in Present(rows)
  BY <1>1, AbsentIs DEF Present
<1>5. rows'[u].analyze = "pending"
  BY <1>1, <1>2, <1>3, <1>4 DEF RowsOK
<1>6. /\ RowsOK' /\ Present(rows') = Present(rows) /\ rows' \in [Url -> Row]
      /\ \A v \in Url : rows[v].fetch = "ok" => rows'[v].fetch = "ok"
  BY <1>1, <1>2, <1>3, <1>5, RowsStep
<1> QED
  BY <1>1, <1>2, <1>3, <1>5, <1>6 DEF StoreGrow, StoreType

LEMMA CommitStore ==
  ASSUME TInv, NEW w \in Workers, Commit(w)
  PROVE  /\ StoreGrow /\ ex[w].cur \in Url
         /\ ~Single => /\ RowsKeep(ex[w].cur) /\ rows'[ex[w].cur].analyze = "ok"
                       /\ rows'[ex[w].cur].fetch = "ok" /\ rows[ex[w].cur].fetch = "ok"
         /\ Single => rows' = rows
<1>1. w \in Writers /\ ex[w].cur \in Url /\ StoreType /\ RowsOK
  BY DEF TInv, TypeOK, Execution, Writers
<1>2. /\ found' = [f \in Findings |-> Sees(w, f)] /\ seen' = seen \cup ex[w].occ
      /\ coverage' = Append(coverage, ex[w].cur) /\ ex[w].pc \in InHand
      /\ rows' = IF Single THEN rows ELSE SetAnalyzeOk(rows, ex[w].cur)
  BY DEF Commit, InHand
<1>3. found' \in [Findings -> SUBSET Evidence] /\ seen' \subseteq Sighting
  BY <1>1, <1>2, StoredTypes DEF TInv
<1>4. coverage' \in Seq(Url)
  BY <1>1, <1>2 DEF StoreType
<1>5. CASE Single
  <2>1. rows' = rows
    BY <1>2, <1>5
  <2> QED
    BY <1>1, <1>3, <1>4, <1>5, <2>1 DEF StoreGrow, StoreType, RowsOK, Single, Present
<1>6. CASE ~Single
  <2>1. rows' = SetAnalyzeOk(rows, ex[w].cur) /\ rows[ex[w].cur].fetch = "ok"
    BY <1>2, <1>6, HeldRow
  <2>2. RowsKeep(ex[w].cur) /\ rows'[ex[w].cur].analyze = "ok" /\ rows'[ex[w].cur].fetch = "ok"
    BY <1>1, <2>1, AnalyzeRows DEF StoreType
  <2>3. /\ RowsOK' /\ Present(rows') = Present(rows) /\ rows' \in [Url -> Row]
        /\ \A v \in Url : rows[v].fetch = "ok" => rows'[v].fetch = "ok"
    BY <1>1, <2>1, <2>2, RowsStep
  <2> QED
    BY <1>1, <1>3, <1>4, <1>6, <2>1, <2>2, <2>3 DEF StoreGrow, StoreType
<1> QED
  BY <1>5, <1>6

LEMMA MarkStore ==
  ASSUME TInv, NEW w \in Workers, MarkFailed(w)
  PROVE  /\ StoreGrow /\ ex[w].cur \in Url /\ ~Single
         /\ RowsKeep(ex[w].cur) /\ rows'[ex[w].cur].analyze = "failed"
         /\ rows'[ex[w].cur].fetch = "ok" /\ rows[ex[w].cur].fetch = "ok"
<1>1. /\ ex[w].pc = "fail" /\ rows' = SetAnalyzeFailed(rows, ex[w].cur)
      /\ UNCHANGED <<found, seen, coverage>>
  BY DEF MarkFailed
<1>2. ~Single /\ StoreType /\ RowsOK
  BY <1>1 DEF TInv, TypeOK, ExecInv, ExecOK, Writers
<1>3. ex[w].cur \in Url /\ rows[ex[w].cur].fetch = "ok"
  BY <1>1, <1>2, HeldRow DEF InHand
<1>4. RowsKeep(ex[w].cur) /\ rows'[ex[w].cur].analyze = "failed" /\ rows'[ex[w].cur].fetch = "ok"
  BY <1>1, <1>2, <1>3, AnalyzeRows DEF StoreType
<1>5. /\ RowsOK' /\ Present(rows') = Present(rows) /\ rows' \in [Url -> Row]
      /\ \A v \in Url : rows[v].fetch = "ok" => rows'[v].fetch = "ok"
  BY <1>2, <1>3, <1>4, RowsStep
<1> QED
  BY <1>1, <1>2, <1>3, <1>4, <1>5 DEF StoreGrow, StoreType

LEMMA ReextractStore ==
  ASSUME TInv, ReextractCommit
  PROVE  StoreGrow
<1>1. /\ found' = [f \in Findings |-> Sees(Api, f)] /\ seen' = seen \cup ex[Api].occ
      /\ UNCHANGED <<rows, coverage>>
  BY DEF ReextractCommit
<1>2. StoreType /\ RowsOK /\ Api \in Writers
  BY DEF TInv, TypeOK, Writers
<1>3. found' \in [Findings -> SUBSET Evidence] /\ seen' \subseteq Sighting
  BY <1>1, <1>2, StoredTypes DEF TInv
<1> QED
  BY <1>1, <1>2, <1>3 DEF StoreGrow, StoreType, RowsOK, Single, Present

LEMMA NextStore ==
  ASSUME TInv, Next
  PROVE  StoreGrow
<1> DEFINE Kept == UNCHANGED <<rows, found, seen, coverage>>
<1>1. Kept => StoreGrow
  BY StoreKept DEF TInv, TypeOK
<1>2. ASSUME NEW w \in Workers, Start(w) \/ Execute(w) \/ Crash(w) PROVE StoreGrow
  <2>1. Start(w) \/ Crash(w) \/ ListRows(w) \/ Publish(w) \/ InfraError(w) \/ OtherError(w) => Kept
    BY DEF Start, Crash, ListRows, Publish, InfraError, OtherError
  <2>2. BuildIndex(w) \/ NextAsset(w) \/ InterruptBlob(w) \/ Finish(w) \/ Write(w) => Kept
    BY DEF BuildIndex, NextAsset, InterruptBlob, Finish, Write, Insert, ReadExisting, Merge
  <2> QED
    BY <1>1, <1>2, <2>1, <2>2, CommitStore, MarkStore DEF Execute
<1>3. FetchOver \/ Teach \/ Pause \/ Resume => Kept
  BY DEF FetchOver, Teach, Pause, Resume
<1>4. ASSUME Request PROVE StoreGrow
  <2>1. Reextract \/ ReextractNext \/ ReextractFails \/ Write(Api) => Kept
    BY DEF Reextract, ReextractNext, ReextractFails, Write, Insert, ReadExisting, Merge
  <2> QED
    BY <1>1, <1>4, <2>1, ReextractStore DEF Request
<1> QED
  BY <1>1, <1>2, <1>3, <1>4, FetchStore DEF Next

-----------------------------------------------------------------------------
(* What is known of an execution survives the steps of the others, and its own. *)
Grows == StoreGrow /\ FlagsGrow

LEMMA NextGrows == TInv /\ Next => Grows
BY NextStore, NextFlags DEF TInv, TypeOK, Grows

LEMMA SameMode == Grows => (Single' <=> Single)
BY DEF Grows, StoreGrow, Single

LEMMA OthersOK ==
  ASSUME TInv, Grows, NEW v \in Writers, ex'[v] = ex[v]
  PROVE  ExecOK(v)'
<1>1. ExecOK(v) /\ ex[v] \in Execution
  BY DEF TInv, TypeOK, ExecInv
<1>2. /\ InTransaction(v)' <=> InTransaction(v)
      /\ Running(v)' <=> Running(v)
  BY DEF InTransaction, Running
<1>3. (ex[v].rule => rule)'
  BY <1>1 DEF ExecOK, Grows, FlagsGrow
<1>4. v # Api /\ Running(v) => stage' # "fetching"
  BY <1>1 DEF ExecOK, Grows, FlagsGrow
<1>5. v # Api /\ ~Single => /\ \A u \in ex[v].todo : rows'[u].fetch = "ok"
                            /\ ex[v].pc \in InHand => rows'[ex[v].cur].fetch = "ok"
  BY <1>1 DEF ExecOK, Execution, Grows, StoreGrow
<1> QED
  BY <1>1, <1>2, <1>3, <1>4, <1>5, SameMode DEF ExecOK

LEMMA RestOK ==
  ASSUME TInv, NEW w \in Writers, ex'[w] = Idle
  PROVE  ExecOK(w)' /\ ~InTransaction(w)' /\ ~Running(w)'
BY IdleIs DEF ExecOK, InTransaction, Running, InHand

(* A step outside the transaction that keeps the execution's place. *)
LEMMA MoveOK ==
  ASSUME TInv, Grows, NEW w \in Writers, KeepsPlace(w), Running(w),
         ex'[w].pc \notin {"blob", "merge"},
         w = Api => ex'[w].pc = "next",
         w # Api => ex'[w].pc \in {"index", "next", "publish", "fail"},
         ex'[w].pc = "fail" => ex[w].pc \in InHand /\ ~Single
  PROVE  ExecOK(w)' /\ ~InTransaction(w)'
<1>1. ExecOK(w) /\ ex[w] \in Execution
  BY DEF TInv, TypeOK, ExecInv
<1>2. ~InTransaction(w)' /\ ex'[w].pc # "merge"
  BY DEF InTransaction
<1>3. (ex[w].rule => rule)'
  BY <1>1 DEF ExecOK, Grows, FlagsGrow, KeepsPlace
<1>4. w # Api => stage' # "fetching"
  BY <1>1 DEF ExecOK, Grows, FlagsGrow
<1>5. w # Api /\ ~Single => /\ \A u \in ex'[w].todo : rows'[u].fetch = "ok"
                            /\ ex'[w].pc \in InHand => rows'[ex'[w].cur].fetch = "ok"
  BY <1>1 DEF ExecOK, Execution, Grows, StoreGrow, KeepsPlace, InHand
<1>6. w = Api => ex'[w].pc = "next" /\ ex'[w].rule
  BY <1>1 DEF ExecOK, KeepsPlace
<1> QED
  BY <1>1, <1>2, <1>3, <1>4, <1>5, <1>6, SameMode DEF ExecOK

LEMMA StartsOK ==
  ASSUME TInv, Grows, NEW w \in Workers, Start(w)
  PROVE  /\ Only(w) /\ ExecOK(w)' /\ ~InTransaction(w)'
         /\ ex'[w].pc = "list" /\ ex'[w].todo = {} /\ ex'[w].rule = rule
<1>1. w \in Writers /\ w # Api /\ rule \in BOOLEAN
  BY AnalyzeAssumption DEF Writers, TInv, TypeOK, FlagsType
<1>2. stage = "running" /\ rule' = rule /\ ex' = [ex EXCEPT ![w] = [Idle EXCEPT !.pc = "list", !.rule = rule]]
  BY DEF Start
<1>3. Only(w) /\ ex'[w].pc = "list" /\ ex'[w].todo = {} /\ ex'[w].rule = rule
  BY <1>1, <1>2, StartEffect DEF TInv
<1>4. ~InTransaction(w)' /\ stage' # "fetching"
  BY <1>2, <1>3 DEF InTransaction, Grows, FlagsGrow
<1> QED
  BY <1>1, <1>2, <1>3, <1>4 DEF ExecOK, InHand

LEMMA TeachOK ==
  ASSUME TInv, Teach
  PROVE  /\ Only(Api) /\ ExecOK(Api)' /\ ~InTransaction(Api)'
         /\ ex'[Api].pc = "list" /\ rule'
<1>1. Api \in Writers /\ rule' /\ ex' = [ex EXCEPT ![Api] = [Idle EXCEPT !.pc = "list", !.rule = TRUE]]
  BY DEF Writers, Teach
<1>2. Only(Api) /\ ex'[Api].pc = "list" /\ ex'[Api].todo = {} /\ (ex'[Api].rule = TRUE)
  BY <1>1, StartEffect DEF TInv
<1>3. ~InTransaction(Api)'
  BY <1>2 DEF InTransaction
<1> QED
  BY <1>1, <1>2, <1>3 DEF ExecOK, InHand

LEMMA ListOK ==
  ASSUME TInv, Grows, NEW w \in Workers, ListRows(w)
  PROVE  /\ Only(w) /\ ExecOK(w)' /\ ~InTransaction(w)'
         /\ ex'[w].pc = "index" /\ ex'[w].rule = ex[w].rule
         /\ ~Single => ex'[w].todo = {u \in Url : Unanalyzed(u)}
<1> DEFINE todo == IF Single THEN {One} ELSE {u \in Url : Unanalyzed(u)}
<1>1. w \in Writers /\ w # Api /\ ExecOK(w)
  BY AnalyzeAssumption DEF Writers, TInv, ExecInv
<1>2. ex[w].pc = "list" /\ ex' = [ex EXCEPT ![w].pc = "index", ![w].todo = todo]
  BY DEF ListRows
<1>3. todo \in SUBSET Url /\ "index" \in Pc
  BY AnalyzeAssumption DEF Pc
<1>4. ~Single => \A u \in todo : rows[u].fetch = "ok"
  BY DEF Unanalyzed
<1>5. ~Single => todo = {u \in Url : Unanalyzed(u)}
  OBVIOUS
<1> HIDE DEF todo
<1>6. /\ Only(w) /\ ex'[w].pc = "index" /\ ex'[w].todo = todo /\ ex'[w].cur = ex[w].cur
      /\ ex'[w].rule = ex[w].rule
  BY <1>1, <1>2, <1>3, ListEffect, ZenonT(40) DEF TInv
<1>7. ~InTransaction(w)'
  BY <1>6 DEF InTransaction
<1>8. (ex[w].rule => rule)' /\ stage' # "fetching"
  BY <1>1, <1>2, <1>6 DEF ExecOK, Grows, FlagsGrow, Running
<1>9. ~Single => \A u \in todo : rows'[u].fetch = "ok"
  BY <1>3, <1>4 DEF Grows, StoreGrow
<1>10. ExecOK(w)'
  BY <1>1, <1>6, <1>7, <1>8, <1>9, SameMode DEF ExecOK, InHand
<1> QED
  BY <1>5, <1>6, <1>7, <1>10

LEMMA ReextractOK ==
  ASSUME TInv, Grows, Reextract
  PROVE  /\ Only(Api) /\ ExecOK(Api)' /\ ~InTransaction(Api)'
         /\ ex'[Api].pc = "next" /\ ex'[Api].rule
         /\ ex'[Api].todo = IF Single THEN {One} ELSE {u \in Url : rows[u].fetch = "ok"}
<1> DEFINE todo == IF Single THEN {One} ELSE {u \in Url : rows[u].fetch = "ok"}
<1>1. Api \in Writers /\ ExecOK(Api)
  BY DEF Writers, TInv, ExecInv
<1>2. ex[Api].pc = "list" /\ ex' = [ex EXCEPT ![Api].pc = "next", ![Api].todo = todo]
  BY DEF Reextract
<1>3. todo \in SUBSET Url /\ "next" \in Pc
  BY AnalyzeAssumption DEF Pc
<1> HIDE DEF todo
<1>4. Only(Api) /\ ex'[Api].pc = "next" /\ ex'[Api].todo = todo /\ ex'[Api].rule = ex[Api].rule
  BY <1>1, <1>2, <1>3, ListEffect, ZenonT(40) DEF TInv
<1>5. ~InTransaction(Api)' /\ ex[Api].rule /\ ex'[Api].rule
  BY <1>1, <1>2, <1>4 DEF InTransaction, ExecOK, Running
<1>6. rule'
  BY <1>1, <1>5 DEF ExecOK, Grows, FlagsGrow
<1> USE DEF todo
<1> QED
  BY <1>4, <1>5, <1>6 DEF ExecOK, InHand

LEMMA BeginOK ==
  ASSUME TInv, Grows, NEW w \in Writers, ex[w].pc = "next", NEW u \in ex[w].todo, Begin(w, u)
  PROVE  Only(w) /\ ExecOK(w)'
<1>1. ExecOK(w) /\ ex[w] \in Execution /\ u \in Url
  BY DEF TInv, TypeOK, ExecInv, Execution
<1>2. /\ Only(w) /\ ex'[w].pc = "blob" /\ ex'[w].cur = u /\ ex'[w].todo = ex[w].todo \ {u}
      /\ ex'[w].rule = ex[w].rule /\ ex'[w].unwritten = SightingsOf(u, ex[w].rule)
      /\ ex'[w].occ = {}
  BY <1>1, BeginEffect DEF TInv
<1>3. ex'[w].occ \cup ex'[w].unwritten = SightingsOf(ex'[w].cur, ex'[w].rule)
  BY <1>2
<1>4. (ex[w].rule => rule)' /\ (w # Api => stage' # "fetching")
  BY <1>1, <1>2 DEF ExecOK, Grows, FlagsGrow, Running
<1>5. w # Api /\ ~Single => /\ \A v \in ex'[w].todo : rows'[v].fetch = "ok"
                            /\ rows'[ex'[w].cur].fetch = "ok"
  BY <1>1, <1>2 DEF ExecOK, Execution, Grows, StoreGrow
<1>6. w = Api => ex'[w].rule
  BY <1>1, <1>2 DEF ExecOK, Running
<1>7. ExecOK(w)'
  BY <1>2, <1>3, <1>4, <1>5, <1>6, SameMode DEF ExecOK
<1> QED
  BY <1>2, <1>7

(* A statement of the transaction keeps its place, and records one sighting
   or reads one.                                                            *)
LEMMA StatementOK ==
  ASSUME TInv, Grows, NEW w \in Writers, KeepsPlace(w), InTransaction(w),
         ex'[w].pc \in {"blob", "merge"},
         ex'[w].occ \cup ex'[w].unwritten = ex[w].occ \cup ex[w].unwritten,
         ex'[w].pc = "merge" => ex'[w].at \in ex'[w].unwritten
  PROVE  ExecOK(w)' /\ InTransaction(w)'
<1>1. ExecOK(w) /\ ex[w] \in Execution
  BY DEF TInv, TypeOK, ExecInv
<1>2. InTransaction(w)' /\ Running(w) /\ ex[w].pc \in InHand
  BY DEF InTransaction, Running, InHand
<1>3. ex'[w].occ \cup ex'[w].unwritten = SightingsOf(ex'[w].cur, ex'[w].rule)
  BY <1>1 DEF ExecOK, KeepsPlace
<1>4. (ex[w].rule => rule)' /\ (w # Api => stage' # "fetching")
  BY <1>1, <1>2 DEF ExecOK, Grows, FlagsGrow, KeepsPlace
<1>5. w # Api /\ ~Single => /\ \A v \in ex'[w].todo : rows'[v].fetch = "ok"
                            /\ rows'[ex'[w].cur].fetch = "ok"
  BY <1>1, <1>2 DEF ExecOK, Execution, Grows, StoreGrow, KeepsPlace
<1>6. w = Api => ex'[w].rule
  BY <1>1, <1>2 DEF ExecOK, KeepsPlace
<1>7. ExecOK(w)'
  BY <1>2, <1>3, <1>4, <1>5, <1>6, SameMode DEF ExecOK
<1> QED
  BY <1>2, <1>7

LEMMA WriteOK ==
  ASSUME TInv, Grows, NEW w \in Writers, Write(w)
  PROVE  Only(w) /\ ExecOK(w)' /\ KeepsPlace(w) /\ InTransaction(w) /\ InTransaction(w)'
<1>1. TypeOK /\ ExecOK(w) /\ InTransaction(w)
  BY DEF TInv, ExecInv, Write, Insert, ReadExisting, Merge, InTransaction
<1>2. CASE Insert(w)
  <2>1. PICK s \in ex[w].unwritten :
          ex' = [ex EXCEPT ![w].own = Own(w, s.finding, {s.from}),
                           ![w].occ = @ \cup {s}, ![w].unwritten = @ \ {s}]
    BY <1>2 DEF Insert
  <2>2. /\ Only(w) /\ KeepsPlace(w) /\ ex'[w].pc = ex[w].pc
        /\ ex'[w].occ = ex[w].occ \cup {s} /\ ex'[w].unwritten = ex[w].unwritten \ {s}
    BY <1>1, <2>1, InsertEffect
  <2>3. ex'[w].pc = "blob"
    BY <1>2, <2>2 DEF Insert
  <2> QED
    BY <1>1, <2>2, <2>3, StatementOK
<1>3. CASE ReadExisting(w)
  <2>1. PICK s \in ex[w].unwritten :
          ex' = [ex EXCEPT ![w].pc = "merge", ![w].at = s, ![w].read = Sees(w, s.finding)]
    BY <1>3 DEF ReadExisting
  <2>2. /\ Only(w) /\ KeepsPlace(w) /\ ex'[w].pc = "merge" /\ ex'[w].at = s
        /\ ex'[w].occ = ex[w].occ /\ ex'[w].unwritten = ex[w].unwritten
    BY <1>1, <2>1, ReadEffect
  <2> QED
    BY <1>1, <2>2, StatementOK
<1>4. CASE Merge(w)
  <2>1. ex[w].at \in ex[w].unwritten
    BY <1>1, <1>4 DEF ExecOK, Merge
  <2>2. /\ Only(w) /\ KeepsPlace(w) /\ ex'[w].pc = "blob"
        /\ ex'[w].occ = ex[w].occ \cup {ex[w].at}
        /\ ex'[w].unwritten = ex[w].unwritten \ {ex[w].at}
    BY <1>1, <1>4, <2>1, MergeEffect
  <2> QED
    BY <1>1, <2>1, <2>2, StatementOK
<1> QED
  BY <1>2, <1>3, <1>4 DEF Write

-----------------------------------------------------------------------------
(* The kinds of steps: what the invariants below tell apart. *)

\* The execution ends, done with its assets or not.
Halts(w) ==
  /\ Only(w) /\ ex'[w] = Idle
  /\ UNCHANGED <<rows, found, seen, coverage, rule>>
  /\ past'.overlap = past.overlap /\ past'.together = past.together
  /\ past'.apiDied = past.apiDied \/ (past'.apiDied = TRUE)
  /\ w = Api => (past'.apiDied = TRUE) \/ (ex[w].pc = "next" /\ ex[w].todo = {})
  /\ stage' = "done" => stage = "done" \/ (w # Api /\ ex[w].pc = "next" /\ ex[w].todo = {})
  /\ stage = "fetching" => stage' = "fetching"

\* It goes on with the asset in hand, or with the next one.
Moves(w) ==
  /\ w # Api /\ Only(w) /\ KeepsPlace(w)
  /\ \/ ex[w].pc \in {"index", "publish"} /\ ex'[w].pc = "next"
     \/ ~Single /\ ex[w].pc \in {"blob", "merge"} /\ ex'[w].pc = "fail"
  /\ UNCHANGED <<rows, found, seen, coverage, stage, rule, past>>

\* It takes the next asset.
Opens(w, u) ==
  /\ Begin(w, u) /\ ex[w].pc = "next" /\ u \in ex[w].todo
  /\ UNCHANGED <<rows, found, seen, coverage, stage, rule>>

Waits == /\ UNCHANGED <<ex, rows, found, seen, coverage, rule, past>>
         /\ stage' = "done" => stage = "done"
         /\ stage = "fetching" /\ stage' # "fetching" =>
              \A u \in Present(rows) : FetchSettled(rows[u])

LEMMA HaltSteps ==
  ASSUME TypeOK, NEW w \in Workers
  PROVE  /\ Crash(w) \/ InterruptBlob(w) \/ InfraError(w) \/ Finish(w) => Halts(w)
         /\ (BuildIndex(w) \/ NextAsset(w)) /\ Interrupted(w) /\ UNCHANGED past => Halts(w)
         /\ (Publish(w) \/ OtherError(w)) /\ ex' = [ex EXCEPT ![w] = Idle] => Halts(w)
<1>1. w \in Writers /\ w # Api
  BY AnalyzeAssumption DEF Writers
<1>2. ASSUME UNCHANGED <<rows, found, seen, coverage, rule, past>>, ex' = [ex EXCEPT ![w] = Idle],
             stage' = "done" => stage = "done" \/ (ex[w].pc = "next" /\ ex[w].todo = {}),
             stage = "fetching" => stage' = "fetching"
      PROVE  Halts(w)
  BY <1>1, <1>2, RestEffect DEF Halts
<1>3. EndInterrupted(w) => /\ ex' = [ex EXCEPT ![w] = Idle]
                           /\ stage' = "done" => stage = "done"
                           /\ stage = "fetching" => stage' = "fetching"
  BY DEF EndInterrupted
<1>4. ASSUME UNCHANGED <<rows, found, seen, coverage, rule, past>>, EndInterrupted(w)
       PROVE  Halts(w)
  BY <1>2, <1>3, <1>4
<1>5. Crash(w) => Halts(w)
  BY <1>2 DEF Crash
<1>6. InterruptBlob(w) => Halts(w)
  BY <1>4 DEF InterruptBlob, Interrupted
<1>7. InfraError(w) => Halts(w)
  BY <1>2 DEF InfraError
<1>8. Finish(w) => Halts(w)
  <2>1. Finish(w) => /\ UNCHANGED <<rows, found, seen, coverage, rule, past>>
                     /\ EndInterrupted(w) \/
                          /\ ex[w].pc = "next" /\ ex[w].todo = {}
                          /\ ex' = [ex EXCEPT ![w] = Idle]
                          /\ stage = "fetching" => stage' = "fetching"
    BY DEF Finish, Interrupted
  <2> QED
    BY <1>2, <1>4, <2>1
<1>9. (BuildIndex(w) \/ NextAsset(w)) /\ Interrupted(w) /\ UNCHANGED past => Halts(w)
  BY <1>4 DEF BuildIndex, NextAsset, Interrupted
<1>10. (Publish(w) \/ OtherError(w)) /\ ex' = [ex EXCEPT ![w] = Idle] => Halts(w)
  BY <1>2 DEF Publish, OtherError
<1> QED
  BY <1>5, <1>6, <1>7, <1>8, <1>9, <1>10

LEMMA MoveSteps ==
  ASSUME TypeOK, NEW w \in Workers
  PROVE  /\ BuildIndex(w) => Halts(w) \/ Moves(w)
         /\ Publish(w) => Halts(w) \/ Moves(w)
         /\ OtherError(w) => Halts(w) \/ Moves(w)
<1>1. w \in Writers /\ w # Api /\ "next" \in Pc /\ "fail" \in Pc
  BY AnalyzeAssumption DEF Writers, Pc
<1>2. ASSUME BuildIndex(w) PROVE Halts(w) \/ Moves(w)
  <2>1. CASE Interrupted(w)
    BY <1>2, <2>1, HaltSteps DEF BuildIndex
  <2>2. CASE ex' = [ex EXCEPT ![w].pc = "next"] /\ UNCHANGED stage
    <3>1. Only(w) /\ ex'[w].pc = "next" /\ KeepsPlace(w)
      BY <1>1, <2>2, GotoEffect
    <3> QED
      BY <1>1, <1>2, <2>2, <3>1 DEF BuildIndex, Moves
  <2> QED
    BY <1>2, <2>1, <2>2 DEF BuildIndex
<1>3. ASSUME Publish(w) PROVE Halts(w) \/ Moves(w)
  <2>1. CASE ex' = [ex EXCEPT ![w] = Idle]
    BY <1>3, <2>1, HaltSteps
  <2>2. CASE ex' = [ex EXCEPT ![w].pc = "next"]
    <3>1. Only(w) /\ ex'[w].pc = "next" /\ KeepsPlace(w)
      BY <1>1, <2>2, GotoEffect
    <3> QED
      BY <1>1, <1>3, <3>1 DEF Publish, Moves
  <2> QED
    BY <1>3, <2>1, <2>2 DEF Publish
<1>4. ASSUME OtherError(w) PROVE Halts(w) \/ Moves(w)
  <2>1. CASE Single
    BY <1>4, <2>1, HaltSteps DEF OtherError
  <2>2. CASE ~Single
    <3>1. ex' = [ex EXCEPT ![w].pc = "fail", ![w].own = <<>>, ![w].occ = {}]
      BY <1>4, <2>2 DEF OtherError
    <3>2. Only(w) /\ ex'[w].pc = "fail" /\ KeepsPlace(w)
      BY <1>1, <3>1, EndEffect
    <3> QED
      BY <1>1, <1>4, <2>2, <3>2 DEF OtherError, Moves, InTransaction
  <2> QED
    BY <2>1, <2>2
<1> QED
  BY <1>2, <1>3, <1>4

LEMMA ApiSteps ==
  ASSUME TypeOK
  PROVE  /\ ReextractNext => Halts(Api) \/ \E u \in Url : Opens(Api, u)
         /\ ReextractFails => Halts(Api)
<1>1. Api \in Writers /\ ex[Api].todo \subseteq Url
  BY DEF Writers, TypeOK, Execution
<1>2. ASSUME ReextractNext PROVE Halts(Api) \/ \E u \in Url : Opens(Api, u)
  <2>1. CASE ex[Api].todo = {} /\ ex' = [ex EXCEPT ![Api] = Idle] /\ UNCHANGED past
    BY <1>1, <1>2, <2>1, RestEffect DEF ReextractNext, Halts
  <2>2. CASE \E u \in ex[Api].todo : Begin(Api, u)
    BY <1>1, <1>2, <2>2 DEF ReextractNext, Opens
  <2> QED
    BY <1>2, <2>1, <2>2 DEF ReextractNext
<1>3. ASSUME ReextractFails PROVE Halts(Api)
  <2>1. /\ Only(Api) /\ ex'[Api] = Idle
        /\ UNCHANGED <<rows, found, seen, coverage, stage, rule>>
    BY <1>1, <1>3, RestEffect DEF ReextractFails
  <2>2. past' = [past EXCEPT !.apiDied = TRUE]
    BY <1>3 DEF ReextractFails
  <2>3. past'.overlap = past.overlap /\ past'.together = past.together /\ past'.apiDied = TRUE
    BY <2>2 DEF TypeOK, FlagsType, History
  <2> QED
    BY <2>1, <2>3 DEF Halts
<1> QED
  BY <1>2, <1>3

StageKinds(w) ==
  Start(w) \/ ListRows(w) \/ Commit(w) \/ MarkFailed(w)

AnyKinds(w) ==
  Write(w) \/ Halts(w) \/ Moves(w) \/ \E u \in Url : Opens(w, u)

LEMMA NextKinds ==
  ASSUME TypeOK, Next
  PROVE  \/ \E u \in Url : FetchOne(u)
         \/ Waits \/ Teach \/ Reextract \/ ReextractCommit
         \/ \E w \in Workers : StageKinds(w)
         \/ \E w \in Writers : AnyKinds(w)
<1>1. ASSUME NEW w \in Workers, Execute(w) \/ Crash(w) PROVE StageKinds(w) \/ AnyKinds(w)
  <2>1. NextAsset(w) => Halts(w) \/ \E u \in Url : Opens(w, u)
    <3> SUFFICES ASSUME NextAsset(w) PROVE Halts(w) \/ \E u \in Url : Opens(w, u)
      OBVIOUS
    <3>1. ex[w].todo \subseteq Url
      BY DEF TypeOK, Execution, Writers
    <3>2. CASE Interrupted(w) /\ UNCHANGED past
      BY <3>2, HaltSteps
    <3>3. CASE (\E u \in ex[w].todo : Begin(w, u)) /\ UNCHANGED stage
      BY <3>1, <3>3 DEF NextAsset, Opens
    <3> QED
      BY <3>2, <3>3 DEF NextAsset
  <2> QED
    BY <1>1, <2>1, HaltSteps, MoveSteps DEF Execute, StageKinds, AnyKinds
<1>2. FetchOver \/ Pause \/ Resume => Waits
  BY DEF FetchOver, Pause, Resume, Waits
<1>3. Request => Reextract \/ ReextractCommit \/ AnyKinds(Api)
  BY ApiSteps DEF Request, AnyKinds
<1>4. Api \in Writers /\ Workers \subseteq Writers
  BY DEF Writers
<1> QED
  BY <1>1, <1>2, <1>3, <1>4 DEF Next, StageKinds

(* None of them stores anything. *)
LEMMA WriteKeeps ==
  ASSUME NEW w, Write(w)
  PROVE  UNCHANGED <<rows, found, seen, coverage, stage, rule, past>>
<1>1. Insert(w) => UNCHANGED <<rows, found, seen, coverage, stage, rule, past>>
  BY DEF Insert
<1>2. ReadExisting(w) => UNCHANGED <<rows, found, seen, coverage, stage, rule, past>>
  BY DEF ReadExisting
<1>3. Merge(w) => UNCHANGED <<rows, found, seen, coverage, stage, rule, past>>
  BY DEF Merge
<1> QED
  BY <1>1, <1>2, <1>3 DEF Write

LEMMA AnyKeeps ==
  ASSUME NEW w, AnyKinds(w)
  PROVE  UNCHANGED <<rows, found, seen, coverage, rule>>
<1>1. Halts(w) => UNCHANGED <<rows, found, seen, coverage, rule>>
  BY DEF Halts
<1>2. Moves(w) => UNCHANGED <<rows, found, seen, coverage, rule>>
  BY DEF Moves
<1>3. \A u \in Url : Opens(w, u) => UNCHANGED <<rows, found, seen, coverage, rule>>
  BY DEF Opens
<1> QED
  BY <1>1, <1>2, <1>3, WriteKeeps DEF AnyKinds

LEMMA KindsOK ==
  ASSUME TInv, Grows, NEW w \in Writers, AnyKinds(w)
  PROVE  Only(w) /\ ExecOK(w)'
<1>1. Write(w) => Only(w) /\ ExecOK(w)'
  BY WriteOK
<1>2. Halts(w) => Only(w) /\ ExecOK(w)'
  BY RestOK DEF Halts
<1>3. ASSUME Moves(w) PROVE Only(w) /\ ExecOK(w)'
  <2>1. Running(w) /\ ex'[w].pc \in {"next", "fail"} /\ KeepsPlace(w)
        /\ (ex'[w].pc = "fail" => ex[w].pc \in InHand /\ ~Single)
    BY <1>3 DEF Moves, Running, InHand
  <2> QED
    BY <1>3, <2>1, MoveOK DEF Moves
<1>4. ASSUME NEW u \in Url, Opens(w, u) PROVE Only(w) /\ ExecOK(w)'
  BY <1>4, BeginOK DEF Opens
<1> QED
  BY <1>1, <1>2, <1>3, <1>4 DEF AnyKinds

(* The steps that store: the execution keeps its place. *)
LEMMA CommitOK ==
  ASSUME TInv, Grows, NEW w \in Workers, Commit(w)
  PROVE  /\ Only(w) /\ KeepsPlace(w) /\ ExecOK(w)' /\ ~InTransaction(w)'
         /\ ex[w].pc = "blob" /\ ex'[w].pc = "publish"
<1>1. w \in Writers /\ w # Api /\ TypeOK /\ "publish" \in Pc
  BY AnalyzeAssumption DEF Writers, TInv, Pc
<1>2. ex[w].pc = "blob" /\ ex' = [ex EXCEPT ![w].pc = "publish", ![w].own = <<>>, ![w].occ = {}]
  BY DEF Commit
<1>3. Only(w) /\ KeepsPlace(w) /\ ex'[w].pc = "publish"
  BY <1>1, <1>2, EndEffect
<1>4. Running(w)
  BY <1>2 DEF Running
<1> QED
  BY <1>1, <1>2, <1>3, <1>4, MoveOK

LEMMA MarkOK ==
  ASSUME TInv, Grows, NEW w \in Workers, MarkFailed(w)
  PROVE  /\ Only(w) /\ KeepsPlace(w) /\ ExecOK(w)' /\ ~InTransaction(w)'
         /\ ex[w].pc = "fail" /\ ex'[w].pc = "next"
<1>1. w \in Writers /\ w # Api /\ TypeOK /\ "next" \in Pc
  BY AnalyzeAssumption DEF Writers, TInv, Pc
<1>2. ex[w].pc = "fail" /\ ex' = [ex EXCEPT ![w].pc = "next"]
  BY DEF MarkFailed
<1>3. Only(w) /\ KeepsPlace(w) /\ ex'[w].pc = "next"
  BY <1>1, <1>2, GotoEffect
<1>4. Running(w)
  BY <1>2 DEF Running
<1> QED
  BY <1>1, <1>2, <1>3, <1>4, MoveOK

LEMMA ReextractCommitOK ==
  ASSUME TInv, Grows, ReextractCommit
  PROVE  /\ Only(Api) /\ KeepsPlace(Api) /\ ExecOK(Api)' /\ ~InTransaction(Api)'
         /\ ex[Api].pc = "blob" /\ ex'[Api].pc = "next"
<1>1. Api \in Writers /\ TypeOK /\ "next" \in Pc
  BY DEF Writers, TInv, Pc
<1>2. ex[Api].pc = "blob" /\ ex' = [ex EXCEPT ![Api].pc = "next", ![Api].own = <<>>, ![Api].occ = {}]
  BY DEF ReextractCommit
<1>3. Only(Api) /\ KeepsPlace(Api) /\ ex'[Api].pc = "next"
  BY <1>1, <1>2, EndEffect
<1>4. Running(Api)
  BY <1>2 DEF Running
<1> QED
  BY <1>1, <1>2, <1>3, <1>4, MoveOK

-----------------------------------------------------------------------------
(* Types, rows and executions are as they should be, always. *)
LEMMA InitRows ==
  ASSUME Init
  PROVE  /\ rows \in [Url -> Row] /\ RowsOK
         /\ \A u \in Url : rows[u].analyze = "pending" /\ rows[u].fetch \in {"pending", "absent"}
<1>1. NewRow \in Row /\ Absent \in Row /\ NewRow # Absent
  BY DEF NewRow, Absent, Row, Status
<1>2. CASE rows = NoRows
  <2>1. \A u \in Url : rows[u] = Absent
    BY <1>2 DEF NoRows
  <2> QED
    BY <1>1, <1>2, <2>1, AbsentIs DEF NoRows, RowsOK, Single, Present
<1>3. CASE rows = SeedPending(NoRows, Url)
  <2>1. rows = [u \in Url |-> NewRow]
    BY <1>3 DEF SeedPending, NoRows
  <2>2. NewRow.analyze = "pending" /\ NewRow.fetch = "pending"
    BY DEF NewRow
  <2> QED
    BY <1>1, <2>1, <2>2 DEF RowsOK, Present
<1> QED
  BY <1>2, <1>3 DEF Init

LEMMA InitTInv == Init => TInv
<1> SUFFICES ASSUME Init PROVE TInv
  OBVIOUS
<1>1. StoreType /\ RowsOK
  <2>1. found \in [Findings -> SUBSET Evidence] /\ seen \subseteq Sighting
    BY DEF Init, NoFinding
  <2>2. coverage \in Seq(Url)
    BY DEF Init
  <2> QED
    BY <2>1, <2>2, InitRows DEF StoreType
<1>2. FlagsType
  BY DEF Init, FlagsType, History
<1>3. ex \in [Writers -> Execution]
  BY IdleIs DEF Init
<1>4. \A w \in Writers : ex[w] = Idle
  BY DEF Init
<1>5. ExecInv
  BY <1>4, IdleIs DEF ExecInv, ExecOK, InTransaction, Running, InHand
<1> QED
  BY <1>1, <1>2, <1>3, <1>5 DEF TInv, TypeOK

(* A step is of one execution, or of none. *)
LEMMA NextTInv == TInv /\ [Next]_vars => TInv'
<1> SUFFICES ASSUME TInv, [Next]_vars PROVE TInv'
  OBVIOUS
<1>1. CASE UNCHANGED vars
  BY <1>1 DEF vars, TInv, TypeOK, StoreType, FlagsType, RowsOK, ExecInv, ExecOK, Single,
              Running, InTransaction
<1>2. CASE Next
  <2>1. Grows
    BY <1>2, NextGrows
  <2>2. ASSUME NEW w \in Writers, Only(w), ExecOK(w)'
        PROVE  (ex \in [Writers -> Execution] /\ ExecInv)'
    BY <2>1, <2>2, OthersOK DEF Only, ExecInv
  <2>3. ASSUME UNCHANGED ex
        PROVE  (ex \in [Writers -> Execution] /\ ExecInv)'
    BY <2>1, <2>3, OthersOK DEF ExecInv, TInv, TypeOK
  <2>4. Api \in Writers /\ Workers \subseteq Writers
    BY DEF Writers
  <2>5. ASSUME NEW w \in Workers, StageKinds(w) PROVE (ex \in [Writers -> Execution] /\ ExecInv)'
    <3>1. Commit(w) => Only(w) /\ ExecOK(w)'
      BY <2>1, CommitOK
    <3>2. MarkFailed(w) => Only(w) /\ ExecOK(w)'
      BY <2>1, MarkOK
    <3>3. Start(w) \/ ListRows(w) => Only(w) /\ ExecOK(w)'
      BY <2>1, StartsOK, ListOK
    <3> QED
      BY <2>2, <2>4, <2>5, <3>1, <3>2, <3>3 DEF StageKinds
  <2>6. Reextract \/ ReextractCommit \/ Teach => Only(Api) /\ ExecOK(Api)'
    BY <2>1, ReextractOK, ReextractCommitOK, TeachOK
  <2>7. (\E u \in Url : FetchOne(u)) \/ Waits => UNCHANGED ex
    BY DEF FetchOne, Waits
  <2>8. (ex \in [Writers -> Execution] /\ ExecInv)'
    BY <1>2, <2>1, <2>2, <2>3, <2>4, <2>5, <2>6, <2>7, NextKinds, KindsOK DEF TInv
  <2> QED
    BY <2>1, <2>8 DEF Grows, StoreGrow, FlagsGrow, TInv, TypeOK
<1> QED
  BY <1>1, <1>2 DEF vars

-----------------------------------------------------------------------------
(* The transactions: what is opened, written and stored. *)

\* Nothing of a transaction changes.
Still == UNCHANGED <<ex, found, seen>> /\ past'.together = past.together

\* The execution ends the step outside a transaction, and has stored nothing.
Leaves(w) == /\ Only(w) /\ ~InTransaction(w)'
             /\ UNCHANGED <<found, seen>> /\ past'.together = past.together

\* It ends its transaction by storing it.
Stores(w) == /\ Only(w) /\ InTransaction(w) /\ ~InTransaction(w)'
             /\ found' = [f \in Findings |-> Sees(w, f)] /\ seen' = seen \cup ex[w].occ
             /\ past'.together = past.together

LEMMA LeaveSteps ==
  ASSUME TInv, Grows
  PROVE  /\ \A w \in Workers : Start(w) \/ ListRows(w) \/ MarkFailed(w) => Leaves(w)
         /\ Teach \/ Reextract => Leaves(Api)
         /\ \A w \in Writers : Halts(w) \/ Moves(w) => Leaves(w)
<1>1. ASSUME NEW w \in Workers, Start(w) PROVE Leaves(w)
  <2>1. UNCHANGED <<found, seen>> /\ (past' = past \/ past' = [past EXCEPT !.overlap = TRUE])
    BY <1>1 DEF Start
  <2>2. past'.together = past.together
    BY <2>1 DEF TInv, TypeOK, FlagsType, History
  <2> QED
    BY <1>1, <2>1, <2>2, StartsOK DEF Leaves
<1>2. ASSUME NEW w \in Workers, ListRows(w) PROVE Leaves(w)
  BY <1>2, ListOK DEF Leaves, ListRows
<1>3. ASSUME NEW w \in Workers, MarkFailed(w) PROVE Leaves(w)
  BY <1>3, MarkOK DEF Leaves, MarkFailed
<1>4. Teach => Leaves(Api)
  BY TeachOK DEF Leaves, Teach
<1>5. Reextract => Leaves(Api)
  BY ReextractOK DEF Leaves, Reextract
<1>6. ASSUME NEW w \in Writers, Halts(w) PROVE Leaves(w)
  BY <1>6, RestOK DEF Leaves, Halts
<1>7. ASSUME NEW w \in Writers, Moves(w) PROVE Leaves(w)
  BY <1>7 DEF Leaves, Moves, InTransaction
<1> QED
  BY <1>1, <1>2, <1>3, <1>4, <1>5, <1>6, <1>7

LEMMA TxKinds ==
  ASSUME TInv, Next
  PROVE  \/ Still
         \/ \E w \in Writers : \/ Leaves(w) \/ Stores(w) \/ Write(w)
                               \/ \E u \in Url : Opens(w, u)
<1>1. Grows /\ Api \in Writers /\ Workers \subseteq Writers
  BY NextGrows DEF Writers
<1>2. (\E u \in Url : FetchOne(u)) \/ Waits => Still
  BY DEF FetchOne, Waits, Still
<1>3. ASSUME NEW w \in Workers, Commit(w) PROVE Stores(w)
  BY <1>1, <1>3, CommitOK DEF Stores, Commit, InTransaction
<1>4. ReextractCommit => Stores(Api)
  BY <1>1, ReextractCommitOK DEF Stores, ReextractCommit, InTransaction
<1>5. \A w \in Workers : StageKinds(w) => Leaves(w) \/ Stores(w)
  BY <1>1, <1>3, LeaveSteps DEF StageKinds
<1> QED
  BY <1>1, <1>2, <1>4, <1>5, LeaveSteps, NextKinds DEF AnyKinds, TInv

LEMMA OpenIs ==
  ASSUME TInv, NEW w \in Writers, NEW u \in Url, Opens(w, u)
  PROVE  /\ Only(w) /\ ex'[w].pc = "blob" /\ ex'[w].cur = u /\ ex'[w].todo = ex[w].todo \ {u}
         /\ ex'[w].rule = ex[w].rule /\ ex'[w].own = <<>> /\ ex'[w].occ = {}
         /\ ex[w].pc = "next" /\ u \in ex[w].todo
         /\ UNCHANGED <<rows, found, seen, coverage, stage, rule>>
         /\ past'.overlap = past.overlap /\ past'.apiDied = past.apiDied
         /\ past.together => past'.together
         /\ (\E v \in Writers \ {w} : InTransaction(v)) => past'.together
<1> DEFINE b == \E v \in Writers \ {w} : InTransaction(v)
<1>1. past' = [past EXCEPT !.together = @ \/ b]
  BY DEF Opens, Begin
<1>2. past \in History
  BY DEF TInv, TypeOK, FlagsType, History
<1> HIDE DEF b
<1>3. /\ past'.overlap = past.overlap /\ past'.apiDied = past.apiDied
      /\ past'.together = (past.together \/ b)
  BY <1>1, <1>2 DEF History
<1>4. (past.together => past'.together) /\ (b => past'.together)
  BY <1>3
<1> USE DEF b
<1> QED
  BY <1>3, <1>4, BeginEffect DEF Opens, TInv

(* What a writer sees when it has written f. *)
LEMMA OwnSees ==
  ASSUME TypeOK, NEW w \in Writers, NEW f \in Findings, NEW e \in SUBSET Evidence,
         ex'[w].own = Own(w, f, e), found' = found
  PROVE  \A g \in Findings : Sees(w, g)' = IF g = f THEN e ELSE Sees(w, g)
<1> SUFFICES ASSUME NEW g \in Findings
             PROVE  Sees(w, g)' = IF g = f THEN e ELSE Sees(w, g)
  OBVIOUS
<1>1. /\ DOMAIN Own(w, f, e) = DOMAIN ex[w].own \cup {f} /\ Own(w, f, e)[f] = e
      /\ \A h \in DOMAIN ex[w].own : h # f => Own(w, f, e)[h] = ex[w].own[h]
  BY OwnIs
<1> QED
  BY <1>1 DEF Sees

(* The statements of a transaction, with their types. *)
Inserts(w, s) ==
  /\ s \in ex[w].unwritten /\ Sees(w, s.finding) = NoFinding
  /\ ex[w].pc = "blob" /\ ex'[w].pc = "blob"
  /\ ex'[w].own = Own(w, s.finding, {s.from}) /\ ex'[w].occ = ex[w].occ \cup {s}

Reads(w, s) ==
  /\ Sees(w, s.finding) # NoFinding
  /\ ex'[w].pc = "merge" /\ ex'[w].at = s /\ ex'[w].read = Sees(w, s.finding)
  /\ ex'[w].own = ex[w].own /\ ex'[w].occ = ex[w].occ

Merges(w, s) ==
  /\ s = ex[w].at /\ ex[w].pc = "merge" /\ ex'[w].pc = "blob"
  /\ ex'[w].own = IF ex[w].read \cup {s.from} = ex[w].read THEN ex[w].own
                  ELSE Own(w, s.finding, ex[w].read \cup {s.from})
  /\ ex'[w].occ = ex[w].occ \cup {s}

LEMMA WriteIs ==
  ASSUME TInv, NEW w \in Writers, Write(w)
  PROVE  \E s \in Sighting : /\ s.finding \in Findings /\ s.from \in Evidence
                             /\ Inserts(w, s) \/ Reads(w, s) \/ Merges(w, s)
<1>1. TypeOK /\ ExecOK(w) /\ ex[w].unwritten \subseteq Sighting
  BY DEF TInv, TypeOK, ExecInv, Execution
<1>2. \A s \in Sighting : s.finding \in Findings /\ s.from \in Evidence
  BY DEF Sighting
<1>3. CASE Insert(w)
  <2>1. PICK s \in ex[w].unwritten :
          /\ Sees(w, s.finding) = NoFinding
          /\ ex' = [ex EXCEPT ![w].own = Own(w, s.finding, {s.from}),
                              ![w].occ = @ \cup {s}, ![w].unwritten = @ \ {s}]
    BY <1>3 DEF Insert
  <2>2. Inserts(w, s)
    BY <1>1, <1>3, <2>1, InsertEffect DEF Inserts, Insert
  <2> QED
    BY <1>1, <1>2, <2>2
<1>4. CASE ReadExisting(w)
  <2>1. PICK s \in ex[w].unwritten :
          /\ Sees(w, s.finding) # NoFinding
          /\ ex' = [ex EXCEPT ![w].pc = "merge", ![w].at = s, ![w].read = Sees(w, s.finding)]
    BY <1>4 DEF ReadExisting
  <2>2. Reads(w, s)
    BY <1>1, <2>1, ReadEffect DEF Reads
  <2> QED
    BY <1>1, <1>2, <2>2
<1>5. CASE Merge(w)
  <2>1. ex[w].at \in ex[w].unwritten /\ ex[w].pc = "merge"
    BY <1>1, <1>5 DEF ExecOK, Merge
  <2>2. Merges(w, ex[w].at)
    BY <1>1, <1>5, <2>1, MergeEffect DEF Merges
  <2> QED
    BY <1>1, <1>2, <2>1, <2>2
<1> QED
  BY <1>3, <1>4, <1>5 DEF Write

-----------------------------------------------------------------------------
(* A row is there before an occurrence of its finding. *)
LEMMA SeesBy ==
  ASSUME TypeOK, NEW v \in Writers, ex'[v].own = ex[v].own, NEW f \in Findings
  PROVE  /\ f \in DOMAIN ex[v].own => Sees(v, f)' = ex[v].own[f] /\ Sees(v, f) = ex[v].own[f]
         /\ f \notin DOMAIN ex[v].own => Sees(v, f)' = found'[f] /\ Sees(v, f) = found[f]
BY DEF Sees

LEMMA SightingsAre ==
  ASSUME TypeOK
  PROVE  /\ \A s \in Sighting : s.finding \in Findings /\ s.from \in Evidence
         /\ seen \subseteq Sighting
         /\ \A w \in Writers : /\ ex[w].occ \subseteq Sighting /\ ex[w].own \in Versions
                               /\ DOMAIN ex[w].own \subseteq Findings
<1>1. \A w \in Writers : ex[w].occ \subseteq Sighting /\ ex[w].own \in Versions
  BY DEF TypeOK, Execution
<1> QED
  BY <1>1, VersionsAre DEF TypeOK, StoreType, Sighting

LEMMA OtherHasRow ==
  ASSUME TInv, NEW v \in Writers, ex'[v] = ex[v], HasRow(v),
         \A f \in Findings : found[f] # NoFinding => found'[f] # NoFinding
  PROVE  HasRow(v)'
<1>1. TypeOK /\ ExecOK(v)
  BY DEF TInv, ExecInv
<1>2. \A f \in Findings : Sees(v, f) # NoFinding => Sees(v, f)' # NoFinding
  BY <1>1, SeesBy
<1>3. \A s \in ex[v].occ : s.finding \in Findings
  BY <1>1, SightingsAre
<1>4. ex[v].pc = "merge" => ex[v].at.finding \in Findings
  BY <1>1 DEF ExecOK, TypeOK, Execution, Sighting
<1> QED
  BY <1>2, <1>3, <1>4 DEF HasRow

LEMMA OpenHasRow ==
  ASSUME TInv, NEW w \in Writers, NEW u \in Url, Opens(w, u)
  PROVE  HasRow(w)'
<1>1. ex'[w].pc = "blob" /\ ex'[w].own = <<>> /\ ex'[w].occ = {}
  BY OpenIs
<1> QED
  BY <1>1, NoVersions DEF HasRow

LEMMA WriteHasRow ==
  ASSUME TInv, NEW w \in Writers, Write(w), HasRow(w), found' = found
  PROVE  HasRow(w)'
<1>0. TypeOK
  BY DEF TInv
<1>1. PICK s \in Sighting : /\ s.finding \in Findings /\ s.from \in Evidence
                            /\ Inserts(w, s) \/ Reads(w, s) \/ Merges(w, s)
  BY WriteIs
<1>2. \A t \in ex[w].occ : t.finding \in Findings
  BY <1>0, SightingsAre
<1>3. ASSUME NEW e \in SUBSET Evidence, e # NoFinding, ex'[w].own = Own(w, s.finding, e),
             ex'[w].pc = "blob", ex'[w].occ = ex[w].occ \cup {s}
      PROVE  HasRow(w)'
  <2>1. \A g \in Findings : Sees(w, g)' = IF g = s.finding THEN e ELSE Sees(w, g)
    BY <1>0, <1>1, <1>3, OwnSees
  <2>2. \A f \in DOMAIN ex'[w].own : ex'[w].own[f] # NoFinding
    <3>1. /\ DOMAIN ex'[w].own = DOMAIN ex[w].own \cup {s.finding} /\ ex'[w].own[s.finding] = e
          /\ \A g \in DOMAIN ex[w].own : g # s.finding => ex'[w].own[g] = ex[w].own[g]
      BY <1>0, <1>1, <1>3, OwnIs
    <3> QED
      BY <1>3, <3>1 DEF HasRow
  <2>3. \A t \in ex'[w].occ : Sees(w, t.finding)' # NoFinding
    BY <1>1, <1>2, <1>3, <2>1 DEF HasRow
  <2> QED
    BY <1>3, <2>2, <2>3 DEF HasRow
<1>4. CASE Inserts(w, s)
  <2>1. {s.from} \in SUBSET Evidence /\ {s.from} # NoFinding
    BY <1>1 DEF NoFinding
  <2> QED
    BY <1>3, <1>4, <2>1 DEF Inserts
<1>5. CASE Reads(w, s)
  <2>1. \A f \in Findings : Sees(w, f)' = Sees(w, f)
    BY <1>0, <1>5, SeesBy DEF Reads
  <2>2. \A t \in ex'[w].occ : Sees(w, t.finding)' # NoFinding
    BY <1>2, <1>5, <2>1 DEF Reads, HasRow
  <2>3. (Sees(w, ex[w].at.finding) # NoFinding)'
    BY <1>1, <1>5, <2>1 DEF Reads
  <2> QED
    BY <1>5, <2>2, <2>3 DEF HasRow, Reads
<1>6. CASE Merges(w, s)
  <2>1. CASE ex[w].read \cup {s.from} = ex[w].read
    <3>1. ex'[w].own = ex[w].own /\ ex'[w].pc = "blob" /\ ex'[w].occ = ex[w].occ \cup {s}
          /\ Sees(w, s.finding) # NoFinding
      BY <1>6, <2>1 DEF Merges, HasRow
    <3>2. \A f \in Findings : Sees(w, f)' = Sees(w, f)
      BY <1>0, <3>1, SeesBy
    <3>3. \A t \in ex'[w].occ : Sees(w, t.finding)' # NoFinding
      BY <1>1, <1>2, <3>1, <3>2 DEF HasRow
    <3> QED
      BY <3>1, <3>3 DEF HasRow
  <2>2. CASE ex[w].read \cup {s.from} # ex[w].read
    <3>1. ex[w].read \cup {s.from} \in SUBSET Evidence
      BY <1>0, <1>1 DEF TypeOK, Execution
    <3>2. ex[w].read \cup {s.from} # NoFinding
      BY DEF NoFinding
    <3>3. /\ ex'[w].own = Own(w, s.finding, ex[w].read \cup {s.from})
          /\ ex'[w].pc = "blob" /\ ex'[w].occ = ex[w].occ \cup {s}
      BY <1>6, <2>2 DEF Merges
    <3> QED
      BY <1>3, <3>1, <3>2, <3>3
  <2> QED
    BY <2>1, <2>2
<1> QED
  BY <1>1, <1>4, <1>5, <1>6

LEMMA NextRowsFirst == TInv /\ RowsFirst /\ Next => RowsFirst'
<1> SUFFICES ASSUME TInv, RowsFirst, Next PROVE RowsFirst'
  OBVIOUS
<1> DEFINE FoundKept == \A f \in Findings : found[f] # NoFinding => found'[f] # NoFinding
           Others(w) == \A v \in Writers : v # w /\ InTransaction(v)' => HasRow(v)'
<1>1. ASSUME NEW w \in Writers, Only(w), FoundKept PROVE Others(w)
  <2> SUFFICES ASSUME NEW v \in Writers, v # w, InTransaction(v)' PROVE HasRow(v)'
    OBVIOUS
  <2>1. ex'[v] = ex[v]
    BY <1>1 DEF Only
  <2>2. HasRow(v)
    BY <2>1 DEF RowsFirst, InTransaction
  <2> QED
    BY <1>1, <2>1, <2>2, OtherHasRow
<1>2. \A s \in seen : s.finding \in Findings
  BY SightingsAre DEF TInv
<1>3. ASSUME Still PROVE RowsFirst'
  <2>1. \A v \in Writers : InTransaction(v)' => HasRow(v)'
    BY <1>3 DEF Still, RowsFirst, InTransaction, HasRow, Sees
  <2> QED
    BY <1>3, <2>1 DEF Still, RowsFirst
<1>4. ASSUME NEW w \in Writers, Leaves(w) PROVE RowsFirst'
  <2>1. Others(w)
    BY <1>1, <1>4 DEF Leaves
  <2> QED
    BY <1>4, <2>1 DEF Leaves, RowsFirst
<1>5. ASSUME NEW w \in Writers, Stores(w) PROVE RowsFirst'
  <2>1. HasRow(w)
    BY <1>5 DEF Stores, RowsFirst
  <2>2. FoundKept
    BY <1>5, <2>1 DEF Stores, Sees, HasRow
  <2>3. Others(w)
    BY <1>1, <1>5, <2>2 DEF Stores
  <2>4. \A s \in ex[w].occ : s.finding \in Findings
    BY SightingsAre DEF TInv
  <2>5. \A s \in seen' : found'[s.finding] # NoFinding
    <3> SUFFICES ASSUME NEW s \in seen' PROVE found'[s.finding] # NoFinding
      OBVIOUS
    <3>1. CASE s \in seen
      BY <1>2, <2>2, <3>1 DEF RowsFirst
    <3>2. CASE s \in ex[w].occ
      BY <1>5, <2>1, <2>4, <3>2 DEF Stores, HasRow
    <3> QED
      BY <1>5, <3>1, <3>2 DEF Stores
  <2> QED
    BY <1>5, <2>3, <2>5 DEF Stores, RowsFirst
<1>6. ASSUME NEW w \in Writers, HasRow(w)', Only(w), UNCHANGED <<found, seen>> PROVE RowsFirst'
  <2>1. Others(w)
    BY <1>1, <1>6
  <2> QED
    BY <1>6, <2>1 DEF RowsFirst
<1>7. ASSUME NEW w \in Writers, NEW u \in Url, Opens(w, u) PROVE RowsFirst'
  BY <1>6, <1>7, OpenIs, OpenHasRow
<1>8. ASSUME NEW w \in Writers, Write(w) PROVE RowsFirst'
  <2>1. Only(w) /\ InTransaction(w)
    BY <1>8, WriteOK, NextGrows
  <2>2. UNCHANGED <<found, seen>>
    BY <1>8, WriteKeeps
  <2>3. HasRow(w)'
    BY <1>8, <2>1, <2>2, WriteHasRow DEF RowsFirst
  <2> QED
    BY <1>6, <2>1, <2>2, <2>3
<1> QED
  BY <1>3, <1>4, <1>5, <1>7, <1>8, TxKinds

-----------------------------------------------------------------------------
(* The evidence: one transaction at a time adds to what is stored. *)
LEMMA WriteAdds ==
  ASSUME TInv, NEW w \in Writers, Write(w), Adds(w), found' = found
  PROVE  Adds(w)'
<1>0. TypeOK
  BY DEF TInv
<1>1. PICK s \in Sighting : /\ s.finding \in Findings /\ s.from \in Evidence
                            /\ Inserts(w, s) \/ Reads(w, s) \/ Merges(w, s)
  BY WriteIs
<1>2. \A t \in ex[w].occ : t.finding \in Findings
  BY <1>0, SightingsAre
<1>3. \A f \in Findings : found[f] \subseteq Sees(w, f)
  BY DEF Adds, Sees
<1>4. ASSUME NEW e \in SUBSET Evidence, Sees(w, s.finding) \subseteq e, s.from \in e,
             ex'[w].own = Own(w, s.finding, e),
             ex'[w].pc = "blob", ex'[w].occ = ex[w].occ \cup {s}
      PROVE  Adds(w)'
  <2>1. \A g \in Findings : Sees(w, g)' = IF g = s.finding THEN e ELSE Sees(w, g)
    BY <1>0, <1>1, <1>4, OwnSees
  <2>2. \A f \in DOMAIN ex'[w].own : found'[f] \subseteq ex'[w].own[f]
    <3> DEFINE o == Own(w, s.finding, e)
    <3>1. s.finding \in Findings
      BY <1>1
    <3>2. /\ DOMAIN o = DOMAIN ex[w].own \cup {s.finding} /\ o[s.finding] = e
          /\ \A g \in DOMAIN ex[w].own : g # s.finding => o[g] = ex[w].own[g]
      BY <1>0, <3>1, OwnIs
    <3>3. ex'[w].own = o
      BY <1>4
    <3> HIDE DEF o
    <3>4. found[s.finding] \subseteq e
      BY <1>1, <1>3, <1>4
    <3> QED
      BY <3>2, <3>3, <3>4 DEF Adds
  <2>3. \A t \in ex'[w].occ : t.from \in Sees(w, t.finding)'
    <3> SUFFICES ASSUME NEW t \in ex[w].occ \cup {s} PROVE t.from \in Sees(w, t.finding)'
      BY <1>4
    <3>1. CASE t.finding = s.finding
      BY <1>1, <1>4, <2>1, <3>1 DEF Adds
    <3>2. CASE t.finding # s.finding
      BY <1>2, <2>1, <3>2 DEF Adds
    <3> QED
      BY <3>1, <3>2
  <2> QED
    BY <1>4, <2>2, <2>3 DEF Adds
<1>5. CASE Inserts(w, s)
  <2>1. {s.from} \in SUBSET Evidence /\ Sees(w, s.finding) \subseteq {s.from}
    BY <1>1, <1>5 DEF NoFinding, Inserts
  <2> QED
    BY <1>4, <1>5, <2>1 DEF Inserts
<1>6. ASSUME ex'[w].own = ex[w].own PROVE \A f \in Findings : Sees(w, f)' = Sees(w, f)
  BY <1>0, <1>6, SeesBy
<1>7. CASE Reads(w, s)
  <2>1. ex'[w].own = ex[w].own /\ ex'[w].occ = ex[w].occ /\ ex'[w].at = s
        /\ ex'[w].read = Sees(w, s.finding)
    BY <1>7 DEF Reads
  <2>2. \A t \in ex'[w].occ : t.from \in Sees(w, t.finding)'
    BY <1>2, <1>6, <2>1 DEF Adds
  <2>3. (ex[w].read = Sees(w, ex[w].at.finding))'
    BY <1>1, <1>6, <2>1
  <2> QED
    BY <2>1, <2>2, <2>3 DEF Adds
<1>8. CASE Merges(w, s)
  <2>1. ex[w].read = Sees(w, s.finding) /\ ex'[w].pc = "blob" /\ ex'[w].occ = ex[w].occ \cup {s}
    BY <1>8 DEF Merges, Adds
  <2>2. CASE ex[w].read \cup {s.from} = ex[w].read
    <3>1. ex'[w].own = ex[w].own /\ s.from \in Sees(w, s.finding)
      BY <1>8, <2>1, <2>2 DEF Merges
    <3>2. \A t \in ex'[w].occ : t.from \in Sees(w, t.finding)'
      BY <1>1, <1>2, <1>6, <2>1, <3>1 DEF Adds
    <3> QED
      BY <2>1, <3>1, <3>2 DEF Adds
  <2>3. CASE ex[w].read \cup {s.from} # ex[w].read
    <3>1. ex[w].read \cup {s.from} \in SUBSET Evidence
      BY <1>0, <1>1 DEF TypeOK, Execution
    <3>2. ex'[w].own = Own(w, s.finding, ex[w].read \cup {s.from})
      BY <1>8, <2>3 DEF Merges
    <3> QED
      BY <1>4, <2>1, <3>1, <3>2
  <2> QED
    BY <2>2, <2>3
<1> QED
  BY <1>1, <1>5, <1>7, <1>8

\* EvidenceInv of a history without two open transactions.
EvidenceBody ==
  /\ \A v, w \in Writers : InTransaction(v) /\ InTransaction(w) => v = w
  /\ \A s \in seen : s.from \in found[s.finding]
  /\ \A w \in Writers : InTransaction(w) => Adds(w)

LEMMA TxEvidence ==
  ASSUME TInv, Next, EvidenceBody, ~past'.together
  PROVE  EvidenceBody'
<1>0. \A s \in seen : s.finding \in Findings
  BY SightingsAre DEF TInv
<1> DEFINE Quiet(w) == \A v \in Writers : v # w => ~InTransaction(v)'
<1>1. ASSUME NEW w \in Writers, Only(w), InTransaction(w) PROVE Quiet(w)
  BY <1>1 DEF Only, EvidenceBody, InTransaction
<1>2. CASE Still
  BY <1>2 DEF Still, EvidenceBody, InTransaction, Adds, Sees
<1>3. ASSUME NEW w \in Writers, Leaves(w) PROVE EvidenceBody'
  <2>1. \A v \in Writers : InTransaction(v)' => v # w /\ ex'[v] = ex[v] /\ InTransaction(v)
    BY <1>3 DEF Leaves, Only, InTransaction
  <2>2. \A v \in Writers : InTransaction(v)' => Adds(v)'
    BY <1>3, <2>1 DEF EvidenceBody, Adds, Sees, Leaves
  <2>3. (\A u, v \in Writers : InTransaction(u) /\ InTransaction(v) => u = v)'
    BY <2>1 DEF EvidenceBody
  <2> QED
    BY <1>3, <2>2, <2>3 DEF EvidenceBody, Leaves
<1>4. ASSUME NEW w \in Writers, Stores(w) PROVE EvidenceBody'
  <2>1. \A v \in Writers : ~InTransaction(v)'
    BY <1>1, <1>4 DEF Stores
  <2>2. Adds(w)
    BY <1>4 DEF Stores, EvidenceBody
  <2>3. \A f \in Findings : found[f] \subseteq Sees(w, f) /\ found'[f] = Sees(w, f)
    BY <1>4, <2>2 DEF Adds, Sees, Stores
  <2>4. \A s \in ex[w].occ : s.finding \in Findings
    BY SightingsAre DEF TInv
  <2>5. \A s \in seen' : s.from \in found'[s.finding]
    <3> SUFFICES ASSUME NEW s \in seen' PROVE s.from \in found'[s.finding]
      OBVIOUS
    <3>1. CASE s \in seen
      BY <1>0, <2>3, <3>1 DEF EvidenceBody
    <3>2. CASE s \in ex[w].occ
      BY <2>2, <2>3, <2>4, <3>2 DEF Adds
    <3> QED
      BY <1>4, <3>1, <3>2 DEF Stores
  <2> QED
    BY <2>1, <2>5 DEF EvidenceBody
<1>5. ASSUME NEW w \in Writers, Quiet(w), Adds(w)', UNCHANGED <<found, seen>> PROVE EvidenceBody'
  BY <1>5 DEF EvidenceBody
<1>6. ASSUME NEW w \in Writers, NEW u \in Url, Opens(w, u) PROVE EvidenceBody'
  <2>1. Quiet(w)
    BY <1>6, OpenIs DEF Only, InTransaction
  <2>2. ex'[w].pc = "blob" /\ ex'[w].own = <<>> /\ ex'[w].occ = {} /\ UNCHANGED <<found, seen>>
    BY <1>6, OpenIs
  <2>3. Adds(w)'
    BY <2>2, NoVersions DEF Adds
  <2> QED
    BY <1>5, <2>1, <2>2, <2>3
<1>7. ASSUME NEW w \in Writers, Write(w) PROVE EvidenceBody'
  <2>1. Only(w) /\ InTransaction(w)
    BY <1>7, WriteOK, NextGrows
  <2>2. UNCHANGED <<found, seen>>
    BY <1>7, WriteKeeps
  <2>3. Adds(w)'
    BY <1>7, <2>1, <2>2, WriteAdds DEF EvidenceBody
  <2> QED
    BY <1>1, <1>5, <2>1, <2>2, <2>3
<1> QED
  BY <1>2, <1>3, <1>4, <1>6, <1>7, TxKinds

LEMMA NextEvidence == TInv /\ EvidenceInv /\ Next => EvidenceInv'
<1> SUFFICES ASSUME TInv, EvidenceInv, Next, ~past'.together PROVE EvidenceBody'
  BY DEF EvidenceInv, EvidenceBody
<1>1. past.together => past'.together
  <2>1. ASSUME NEW w \in Writers, Write(w) PROVE past' = past
    BY <2>1, WriteKeeps
  <2> QED
    BY <2>1, TxKinds, OpenIs DEF Still, Leaves, Stores
<1>2. EvidenceBody
  BY <1>1 DEF EvidenceInv, EvidenceBody
<1> QED
  BY <1>2, TxEvidence

-----------------------------------------------------------------------------
(* The verdicts: what changes a row, and what it leaves. *)
Verdict(w) == Commit(w) \/ MarkFailed(w)

LEMMA VerdictIs ==
  ASSUME TInv, NEW w \in Workers, Verdict(w)
  PROVE  /\ w \in Writers /\ w # Api /\ ex[w].cur \in Url
         /\ Only(w) /\ KeepsPlace(w) /\ ex[w].pc \in InHand /\ ex'[w].pc \in {"next", "publish"}
         /\ UNCHANGED <<stage, rule, past>>
         /\ Single => rows' = rows
         /\ ~Single => /\ RowsKeep(ex[w].cur) /\ rows'[ex[w].cur].analyze # "pending"
                       /\ rows'[ex[w].cur].fetch = "ok" /\ rows[ex[w].cur].fetch = "ok"
<1>1. w \in Writers /\ w # Api /\ Grows
  BY AnalyzeAssumption, NextGrows DEF Writers, Next, Execute, Verdict
<1>2. CASE Commit(w)
  <2>1. UNCHANGED <<stage, rule, past>>
    BY <1>2 DEF Commit
  <2> QED
    BY <1>1, <1>2, <2>1, CommitStore, CommitOK DEF InHand
<1>3. CASE MarkFailed(w)
  <2>1. UNCHANGED <<stage, rule, past>>
    BY <1>3 DEF MarkFailed
  <2> QED
    BY <1>1, <1>3, <2>1, MarkStore, MarkOK DEF InHand
<1> QED
  BY <1>2, <1>3 DEF Verdict

LEMMA RowsBy ==
  ASSUME TInv, Next
  PROVE  \/ \E u \in Url : FetchOne(u)
         \/ \E w \in Workers : Verdict(w)
         \/ UNCHANGED rows
<1>1. Waits \/ Teach \/ Reextract \/ ReextractCommit => UNCHANGED rows
  BY DEF Waits, Teach, Reextract, ReextractCommit
<1>2. \A w \in Workers : StageKinds(w) => Verdict(w) \/ UNCHANGED rows
  BY DEF StageKinds, Verdict, Start, ListRows
<1>3. \A w \in Writers : AnyKinds(w) => UNCHANGED rows
  BY AnyKeeps
<1> QED
  BY <1>1, <1>2, <1>3, NextKinds DEF TInv

LEMMA SingleNone ==
  ASSUME TInv, Single
  PROVE  \A u \in Url : rows[u].fetch = "absent" /\ ~Unanalyzed(u)
<1>1. \A u \in Url : rows[u] = Absent
  BY DEF Single, Present
<1> QED
  BY <1>1, AbsentIs DEF Unanalyzed

(* A verdict is of an asset that has none, and stays. *)
LEMMA VerdictShrinks ==
  ASSUME TInv, NEW w \in Workers, Verdict(w)
  PROVE  \A u \in Url : Unanalyzed(u)' => Unanalyzed(u) /\ u # ex[w].cur
<1>1. CASE Single
  BY <1>1, VerdictIs, SingleNone DEF Unanalyzed
<1>2. CASE ~Single
  BY <1>2, VerdictIs DEF RowsKeep, Unanalyzed
<1> QED
  BY <1>1, <1>2

LEMMA InitFetchInv == Init => FetchInv
<1>1. ASSUME Init PROVE \A u \in Url : ~rows[u].input
  <2>1. ~NewRow.input /\ ~Absent.input
    BY DEF NewRow, Absent
  <2> QED
    BY <1>1, <2>1 DEF Init, SeedPending, NoRows
<1> QED
  BY <1>1 DEF FetchInv, Init

LEMMA NextFetchInv == TInv /\ FetchInv /\ Next => FetchInv'
<1> SUFFICES ASSUME TInv, FetchInv, Next PROVE FetchInv'
  OBVIOUS
<1>1. Grows
  BY NextGrows
<1>2. Present(rows') = Present(rows) /\ Present(rows) \subseteq Url
  BY <1>1 DEF Grows, StoreGrow, Present
<1>3. CASE \E u \in Url : FetchOne(u)
  <2>1. PICK u \in Url : FetchOne(u)
    BY <1>3
  <2>2. stage = "fetching" /\ stage' = stage
    BY <2>1 DEF FetchOne
  <2>3. \A v \in Url : rows'[v].input => rows'[v].fetch = "ok"
    BY <2>1, FetchStore DEF RowsKeep, FetchInv
  <2> QED
    BY <2>2, <2>3 DEF FetchInv
<1>4. CASE \E w \in Workers : Verdict(w)
  <2>1. PICK w \in Workers : Verdict(w)
    BY <1>4
  <2>2. CASE Single
    BY <1>2, <2>1, <2>2, VerdictIs DEF FetchInv
  <2>3. CASE ~Single
    <3>1. \A v \in Url : rows'[v].input => rows'[v].fetch = "ok"
      BY <2>1, <2>3, VerdictIs DEF RowsKeep, FetchInv
    <3>2. stage # "fetching" => \A v \in Present(rows) : rows'[v].fetch # "pending"
      BY <1>2, <2>1, <2>3, VerdictIs DEF RowsKeep, FetchInv
    <3> QED
      BY <1>2, <2>1, <3>1, <3>2, VerdictIs DEF FetchInv
  <2> QED
    BY <2>2, <2>3
<1>5. CASE UNCHANGED rows
  <2>1. \/ stage = "fetching" => stage' = "fetching"
        \/ Waits
    <3>1. Teach \/ Reextract \/ ReextractCommit \/ (\E u \in Url : FetchOne(u)) => stage' = stage
      BY DEF Teach, Reextract, ReextractCommit, FetchOne
    <3>2. \A w \in Workers : StageKinds(w) => stage' = stage
      BY DEF StageKinds, Start, ListRows, Commit, MarkFailed
    <3>3. \A w \in Writers : AnyKinds(w) => stage' = stage \/ (stage = "fetching" => stage' = "fetching")
      BY WriteKeeps DEF AnyKinds, Halts, Moves, Opens
    <3> QED
      BY <3>1, <3>2, <3>3, NextKinds DEF TInv
  <2>2. CASE stage = "fetching" => stage' = "fetching"
    BY <1>2, <1>5, <2>2 DEF FetchInv
  <2>3. CASE Waits
    BY <1>2, <1>5, <2>3 DEF FetchInv, Waits, FetchSettled
  <2> QED
    BY <2>1, <2>2, <2>3
<1> QED
  BY <1>3, <1>4, <1>5, RowsBy
-----------------------------------------------------------------------------
(* Nothing is skipped. *)
LEMMA InitNoneSkipped == Init => NoneSkipped
BY DEF Init, NoneSkipped, Listed, Idle, Writers

LEMMA NextNoneSkipped == TInv /\ NoneSkipped /\ Next => NoneSkipped'
<1> SUFFICES ASSUME TInv, NoneSkipped, Next PROVE NoneSkipped'
  OBVIOUS
<1>0. Grows /\ Workers \subseteq Writers /\ Api \notin Workers
  BY NextGrows, AnalyzeAssumption DEF Writers
<1> DEFINE Fewer == \A u \in Url : Unanalyzed(u)' => Unanalyzed(u)
           Done == stage' = "done" => \A u \in Url : ~Unanalyzed(u)
<1>1. UNCHANGED rows => Fewer
  BY DEF Unanalyzed
<1>2. ASSUME NEW w \in Writers, Only(w), Fewer, Done,
             w \in Workers /\ ex'[w].pc \in Listed => Ahead(w)'
      PROVE  NoneSkipped'
  <2>1. ASSUME NEW v \in Workers, v # w, ex'[v].pc \in Listed PROVE Ahead(v)'
    <3>1. ex'[v] = ex[v]
      BY <1>0, <1>2, <2>1 DEF Only
    <3> QED
      BY <1>2, <2>1, <3>1 DEF NoneSkipped, Ahead
  <2> QED
    BY <1>2, <2>1 DEF NoneSkipped
<1>3. stage' = stage => Done
  BY DEF NoneSkipped
<1>4. ASSUME NEW u \in Url, FetchOne(u) PROVE NoneSkipped'
  <2>1. stage = "fetching" /\ UNCHANGED <<stage, ex>>
    BY <1>4 DEF FetchOne
  <2>2. \A w \in Workers : ex[w].pc = "idle"
    BY <1>0, <2>1 DEF TInv, ExecInv, ExecOK, Running
  <2> QED
    BY <2>1, <2>2 DEF NoneSkipped, Listed
<1>5. CASE Waits
  BY <1>5 DEF Waits, NoneSkipped, Ahead, Unanalyzed
<1>6. ASSUME NEW w \in Workers, Verdict(w) PROVE NoneSkipped'
  <2>1. Fewer /\ Ahead(w)'
    <3>1. ex[w].pc \in Listed
      BY <1>6, VerdictIs DEF InHand, Listed
    <3> QED
      BY <1>6, <3>1, VerdictIs, VerdictShrinks DEF NoneSkipped, Ahead, KeepsPlace
  <2> QED
    BY <1>0, <1>2, <1>3, <1>6, <2>1, VerdictIs
<1>7. ASSUME NEW w \in Workers, Start(w) PROVE NoneSkipped'
  <2>1. UNCHANGED <<rows, stage>>
    BY <1>7 DEF Start
  <2>2. ex'[w].pc \notin Listed /\ Only(w)
    BY <1>0, <1>7, StartsOK DEF Listed
  <2> QED
    BY <1>0, <1>1, <1>2, <1>3, <2>1, <2>2
<1>8. ASSUME NEW w \in Workers, ListRows(w) PROVE NoneSkipped'
  <2>1. UNCHANGED <<rows, stage>>
    BY <1>8 DEF ListRows
  <2>2. Only(w)
    BY <1>0, <1>8, ListOK
  <2>3. Ahead(w)'
    <3>1. CASE Single
      BY <2>1, <3>1, SingleNone DEF Ahead, Unanalyzed
    <3>2. CASE ~Single
      <4>1. ex'[w].todo = {u \in Url : Unanalyzed(u)}
        BY <1>0, <1>8, <3>2, ListOK
      <4> QED
        BY <2>1, <4>1 DEF Ahead, Unanalyzed
    <3> QED
      BY <3>1, <3>2
  <2> QED
    BY <1>0, <1>1, <1>2, <1>3, <2>1, <2>2, <2>3
<1>9. Teach \/ Reextract \/ ReextractCommit => NoneSkipped'
  <2>1. Teach \/ Reextract \/ ReextractCommit => UNCHANGED <<rows, stage>> /\ Only(Api)
    BY <1>0, TeachOK, ReextractOK, ReextractCommitOK DEF Teach, Reextract, ReextractCommit
  <2>2. Api \in Writers
    BY DEF Writers
  <2> QED
    BY <1>0, <1>1, <1>2, <1>3, <2>1, <2>2
<1>10. ASSUME NEW w \in Writers, AnyKinds(w) PROVE NoneSkipped'
  <2>1. Only(w) /\ UNCHANGED rows
    BY <1>0, <1>10, KindsOK, AnyKeeps
  <2>2. Done
    <3>1. Write(w) \/ Moves(w) \/ (\E u \in Url : Opens(w, u)) => stage' = stage
      BY WriteKeeps DEF Moves, Opens
    <3>2. ASSUME Halts(w), stage' = "done", stage # "done" PROVE \A u \in Url : ~Unanalyzed(u)
      <4>1. w \in Workers /\ ex[w].pc = "next" /\ ex[w].todo = {}
        BY <3>2 DEF Halts, Writers
      <4> QED
        BY <4>1 DEF NoneSkipped, Ahead, Listed, InHand
    <3>3. Halts(w) => Done
      BY <3>2 DEF NoneSkipped
    <3> QED
      BY <1>3, <1>10, <3>1, <3>3 DEF AnyKinds
  <2>3. ASSUME w \in Workers, ex'[w].pc \in Listed PROVE Ahead(w)'
    <3>1. CASE Write(w)
      <4>1. /\ KeepsPlace(w) /\ ex[w].pc \in {"blob", "merge"} /\ ex'[w].pc \in {"blob", "merge"}
        BY <1>0, <3>1, WriteOK DEF InTransaction
      <4>2. Ahead(w)
        BY <2>3, <4>1 DEF NoneSkipped, Listed
      <4> QED
        BY <2>1, <4>1, <4>2 DEF Ahead, Unanalyzed, KeepsPlace, InHand
    <3>2. CASE Halts(w)
      BY <2>3, <3>2 DEF Halts, Idle, Listed
    <3>3. CASE Moves(w)
      <4>1. Ahead(w)
        BY <2>3, <3>3 DEF NoneSkipped, Listed, Moves
      <4>2. KeepsPlace(w) /\ (ex[w].pc \in InHand => ex'[w].pc \in InHand)
        BY <3>3 DEF Moves, InHand
      <4> QED
        BY <2>1, <4>1, <4>2 DEF Ahead, Unanalyzed, KeepsPlace
    <3>4. ASSUME NEW u \in Url, Opens(w, u) PROVE Ahead(w)'
      <4>1. /\ ex'[w].pc = "blob" /\ ex'[w].cur = u /\ ex'[w].todo = ex[w].todo \ {u}
            /\ ex[w].pc = "next"
        BY <3>4, OpenIs
      <4>2. Ahead(w)
        BY <2>3, <4>1 DEF NoneSkipped, Listed
      <4> QED
        BY <2>1, <4>1, <4>2 DEF Ahead, Unanalyzed, InHand
    <3> QED
      BY <1>10, <3>1, <3>2, <3>3, <3>4 DEF AnyKinds
  <2> QED
    BY <1>1, <1>2, <2>1, <2>2, <2>3
<1> QED
  BY <1>4, <1>5, <1>6, <1>7, <1>8, <1>9, <1>10, NextKinds DEF TInv, StageKinds, Verdict

-----------------------------------------------------------------------------
(* What is analyzed is stored and counted. *)
LEMMA InitAnalyzed == Init => AnalyzedOK /\ CountedOnce
<1>1. Init => AnalyzedOK
  BY InitRows DEF AnalyzedOK, Present
<1>2. Init => CountedOnce
  BY DEF Init, CountedOnce, Listed, Running, Idle, Writers
<1> QED
  BY <1>1, <1>2

\* The occurrences a commit stores are those of the asset as it was read.
LEMMA CommitSeen ==
  ASSUME TInv, NEW w \in Writers, ex[w].pc = "blob", ex[w].unwritten = {},
         seen' = seen \cup ex[w].occ
  PROVE  SightingsOf(ex[w].cur, ex[w].rule) \subseteq seen' /\ ex[w].cur \in Url
BY DEF TInv, TypeOK, Execution, ExecInv, ExecOK, InTransaction

LEMMA SeenGrows == TInv /\ Next => seen \subseteq seen'
<1> SUFFICES ASSUME TInv, Next PROVE seen \subseteq seen'
  OBVIOUS
<1>1. \A w \in Writers : Write(w) => seen' = seen
  BY WriteKeeps
<1>2. \A w \in Writers, u \in Url : Opens(w, u) => seen' = seen
  BY DEF Opens
<1> QED
  BY <1>1, <1>2, TxKinds DEF Still, Leaves, Stores

LEMMA CoverageBy ==
  ASSUME TInv, Next
  PROVE  \/ UNCHANGED coverage
         \/ \E w \in Workers : Commit(w)
<1>1. Waits \/ Teach \/ Reextract \/ ReextractCommit \/ (\E u \in Url : FetchOne(u)) => UNCHANGED coverage
  BY DEF Waits, Teach, Reextract, ReextractCommit, FetchOne
<1>2. \A w \in Workers : StageKinds(w) => Commit(w) \/ UNCHANGED coverage
  BY DEF StageKinds, Start, ListRows, MarkFailed
<1>3. \A w \in Writers : AnyKinds(w) => UNCHANGED coverage
  BY AnyKeeps
<1> QED
  BY <1>1, <1>2, <1>3, NextKinds DEF TInv

LEMMA CommitCounts ==
  ASSUME TInv, NEW w \in Workers, Commit(w)
  PROVE  /\ DOMAIN coverage' = DOMAIN coverage \cup {Len(coverage) + 1}
         /\ Len(coverage) + 1 \notin DOMAIN coverage
         /\ coverage'[Len(coverage) + 1] = ex[w].cur
         /\ \A i \in DOMAIN coverage : coverage'[i] = coverage[i] /\ coverage[i] \in Url
<1>1. coverage \in Seq(Url) /\ ex[w].cur \in Url /\ coverage' = Append(coverage, ex[w].cur)
  BY DEF Commit, TInv, TypeOK, StoreType, Execution, Writers
<1> QED
  BY <1>1

LEMMA CountedStays ==
  ASSUME TInv, Next, NEW u \in Url, Counted(u)
  PROVE  Counted(u)'
<1>1. CASE UNCHANGED coverage
  BY <1>1 DEF Counted
<1>2. CASE \E w \in Workers : Commit(w)
  BY <1>2, CommitCounts DEF Counted
<1> QED
  BY <1>1, <1>2, CoverageBy

LEMMA NextAnalyzed == TInv /\ AnalyzedOK /\ Next => AnalyzedOK'
<1> SUFFICES ASSUME TInv, AnalyzedOK, Next,
                    NEW u \in Present(rows'), rows'[u].analyze = "ok"
             PROVE  SightingsOf(u, FALSE) \subseteq seen' /\ Counted(u)'
  BY DEF AnalyzedOK
<1>1. Grows /\ u \in Url /\ u \in Present(rows)
  BY NextGrows DEF Grows, StoreGrow, Present
<1>2. CASE rows[u].analyze = "ok"
  BY <1>1, <1>2, SeenGrows, CountedStays DEF AnalyzedOK
<1>3. CASE rows[u].analyze # "ok"
  <2>1. ASSUME NEW v \in Url, FetchOne(v) PROVE FALSE
    BY <1>1, <1>3, <2>1, FetchStore DEF RowsKeep
  <2>2. ASSUME NEW w \in Workers, MarkFailed(w) PROVE FALSE
    BY <1>1, <1>3, <2>2, MarkStore DEF RowsKeep
  <2>3. PICK w \in Workers : Commit(w)
    BY <1>3, <2>1, <2>2, RowsBy DEF Verdict
  <2>4. u = ex[w].cur
    <3>1. ~Single
      BY <1>3, <2>3, CommitStore
    <3> QED
      BY <1>1, <1>3, <2>3, <3>1, CommitStore DEF RowsKeep
  <2>5. /\ w \in Writers /\ ex[w].pc = "blob" /\ ex[w].unwritten = {}
        /\ seen' = seen \cup ex[w].occ
    BY <2>3 DEF Commit, Writers
  <2>6. SightingsOf(u, ex[w].rule) \subseteq seen' /\ ex[w].rule \in BOOLEAN
    BY <2>4, <2>5, CommitSeen DEF TInv, TypeOK, Execution
  <2>7. SightingsOf(u, FALSE) \subseteq seen'
    BY <1>1, <2>6, SightingTypes
  <2> QED
    BY <2>3, <2>4, <2>7, CommitCounts DEF Counted
<1> QED
  BY <1>2, <1>3
-----------------------------------------------------------------------------
(* And counted once. *)
CountedBody ==
  /\ \A i, j \in DOMAIN coverage : coverage[i] = coverage[j] => i = j
  /\ \A i \in DOMAIN coverage : rows[coverage[i]].analyze = "ok"
  /\ \A w \in Workers : ex[w].pc \in Listed => Uncounted(w)
  /\ \A v, w \in Workers : Running(v) /\ Running(w) => v = w

\* Who runs, and what the steps that change neither rows nor coverage keep.
LEMMA CountedFrame ==
  ASSUME TInv, CountedBody, UNCHANGED <<rows, coverage>>, NEW w \in Writers, Only(w),
         w \in Workers /\ Running(w)' => \A v \in Workers : Running(v) => v = w,
         w \in Workers /\ ex'[w].pc \in Listed => Uncounted(w)'
  PROVE  CountedBody'
<1>1. Workers \subseteq Writers
  BY DEF Writers
<1>2. \A v \in Workers : v # w => ex'[v] = ex[v]
  BY <1>1 DEF Only
<1>3. (\A v \in Workers : ex[v].pc \in Listed => Uncounted(v))'
  <2> SUFFICES ASSUME NEW v \in Workers, ex'[v].pc \in Listed PROVE Uncounted(v)'
    OBVIOUS
  <2>1. CASE v = w
    BY <2>1
  <2>2. CASE v # w
    BY <1>2, <2>2 DEF CountedBody, Uncounted
  <2> QED
    BY <2>1, <2>2
<1>4. (\A u, v \in Workers : Running(u) /\ Running(v) => u = v)'
  BY <1>2 DEF CountedBody, Running
<1> QED
  BY <1>3, <1>4 DEF CountedBody

LEMMA VerdictCounts ==
  ASSUME TInv, CountedBody, ~Single, NEW w \in Workers, Verdict(w)
  PROVE  CountedBody'
<1>1. /\ w \in Writers /\ ex[w].cur \in Url /\ Only(w) /\ KeepsPlace(w) /\ ex[w].pc \in InHand
      /\ ex'[w].pc \in {"next", "publish"} /\ RowsKeep(ex[w].cur)
  BY VerdictIs
<1>2. Uncounted(w) /\ Running(w)
  BY <1>1 DEF CountedBody, InHand, Listed, Running
<1>3. ex[w].todo \subseteq Url
  BY <1>1 DEF TInv, TypeOK, Execution
<1>4. Uncounted(w)'
  BY <1>1, <1>2, <1>3 DEF Uncounted, KeepsPlace, RowsKeep, InHand
<1>5. \A v \in Workers : v # w => ex'[v] = ex[v] /\ ~Running(v)
  BY <1>1, <1>2 DEF CountedBody, Only, Writers
<1>6. (\A v \in Workers : ex[v].pc \in Listed => Uncounted(v))'
  BY <1>4, <1>5 DEF Listed, Running
<1>7. (\A u, v \in Workers : Running(u) /\ Running(v) => u = v)'
  BY <1>5 DEF Running
<1>8. \A i \in DOMAIN coverage : coverage[i] \in Url /\ coverage[i] # ex[w].cur
  <2>1. \A i \in DOMAIN coverage : coverage[i] \in Url
    BY DEF TInv, TypeOK, StoreType
  <2> QED
    BY <1>1, <1>2, <2>1 DEF CountedBody, Uncounted
<1>9. \A i \in DOMAIN coverage : rows'[coverage[i]].analyze = "ok"
  BY <1>1, <1>8 DEF CountedBody, RowsKeep
<1>10. CASE Commit(w)
  <2>1. rows'[ex[w].cur].analyze = "ok"
    BY <1>10, CommitStore
  <2>2. (\A i \in DOMAIN coverage : rows[coverage[i]].analyze = "ok")'
    BY <1>9, <1>10, <2>1, CommitCounts
  <2>3. (\A i, j \in DOMAIN coverage : coverage[i] = coverage[j] => i = j)'
    BY <1>8, <1>10, CommitCounts DEF CountedBody
  <2> QED
    BY <1>6, <1>7, <2>2, <2>3 DEF CountedBody
<1>11. CASE MarkFailed(w)
  <2>1. coverage' = coverage
    BY <1>11 DEF MarkFailed
  <2> QED
    BY <1>6, <1>7, <1>9, <2>1 DEF CountedBody
<1> QED
  BY <1>10, <1>11 DEF Verdict

LEMMA FetchCounts ==
  ASSUME TInv, CountedBody, NEW u \in Url, FetchOne(u)
  PROVE  CountedBody'
<1>1. UNCHANGED <<coverage, ex>>
  BY DEF FetchOne
<1>2. \A v \in Url : rows'[v].analyze = rows[v].analyze
  BY FetchStore DEF RowsKeep
<1>3. \A i \in DOMAIN coverage : coverage[i] \in Url
  BY DEF TInv, TypeOK, StoreType
<1>4. \A w \in Workers : ex[w].todo \subseteq Url /\ ex[w].cur \in Url
  BY DEF TInv, TypeOK, Execution, Writers
<1>5. \A w \in Workers : Uncounted(w) => Uncounted(w)'
  BY <1>1, <1>2, <1>4 DEF Uncounted
<1> QED
  BY <1>1, <1>2, <1>3, <1>5 DEF CountedBody, Running

LEMMA AnyCounts ==
  ASSUME TInv, Grows, CountedBody, NEW w \in Writers, AnyKinds(w)
  PROVE  CountedBody'
<1>1. Only(w) /\ UNCHANGED <<rows, coverage>>
  BY KindsOK, AnyKeeps
<1>2. ASSUME w \in Workers, Running(w) PROVE \A v \in Workers : Running(v) => v = w
  BY <1>2 DEF CountedBody
<1>3. CASE Write(w)
  <2>1. /\ KeepsPlace(w) /\ ex[w].pc \in {"blob", "merge"} /\ ex'[w].pc \in {"blob", "merge"}
    BY <1>3, WriteOK DEF InTransaction
  <2>2. w \in Workers => Uncounted(w)
    BY <2>1 DEF CountedBody, Listed
  <2>3. w \in Workers => Uncounted(w)'
    BY <1>1, <2>1, <2>2 DEF Uncounted, KeepsPlace, InHand
  <2> QED
    BY <1>1, <1>2, <2>1, <2>3, CountedFrame DEF Running
<1>4. CASE Halts(w)
  <2>1. ~Running(w)' /\ ex'[w].pc \notin Listed
    BY <1>4 DEF Halts, Running, Idle, Listed
  <2> QED
    BY <1>1, <2>1, CountedFrame
<1>5. CASE Moves(w)
  <2>1. /\ KeepsPlace(w) /\ Running(w) /\ ex[w].pc \in Listed
        /\ ex'[w].pc \in InHand => ex[w].pc \in InHand
    BY <1>5 DEF Moves, InHand, Listed, Running
  <2>2. w \in Workers => Uncounted(w)
    BY <2>1 DEF CountedBody
  <2>3. w \in Workers => Uncounted(w)'
    BY <1>1, <2>1, <2>2 DEF Uncounted, KeepsPlace
  <2> QED
    BY <1>1, <1>2, <2>1, <2>3, CountedFrame
<1>6. ASSUME NEW u \in Url, Opens(w, u) PROVE CountedBody'
  <2>1. /\ ex'[w].pc = "blob" /\ ex'[w].cur = u /\ ex'[w].todo = ex[w].todo \ {u}
        /\ ex[w].pc = "next" /\ u \in ex[w].todo
    BY <1>6, OpenIs
  <2>2. w \in Workers => Uncounted(w)
    BY <2>1 DEF CountedBody, Listed
  <2>3. w \in Workers => Uncounted(w)'
    BY <1>1, <2>1, <2>2 DEF Uncounted
  <2> QED
    BY <1>1, <1>2, <2>1, <2>3, CountedFrame DEF Running
<1> QED
  BY <1>3, <1>4, <1>5, <1>6 DEF AnyKinds

LEMMA StartCounts ==
  ASSUME TInv, Grows, CountedBody, NEW w \in Workers, Start(w), ~past'.overlap
  PROVE  CountedBody'
<1>1. w \in Writers /\ Only(w) /\ ex'[w].pc = "list" /\ UNCHANGED <<rows, coverage>>
  BY StartsOK DEF Writers, Start
<1>2. \A v \in Workers : ~Running(v)
  <2>1. past' # [past EXCEPT !.overlap = TRUE]
    BY DEF TInv, TypeOK, FlagsType, History
  <2> QED
    BY <2>1 DEF Start
<1> QED
  BY <1>1, <1>2, CountedFrame DEF Listed

LEMMA ListCounts ==
  ASSUME TInv, Grows, CountedBody, ~Single, NEW w \in Workers, ListRows(w)
  PROVE  CountedBody'
<1>1. /\ w \in Writers /\ Only(w) /\ ex'[w].pc = "index" /\ UNCHANGED <<rows, coverage>>
      /\ ex'[w].todo = {u \in Url : Unanalyzed(u)}
  BY ListOK DEF Writers, ListRows
<1>2. Running(w) /\ Uncounted(w)'
  BY <1>1 DEF Running, ListRows, Uncounted, InHand, Unanalyzed
<1>3. \A v \in Workers : Running(v) => v = w
  BY <1>2 DEF CountedBody
<1> QED
  BY <1>1, <1>2, <1>3, CountedFrame

LEMMA OverlapStays == TInv /\ Next /\ past.overlap => past'.overlap
<1> SUFFICES ASSUME TInv, Next, past.overlap PROVE past'.overlap
  OBVIOUS
<1>1. \A w \in Writers, u \in Url : Opens(w, u) => past'.overlap = past.overlap
  BY OpenIs
<1>2. \A w \in Writers : Write(w) \/ Halts(w) \/ Moves(w) => past'.overlap = past.overlap
  BY WriteKeeps DEF Halts, Moves
<1>3. (\E u \in Url : FetchOne(u)) \/ Waits \/ Teach \/ Reextract \/ ReextractCommit => past' = past
  BY DEF FetchOne, Waits, Teach, Reextract, ReextractCommit
<1>4. \A w \in Workers : StageKinds(w) => past' = past \/ past' = [past EXCEPT !.overlap = TRUE]
  BY DEF StageKinds, Start, ListRows, Commit, MarkFailed
<1>5. [past EXCEPT !.overlap = TRUE].overlap
  BY DEF TInv, TypeOK, FlagsType, History
<1> QED
  BY <1>1, <1>2, <1>3, <1>4, <1>5, NextKinds DEF AnyKinds, TInv

LEMMA NextCountedOnce == TInv /\ CountedOnce /\ Next => CountedOnce'
<1>1. Next /\ TInv => Grows
  BY NextGrows
<1> SUFFICES ASSUME TInv, CountedOnce, Next, ~past'.overlap, ~Single' PROVE CountedBody'
  BY DEF CountedOnce, CountedBody
<1>2. ~Single /\ CountedBody
  BY <1>1, OverlapStays, SameMode DEF CountedOnce, CountedBody
<1>3. ASSUME NEW w \in Workers, StageKinds(w) PROVE CountedBody'
  BY <1>1, <1>2, <1>3, StartCounts, ListCounts, VerdictCounts DEF StageKinds, Verdict
<1>4. Waits => CountedBody'
  BY <1>2 DEF Waits, CountedBody, Uncounted, Running
<1>5. Teach \/ Reextract \/ ReextractCommit => CountedBody'
  <2>1. Teach \/ Reextract \/ ReextractCommit => Only(Api) /\ UNCHANGED <<rows, coverage>>
    BY <1>1, TeachOK, ReextractOK, ReextractCommitOK DEF Teach, Reextract, ReextractCommit
  <2>2. Api \in Writers /\ Api \notin Workers
    BY AnalyzeAssumption DEF Writers
  <2> QED
    BY <1>2, <2>1, <2>2, CountedFrame
<1> QED
  BY <1>1, <1>2, <1>3, <1>4, <1>5, FetchCounts, AnyCounts, NextKinds DEF TInv

-----------------------------------------------------------------------------
(* A taught wrapper: what has reached an asset, or will. *)
Reached(u) == SightingsOf(u, TRUE) \subseteq seen \/ ApiWill(u) \/ StageWill(u)

(* Nothing of it changes when the rows do not, and the executions of the
   stage that run have the rule they had.                                   *)
LEMMA StageKeeps ==
  ASSUME TInv, Next, NEW u \in Url, Reached(u), UNCHANGED rows, ApiWill(u) => ApiWill(u)',
         \A w \in Workers : Running(w)' => (Running(w) /\ ex'[w].rule = ex[w].rule) \/ ex'[w].rule
  PROVE  Reached(u)'
<1>1. seen \subseteq seen'
  BY SeenGrows
<1>2. StageWill(u) => StageWill(u)'
  BY DEF StageWill
<1> QED
  BY <1>1, <1>2 DEF Reached

LEMMA FetchReaches ==
  ASSUME TInv, NEW v \in Url, FetchOne(v), NEW u \in Url, Reached(u)
  PROVE  Reached(u)'
<1>1. stage = "fetching" /\ UNCHANGED <<ex, seen>>
  BY DEF FetchOne
<1>2. \A w \in Workers : ~Running(w)
  BY <1>1, AnalyzeAssumption DEF TInv, ExecInv, ExecOK, Writers
<1>3. RowsKeep(v) /\ rows'[v].analyze = "pending"
  BY FetchStore
<1>4. StageWill(u) => StageWill(u)'
  BY <1>1, <1>2, <1>3 DEF StageWill, RowsKeep, Running
<1> QED
  BY <1>1, <1>4 DEF Reached, ApiWill, Running, InTransaction

LEMMA VerdictReaches ==
  ASSUME TInv, Next, NEW w \in Workers, Verdict(w), NEW u \in Present(rows), Reached(u)
  PROVE  Reached(u)'
<1>1. ~Single /\ u \in Url
  BY DEF Single, Present
<1>2. /\ w \in Writers /\ w # Api /\ ex[w].cur \in Url /\ Only(w) /\ KeepsPlace(w)
      /\ RowsKeep(ex[w].cur) /\ rows'[ex[w].cur].fetch = "ok" /\ rows[ex[w].cur].fetch = "ok"
      /\ ex[w].pc \in InHand
  BY <1>1, VerdictIs
<1>3. ApiWill(u) => ApiWill(u)'
  BY <1>2 DEF Only, Writers, ApiWill, Running, InTransaction
<1>4. seen \subseteq seen'
  BY SeenGrows
<1>5. Running(w)
  BY <1>2 DEF InHand, Running
<1>6. \A v \in Workers : Running(v)' => Running(v) /\ ex'[v].rule = ex[v].rule
  BY <1>2, <1>5 DEF Only, Writers, KeepsPlace, Running
<1>7. ASSUME StageWill(u), rows'[u].analyze # "ok" PROVE StageWill(u)'
  <2>1. rows'[u].fetch = rows[u].fetch
    BY <1>1, <1>2 DEF RowsKeep
  <2> QED
    BY <1>6, <1>7, <2>1 DEF StageWill
<1>8. ASSUME StageWill(u), rows'[u].analyze = "ok" PROVE SightingsOf(u, TRUE) \subseteq seen'
  <2>1. u = ex[w].cur
    BY <1>1, <1>2, <1>8 DEF StageWill, RowsKeep
  <2>2. Commit(w)
    BY <1>8, <2>1, MarkStore DEF Verdict
  <2>3. ex[w].rule = TRUE
    <3>1. ex[w].rule \in BOOLEAN
      BY <1>2 DEF TInv, TypeOK, Execution
    <3>2. ex[w].rule
      BY <1>2, <1>5, <1>8, <2>1 DEF StageWill
    <3> QED
      BY <3>1, <3>2
  <2>4. ex[w].pc = "blob" /\ ex[w].unwritten = {} /\ seen' = seen \cup ex[w].occ
    BY <2>2 DEF Commit
  <2> QED
    BY <1>2, <2>1, <2>3, <2>4, CommitSeen
<1> QED
  BY <1>3, <1>4, <1>7, <1>8 DEF Reached

LEMMA ReextractReaches ==
  ASSUME TInv, FetchInv, Reextract, NEW u \in Present(rows)
  PROVE  Reached(u)'
<1>1. u \in Url /\ rows[u].fetch # "absent" /\ ~Single /\ rows[u].fetch \in Status
  BY DEF Present, TInv, TypeOK, StoreType, RowsOK, Single, Row
<1>2. Next
  BY DEF Next, Request
<1>3. /\ Only(Api) /\ ex'[Api].pc = "next" /\ UNCHANGED <<rows, stage>>
      /\ ex'[Api].todo = {v \in Url : rows[v].fetch = "ok"}
  BY <1>1, <1>2, NextGrows, ReextractOK DEF Reextract
<1>4. CASE rows[u].fetch = "ok"
  BY <1>1, <1>3, <1>4 DEF Reached, ApiWill, Running
<1>5. CASE rows[u].fetch # "ok"
  <2>1. rows[u].analyze = "pending"
    BY <1>1, <1>5 DEF TInv, RowsOK
  <2>2. rows[u].fetch = "failed" \/ \A w \in Workers : ~Running(w)
    <3>1. CASE stage = "fetching"
      BY <3>1, AnalyzeAssumption DEF TInv, ExecInv, ExecOK, Writers
    <3>2. CASE stage # "fetching"
      BY <1>1, <1>5, <3>2 DEF FetchInv, Status
    <3> QED
      BY <3>1, <3>2
  <2>3. \A w \in Workers : Running(w)' => Running(w)
    BY <1>3, AnalyzeAssumption DEF Only, Running, Writers
  <2>4. StageWill(u)'
    BY <1>3, <2>1, <2>2, <2>3 DEF StageWill
  <2> QED
    BY <2>4 DEF Reached
<1> QED
  BY <1>4, <1>5

\* LessonInv of a session that knows a wrapper, whose request has not died.
LEMMA NextReached ==
  ASSUME TInv, FetchInv, Next, rule', ~past'.apiDied,
         Teach \/ \A u \in Present(rows) : Reached(u)
  PROVE  \A u \in Present(rows) : Reached(u)'
<1>0. Grows /\ Workers \subseteq Writers /\ Api \in Writers /\ Api \notin Workers
  BY NextGrows, AnalyzeAssumption DEF Writers
<1> SUFFICES ASSUME NEW u \in Present(rows) PROVE Reached(u)'
  OBVIOUS
<1>1. u \in Url
  BY DEF Present
<1>2. CASE Teach
  BY <1>0, <1>2, TeachOK DEF Reached, ApiWill
<1> SUFFICES ASSUME Reached(u) PROVE Reached(u)'
  BY <1>2
<1> DEFINE StageSame == \A w \in Workers : Running(w)' =>
             (Running(w) /\ ex'[w].rule = ex[w].rule) \/ ex'[w].rule
           ApiSame == ex'[Api] = ex[Api]
<1>3. ASSUME NEW w \in Workers, Only(w),
             Running(w)' => (Running(w) /\ ex'[w].rule = ex[w].rule) \/ ex'[w].rule
      PROVE  StageSame /\ ApiSame
  BY <1>0, <1>3 DEF Only, Running
<1>4. Only(Api) => StageSame
  BY <1>0 DEF Only, Running
<1>5. ApiSame => (ApiWill(u) => ApiWill(u)')
  BY DEF ApiWill, Running, InTransaction
<1>6. CASE \E v \in Url : FetchOne(v)
  BY <1>1, <1>6, FetchReaches
<1>7. ASSUME NEW w \in Workers, Verdict(w) PROVE Reached(u)'
  BY <1>7, VerdictReaches
<1>8. CASE Waits
  <2>1. StageSame /\ ApiSame /\ UNCHANGED rows
    BY <1>8 DEF Waits, Running
  <2> QED
    BY <1>1, <1>5, <2>1, StageKeeps
<1>9. CASE Reextract
  BY <1>9, ReextractReaches
<1>10. CASE ReextractCommit
  <2>1. /\ Only(Api) /\ KeepsPlace(Api) /\ ex[Api].pc = "blob" /\ ex'[Api].pc = "next"
        /\ UNCHANGED rows
    BY <1>0, <1>10, ReextractCommitOK DEF ReextractCommit
  <2>2. CASE u = ex[Api].cur
    <3>1. /\ ex[Api].unwritten = {} /\ seen' = seen \cup ex[Api].occ
      BY <1>10 DEF ReextractCommit
    <3>2. ex[Api].rule = TRUE
      <4>1. ex[Api].rule \in BOOLEAN
        BY <1>0 DEF TInv, TypeOK, Execution
      <4>2. ex[Api].rule
        BY <1>0, <2>1 DEF TInv, ExecInv, ExecOK, Running
      <4> QED
        BY <4>1, <4>2
    <3> QED
      BY <1>0, <2>1, <2>2, <3>1, <3>2, CommitSeen DEF Reached
  <2>3. CASE u # ex[Api].cur
    <3>1. ApiWill(u) => ApiWill(u)'
      BY <2>1, <2>3 DEF ApiWill, KeepsPlace, Running
    <3> QED
      BY <1>1, <1>4, <2>1, <3>1, StageKeeps
  <2> QED
    BY <2>2, <2>3
<1>11. ASSUME NEW w \in Workers, Start(w) PROVE Reached(u)'
  <2>1. /\ Only(w) /\ ex'[w].rule = rule /\ UNCHANGED <<rows, rule>>
    BY <1>0, <1>11, StartsOK DEF Start
  <2>2. StageSame /\ ApiSame
    BY <1>3, <2>1
  <2> QED
    BY <1>1, <1>5, <2>1, <2>2, StageKeeps
<1>12. ASSUME NEW w \in Workers, ListRows(w) PROVE Reached(u)'
  <2>1. Only(w) /\ ex'[w].rule = ex[w].rule /\ Running(w) /\ UNCHANGED rows
    BY <1>0, <1>12, ListOK DEF ListRows, Running
  <2>2. StageSame /\ ApiSame
    BY <1>3, <2>1
  <2> QED
    BY <1>1, <1>5, <2>1, <2>2, StageKeeps
<1>13. ASSUME NEW w \in Writers, AnyKinds(w) PROVE Reached(u)'
  <2>1. Only(w) /\ UNCHANGED rows
    BY <1>0, <1>13, KindsOK, AnyKeeps
  <2>2. CASE w \in Workers
    <3>1. Running(w)' => Running(w) /\ ex'[w].rule = ex[w].rule
      <4>1. Write(w) => Running(w) /\ ex'[w].rule = ex[w].rule
        BY <1>0, WriteOK DEF KeepsPlace, Running, InTransaction
      <4>2. Halts(w) => ~Running(w)'
        BY DEF Halts, Idle, Running
      <4>3. Moves(w) => Running(w) /\ ex'[w].rule = ex[w].rule
        BY DEF Moves, KeepsPlace, Running
      <4>4. \A v \in Url : Opens(w, v) => Running(w) /\ ex'[w].rule = ex[w].rule
        BY OpenIs DEF Running
      <4> QED
        BY <1>13, <4>1, <4>2, <4>3, <4>4 DEF AnyKinds
    <3>2. StageSame /\ ApiSame
      BY <1>3, <2>1, <2>2, <3>1
    <3> QED
      BY <1>1, <1>5, <2>1, <3>2, StageKeeps
  <2>3. CASE w = Api
    <3>1. ApiWill(u) => ApiWill(u)'
      <4>1. ASSUME Write(Api), ApiWill(u) PROVE ApiWill(u)'
        <5>1. KeepsPlace(Api) /\ InTransaction(Api) /\ InTransaction(Api)'
          BY <1>0, <4>1, WriteOK
        <5> QED
          BY <4>1, <5>1 DEF ApiWill, KeepsPlace, Running, InTransaction
      <4>2. Halts(Api) => ~ApiWill(u)
        BY DEF Halts, ApiWill, InTransaction
      <4>3. ~Moves(Api)
        BY DEF Moves
      <4>4. ASSUME NEW v \in Url, Opens(Api, v), ApiWill(u) PROVE ApiWill(u)'
        <5>1. /\ ex'[Api].pc = "blob" /\ ex'[Api].cur = v /\ ex'[Api].todo = ex[Api].todo \ {v}
              /\ ex[Api].pc = "next"
          BY <1>0, <4>4, OpenIs
        <5> QED
          BY <4>4, <5>1 DEF ApiWill, Running, InTransaction
      <4> QED
        BY <1>13, <2>3, <4>1, <4>2, <4>3, <4>4 DEF AnyKinds
    <3> QED
      BY <1>1, <1>4, <2>1, <2>3, <3>1, StageKeeps
  <2> QED
    BY <2>2, <2>3 DEF Writers
<1> QED
  BY <1>2, <1>6, <1>7, <1>8, <1>9, <1>10, <1>11, <1>12, <1>13, NextKinds
     DEF TInv, StageKinds, Verdict

LEMMA DiedStays == TInv /\ Next /\ past.apiDied => past'.apiDied
<1> SUFFICES ASSUME TInv, Next, past.apiDied PROVE past'.apiDied
  OBVIOUS
<1>1. \A w \in Writers, u \in Url : Opens(w, u) => past'.apiDied = past.apiDied
  BY OpenIs
<1>2. \A w \in Writers : Write(w) \/ Moves(w) => past' = past
  BY WriteKeeps DEF Moves
<1>3. \A w \in Writers : Halts(w) => past'.apiDied
  BY DEF Halts
<1>4. (\E u \in Url : FetchOne(u)) \/ Waits \/ Teach \/ Reextract \/ ReextractCommit => past' = past
  BY DEF FetchOne, Waits, Teach, Reextract, ReextractCommit
<1>5. \A w \in Workers : StageKinds(w) => past' = past \/ past' = [past EXCEPT !.overlap = TRUE]
  BY DEF StageKinds, Start, ListRows, Commit, MarkFailed
<1>6. [past EXCEPT !.overlap = TRUE].apiDied = past.apiDied
  BY DEF TInv, TypeOK, FlagsType, History
<1> QED
  BY <1>1, <1>2, <1>3, <1>4, <1>5, <1>6, NextKinds DEF AnyKinds, TInv

LEMMA RuleBy == Next => rule' = rule \/ Teach
<1>1. ASSUME NEW w \in Workers, Start(w) \/ Execute(w) \/ Crash(w) PROVE rule' = rule
  <2>1. Start(w) \/ Crash(w) \/ ListRows(w) \/ BuildIndex(w) \/ NextAsset(w) => rule' = rule
    BY DEF Start, Crash, ListRows, BuildIndex, NextAsset
  <2>2. Write(w) \/ Commit(w) \/ Publish(w) => rule' = rule
    BY DEF Write, Insert, ReadExisting, Merge, Commit, Publish
  <2>3. InterruptBlob(w) \/ InfraError(w) \/ OtherError(w) \/ MarkFailed(w) \/ Finish(w) => rule' = rule
    BY DEF InterruptBlob, InfraError, OtherError, MarkFailed, Finish
  <2> QED
    BY <1>1, <2>1, <2>2, <2>3 DEF Execute
<1>2. Request => rule' = rule
  BY DEF Request, Reextract, ReextractNext, ReextractCommit, ReextractFails, Write, Insert,
         ReadExisting, Merge
<1> QED
  BY <1>1, <1>2 DEF Next, FetchOne, FetchOver, Pause, Resume

LEMMA NextLesson == TInv /\ FetchInv /\ LessonInv /\ Next => LessonInv'
<1> SUFFICES ASSUME TInv, FetchInv, LessonInv, Next, rule', ~past'.apiDied
             PROVE  \A u \in Present(rows') : Reached(u)'
  BY DEF LessonInv, Reached
<1>1. Present(rows') = Present(rows)
  BY NextGrows DEF Grows, StoreGrow
<1>2. Teach \/ \A u \in Present(rows) : Reached(u)
  BY RuleBy, DiedStays DEF LessonInv, Reached
<1> QED
  BY <1>1, <1>2, NextReached
-----------------------------------------------------------------------------
(* All of it, and what it gives. *)
StageInv == /\ TInv /\ FetchInv /\ NoneSkipped /\ AnalyzedOK /\ CountedOnce
            /\ RowsFirst /\ EvidenceInv /\ LessonInv

LEMMA InitStageInv == Init => StageInv
<1>1. Init => RowsFirst /\ EvidenceInv
  BY DEF Init, RowsFirst, EvidenceInv, InTransaction, Idle
<1>2. Init => LessonInv
  BY DEF Init, LessonInv
<1> QED
  BY <1>1, <1>2, InitTInv, InitFetchInv, InitNoneSkipped, InitAnalyzed DEF StageInv

LEMMA NextStageInv == StageInv /\ [Next]_vars => StageInv'
<1> SUFFICES ASSUME StageInv, [Next]_vars PROVE StageInv'
  OBVIOUS
<1>1. TInv'
  BY NextTInv DEF StageInv
<1>2. CASE Next
  BY <1>1, <1>2, NextFetchInv, NextNoneSkipped, NextAnalyzed, NextCountedOnce, NextRowsFirst,
     NextEvidence, NextLesson DEF StageInv
<1>3. CASE UNCHANGED vars
  <2>1. FetchInv' /\ NoneSkipped'
    BY <1>3 DEF vars, StageInv, FetchInv, NoneSkipped, Ahead, Unanalyzed
  <2>2. AnalyzedOK' /\ CountedOnce'
    BY <1>3 DEF vars, StageInv, AnalyzedOK, Counted, CountedOnce, Uncounted, Running, Single
  <2>3. RowsFirst' /\ EvidenceInv'
    BY <1>3 DEF vars, StageInv, RowsFirst, HasRow, EvidenceInv, Adds, InTransaction, Sees
  <2>4. LessonInv'
    BY <1>3 DEF vars, StageInv, LessonInv, ApiWill, StageWill, Running, InTransaction
  <2> QED
    BY <1>1, <2>1, <2>2, <2>3, <2>4 DEF StageInv
<1> QED
  BY <1>2, <1>3

(* The inductive invariant: what is in the tables, in the transactions and
   ahead of the executions belongs together, whoever overlaps or dies.      *)
THEOREM StageHolds == Spec => []StageInv
<1> QED
  BY InitStageInv, NextStageInv, PTL DEF Spec

(* An asset said to be analyzed has its findings stored and is counted, once
   unless two executions overlapped; a finding's row precedes its
   occurrences; and nothing fetched is left when the stage is done
   (_analyze_assets).                                                       *)
THEOREM AnalyzedIsFound == Spec => []AnalyzedMeansFound
<1>1. StageInv => AnalyzedMeansFound
  <2> SUFFICES ASSUME StageInv PROVE AnalyzedMeansFound
    OBVIOUS
  <2>1. \A u \in Present(rows) : rows[u].analyze = "ok" =>
          SightingsOf(u, FALSE) \subseteq seen /\ \E i \in DOMAIN coverage : coverage[i] = u
    BY DEF StageInv, AnalyzedOK, Counted
  <2>2. past.overlap \/ Single \/
          \A i, j \in DOMAIN coverage : coverage[i] = coverage[j] => i = j
    BY DEF StageInv, CountedOnce
  <2>3. \A s \in seen : found[s.finding] # NoFinding
    BY DEF StageInv, RowsFirst
  <2>4. stage = "done" => \A u \in Present(rows) : ~Unanalyzed(u)
    BY DEF StageInv, NoneSkipped, Present
  <2> QED
    BY <2>1, <2>2, <2>3, <2>4 DEF AnalyzedMeansFound
<1> QED
  BY <1>1, StageHolds, PTL

(* No later sighting is silently lost as long as the transactions come one
   after the other (record_finding, _merge_attributes).                     *)
THEOREM EvidenceIsKept == Spec => []EvidenceKept
<1>1. StageInv => EvidenceKept
  BY DEF StageInv, EvidenceInv, EvidenceKept
<1> QED
  BY <1>1, StageHolds, PTL

(* The wrapper a user teaches reaches each analyzed asset, whenever it is
   taught (add_rule, reextract_run, analyze_run).                           *)
THEOREM LessonReaches == Spec => []LessonReachesAll
<1>1. StageInv => LessonReachesAll
  BY DEF StageInv, LessonInv, LessonReachesAll, ApiWill, StageWill, Running, InTransaction, Writers
<1> QED
  BY <1>1, StageHolds, PTL
=============================================================================
