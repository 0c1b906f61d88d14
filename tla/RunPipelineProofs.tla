-------------------------- MODULE RunPipelineProofs --------------------------
(***************************************************************************)
(* Theorems about RunPipeline, for every pipeline, every number of workers *)
(* and of API processes, and every bound on jobs, entries, pauses,         *)
(* failures and crashes: the types, that a run advances once from a job,   *)
(* that a settled job stays settled, that a claim is exclusive, that the   *)
(* pipeline implements RunLifecycle, whatever is redelivered, reclaimed,   *)
(* retried, paused, resumed or lost in a crash, and that while nothing     *)
(* crashes and no beat is late the run is never stranded.                  *)
(***************************************************************************)
EXTENDS RunPipeline, TLAPS

(* A stage has a position in the order, and it is the stage there. *)
LEMMA IndexOfStage ==
  ASSUME NEW s \in Stages
  PROVE  /\ IndexOf(s) \in DOMAIN StageOrder
         /\ StageOrder[IndexOf(s)] = s
BY DEF IndexOf, Stages

(* next_stage returns a stage, and the pipeline has a first one. *)
LEMMA NextStageIsStage ==
  ASSUME NEW s \in Stages, HasNext(s)
  PROVE  NextStage(s) \in Stages
<1>1. IndexOf(s) \in 1 .. Len(StageOrder)
  BY IndexOfStage, StageOrderAssumption
<1>2. IndexOf(s) + 1 \in DOMAIN StageOrder
  BY <1>1, StageOrderAssumption DEF HasNext
<1> QED
  BY <1>2 DEF NextStage, Stages

LEMMA FirstStageIsStage == FirstStage \in Stages
BY StageOrderAssumption DEF FirstStage, Stages
-----------------------------------------------------------------------------
(* A busy worker has a job, an API process about to publish has one too. *)
BusyHasJob ==
  /\ \A w \in Workers : wk[w].pc # "idle" => wk[w].j \in JobId
  /\ \A a \in Apis : api[a].pc = "publish" => api[a].job \in JobId

TInv == TypeOK /\ BusyHasJob

(* The token of the walk.  A worker about to create the next job has one to
   create, its own job has succeeded and has no child yet, and no other worker
   is about to create the same child; a job with a child has succeeded.      *)
WalkInv ==
  /\ \A w \in Workers : wk[w].pc = "createNext" =>
       /\ jobs[wk[w].j].state = "succeeded"
       /\ HasNext(jobs[wk[w].j].stage)
       /\ \A k \in JobId : jobs[k].parent # wk[w].j
  /\ \A v, w \in Workers :
       /\ wk[v].pc = "createNext"
       /\ wk[w].pc = "createNext"
       /\ wk[v].j = wk[w].j
       => v = w
  /\ \A k \in JobId : jobs[k].parent # 0 => jobs[jobs[k].parent].state = "succeeded"
  /\ AdvancesOnce

IInv == TInv /\ WalkInv
-----------------------------------------------------------------------------
(* What the helpers of the actions keep of the types. *)
LEMMA MoveRunType ==
  ASSUME run \in RunRow, NEW to \in RunState, NEW from \in Stages \cup {"none"},
         NEW pause \in BOOLEAN, MoveRun(to, from, pause)
  PROVE  run' \in RunRow
BY DEF MoveRun, RunRow

LEMMA GotoType ==
  ASSUME wk \in [Workers -> Worker], NEW w \in Workers, NEW pc \in WorkerPc,
         Goto(w, pc)
  PROVE  /\ wk' \in [Workers -> Worker]
         /\ wk'[w].pc = pc
         /\ wk'[w].j = wk[w].j
         /\ wk'[w].e = wk[w].e
         /\ \A v \in Workers : v # w => wk'[v] = wk[v]
BY ZenonT(40) DEF Goto, Worker, RunState

LEMMA GotoSeenType ==
  ASSUME wk \in [Workers -> Worker], NEW w \in Workers, NEW pc \in WorkerPc,
         run \in RunRow, GotoSeen(w, pc)
  PROVE  /\ wk' \in [Workers -> Worker]
         /\ wk'[w].pc = pc
         /\ wk'[w].j = wk[w].j
         /\ \A v \in Workers : v # w => wk'[v] = wk[v]
BY ZenonT(40) DEF GotoSeen, Worker, RunRow

LEMMA GotoStopType ==
  ASSUME wk \in [Workers -> Worker], NEW w \in Workers, NEW pc \in WorkerPc,
         run \in RunRow, GotoStop(w, pc)
  PROVE  /\ wk' \in [Workers -> Worker]
         /\ wk'[w].pc = pc
         /\ wk'[w].j = wk[w].j
         /\ wk'[w].to \in {"paused", "cancelled"}
         /\ \A v \in Workers : v # w => wk'[v] = wk[v]
<1>1. StopFor \in {"paused", "cancelled"}
  BY DEF StopFor
<1>2. StopFor \in RunState
  BY <1>1 DEF RunState, Terminal
<1> QED
  BY <1>1, <1>2 DEF GotoStop, Worker, RunRow

LEMMA SettleType ==
  ASSUME wk \in [Workers -> Worker], NEW w \in Workers, NEW pc \in WorkerPc,
         NEW s \in RunState, NEW to \in RunState,
         wk' = [wk EXCEPT ![w] = [@ EXCEPT !.pc = pc, !.seen = s,
                                           !.to = to]]
  PROVE  /\ wk' \in [Workers -> Worker]
         /\ wk'[w].j = wk[w].j
         /\ \A v \in Workers : v # w => wk'[v] = wk[v]
BY DEF Worker

LEMMA RestType ==
  ASSUME wk \in [Workers -> Worker], NEW w \in Workers, Rest(w)
  PROVE  /\ wk' \in [Workers -> Worker]
         /\ wk'[w].pc = "idle"
         /\ \A v \in Workers : v # w => wk'[v] = wk[v]
BY DEF Rest, Resting, Worker, WorkerPc, RunState

LEMMA AckType ==
  ASSUME stream \in [EntryId -> Entry], NEW w \in Workers, Ack(w)
  PROVE  stream' \in [EntryId -> Entry]
BY DEF Ack, Entry

LEMMA AppendType ==
  ASSUME stream \in [EntryId -> Entry], NEW j \in JobId, NEW n \in Nat,
         Append1(j, n)
  PROVE  stream' \in [EntryId -> Entry]
BY DEF Append1, Entry

LEMMA SettledType ==
  ASSUME jobs \in [JobId -> JobRow], NEW j \in JobId, NEW to \in JobState
  PROVE  /\ Settled(j, to) \in [JobId -> JobRow]
         /\ \A i \in JobId :
              /\ Settled(j, to)[i].stage = jobs[i].stage
              /\ Settled(j, to)[i].parent = jobs[i].parent
              /\ Settled(j, to)[i].state =
                   IF i = j /\ jobs[j].state = "running" THEN to
                   ELSE jobs[i].state
BY DEF Settled, JobRow

LEMMA BeatenType ==
  ASSUME jobs \in [JobId -> JobRow], NEW j \in JobId
  PROVE  /\ Beaten(j) \in [JobId -> JobRow]
         /\ \A i \in JobId :
              /\ Beaten(j)[i].stage = jobs[i].stage
              /\ Beaten(j)[i].parent = jobs[i].parent
              /\ Beaten(j)[i].state = jobs[i].state
BY DEF Beaten, JobRow

LEMMA CreateJobType ==
  ASSUME jobs \in [JobId -> JobRow], NEW j \in JobId, NEW stage \in Stages,
         NEW parent \in JobId \cup {0}, CreateJob(j, stage, parent)
  PROVE  /\ jobs' \in [JobId -> JobRow]
         /\ jobs[j].state = "absent"
         /\ jobs'[j].stage = stage
         /\ jobs'[j].state = "queued"
         /\ jobs'[j].parent = parent
         /\ \A i \in JobId : i # j => jobs'[i] = jobs[i]
BY DEF CreateJob, JobRow, JobState

LEMMA ClaimedType ==
  ASSUME jobs \in [JobId -> JobRow], NEW j \in JobId,
         jobs' = [jobs EXCEPT ![j] = [@ EXCEPT !.state = "running", !.leased = TRUE]]
  PROVE  /\ jobs' \in [JobId -> JobRow]
         /\ jobs'[j].stage = jobs[j].stage
         /\ jobs'[j].parent = jobs[j].parent
         /\ \A i \in JobId : i # j => jobs'[i] = jobs[i]
BY DEF JobRow, JobState

(* The winner of the finish goes on to the next job when there is one. *)
LEMMA AfterFinishIs ==
  ASSUME NEW j
  PROVE  /\ AfterFinish(j) \in {"ack", "createNext", "finalize"}
         /\ AfterFinish(j) = "createNext" =>
              jobs[j].state = "running" /\ HasNext(jobs[j].stage)
BY DEF AfterFinish

LEMMA StatesAreStates ==
  /\ Stages \subseteq RunState
  /\ Terminal \subseteq RunState
  /\ "queued" \in RunState /\ "paused" \in RunState
  /\ FirstStage \in Stages
BY FirstStageIsStage DEF RunState

(* A worker that moves on with its job, or rests, is a worker that has one. *)
LEMMA BusyStep ==
  ASSUME TInv, NEW w \in Workers, wk' \in [Workers -> Worker],
         wk'[w].pc # "idle" => wk'[w].j \in JobId,
         \A v \in Workers : v # w => wk'[v] = wk[v],
         UNCHANGED api
  PROVE  BusyHasJob'
BY DEF TInv, BusyHasJob

LEMMA MoveRunPlain ==
  ASSUME run \in RunRow, NEW to \in RunState, MoveRun(to, run.from, run.pause)
  PROVE  run' \in RunRow
BY MoveRunType DEF RunRow

(* Every step of a busy worker keeps the types. *)
LEMMA TInvProceed ==
  ASSUME IInv, NEW w \in Workers, Proceed(w)
  PROVE  TInv'
<1> USE DEF IInv, TInv, TypeOK
<1> DEFINE J == wk[w].j
<1>0. wk[w].pc # "idle" => J \in JobId
  BY DEF BusyHasJob
<1>1. CASE ReadFlags(w)
  <2>1. CASE AckAndRest(w)
    BY <1>1, <2>1, AckType, RestType, BusyStep DEF ReadFlags, AckAndRest
  <2>2. CASE UNCHANGED stream /\ GotoStop(w, "stopEarly")
    BY <1>0, <1>1, <2>2, GotoStopType, BusyStep DEF ReadFlags, WorkerPc
  <2>3. CASE UNCHANGED stream /\ GotoSeen(w, "claim")
    BY <1>0, <1>1, <2>3, GotoSeenType, BusyStep DEF ReadFlags, WorkerPc
  <2> QED
    BY <1>1, <2>1, <2>2, <2>3 DEF ReadFlags
<1>2. CASE Claim(w)
  <2>1. CASE Claimable(J)
    <3>1. wk' \in [Workers -> Worker] /\ wk'[w].j = J
          /\ \A v \in Workers : v # w => wk'[v] = wk[v]
      BY <1>2, <2>1 DEF Claim, Worker, WorkerPc
    <3>2. jobs' \in [JobId -> JobRow]
      BY <1>0, <1>2, <2>1, ClaimedType DEF Claim
    <3> QED
      BY <1>0, <1>2, <2>1, <3>1, <3>2, BusyStep DEF Claim
  <2>2. CASE ~Claimable(J)
    BY <1>2, <2>2, AckType, RestType, BusyStep DEF Claim, AckAndRest
  <2> QED
    BY <2>1, <2>2
<1>3. CASE EnterStage(w)
  <2> DEFINE stage == jobs[J].stage
  <2>0. stage \in Stages /\ stage \in RunState
    BY <1>0, <1>3, StatesAreStates DEF EnterStage, JobRow
  <2>1. CASE Goto(w, "check") /\ UNCHANGED <<run, stream>>
    BY <1>0, <1>3, <2>1, GotoType, BusyStep DEF EnterStage, WorkerPc
  <2>2. CASE MoveRun(stage, run.from, run.pause) /\ Goto(w, "check") /\ UNCHANGED stream
    <3>1. run' \in RunRow
      BY <2>0, <2>2, MoveRunPlain
    <3> QED
      BY <1>0, <1>3, <2>2, <3>1, GotoType, BusyStep DEF EnterStage, WorkerPc
  <2>3. CASE AckAndRest(w) /\ UNCHANGED run
    BY <1>3, <2>3, AckType, RestType, BusyStep DEF EnterStage, AckAndRest
  <2> QED
    BY <1>3, <2>1, <2>2, <2>3 DEF EnterStage
<1>4. CASE Checkpoint(w)
  <2>1. CASE GotoStop(w, "stopCheck") /\ UNCHANGED jobs
    BY <1>0, <1>4, <2>1, GotoStopType, BusyStep DEF Checkpoint, WorkerPc
  <2>2. CASE Goto(w, "work") /\ jobs' = Beaten(J)
    BY <1>0, <1>4, <2>2, GotoType, BeatenType, BusyStep DEF Checkpoint, WorkerPc
  <2> QED
    BY <1>4, <2>1, <2>2 DEF Checkpoint
<1>5. CASE WorkDone(w)
  BY <1>0, <1>5, GotoType, BusyStep DEF WorkDone, WorkerPc
<1>6. CASE StopRun(w)
  <2> DEFINE from == IF wk[w].to = "paused" THEN jobs[J].stage ELSE run.from
  <2>0. J \in JobId /\ wk[w].to \in RunState /\ from \in Stages \cup {"none"}
        /\ run.pause \in BOOLEAN
    BY <1>0, <1>6 DEF StopRun, JobRow, RunRow, Worker
  <2>1. CASE MoveRun(wk[w].to, from, run.pause) /\ Goto(w, "ack")
    <3>1. run' \in RunRow
      BY <2>0, <2>1, MoveRunType
    <3> QED
      BY <1>6, <2>0, <2>1, <3>1, GotoType, BusyStep DEF StopRun, WorkerPc
  <2>2. CASE UNCHANGED run /\ Failed(w, FALSE)
    BY <1>6, <2>0, <2>2, GotoType, BusyStep DEF StopRun, Failed, WorkerPc
  <2>3. CASE UNCHANGED run /\ Rest(w)
    BY <1>6, <2>3, RestType, BusyStep DEF StopRun
  <2> QED
    BY <1>6, <2>1, <2>2, <2>3 DEF StopRun
<1>7. CASE Finish(w)
  <2>1. jobs' \in [JobId -> JobRow]
    BY <1>0, <1>7, SettledType DEF Finish, JobState
  <2>2. PICK pc \in {"ack", "createNext", "finalize"} : GotoSeen(w, pc)
    BY <1>7, AfterFinishIs DEF Finish
  <2> QED
    BY <1>0, <1>7, <2>1, <2>2, GotoSeenType, BusyStep DEF Finish, WorkerPc
<1>8. CASE CreateNext(w)
  <2>1. PICK j \in JobId :
          /\ CreateJob(j, NextStage(jobs[J].stage), J)
          /\ wk' = [wk EXCEPT ![w] = [@ EXCEPT !.pc = "publish", !.j = j,
                                               !.attempts = 0]]
    BY <1>8 DEF CreateNext
  <2>2. wk' \in [Workers -> Worker] /\ wk'[w].j = j
        /\ \A v \in Workers : v # w => wk'[v] = wk[v]
    <3>1. wk' = [wk EXCEPT ![w] = [@ EXCEPT !.pc = "publish", !.j = j,
                                             !.attempts = 0]]
      BY <2>1
    <3> HIDE DEF TypeOK, TInv, IInv
    <3>2. wk \in [Workers -> Worker] /\ j \in JobId \cup {0}
      BY <2>1 DEF TypeOK, TInv, IInv
    <3> QED
      BY <3>1, <3>2, ZenonT(40) DEF Worker, WorkerPc
  <2>3. J \in JobId /\ jobs[J].stage \in Stages
    BY <1>0, <1>8 DEF CreateNext, JobRow
  <2>4. NextStage(jobs[J].stage) \in Stages
    BY <1>8, <2>3, NextStageIsStage DEF CreateNext, WalkInv
  <2>5. jobs' \in [JobId -> JobRow]
    BY <2>1, <2>3, <2>4, CreateJobType
  <2> QED
    BY <1>8, <2>1, <2>2, <2>5, BusyStep DEF CreateNext
<1>9. CASE Publish(w)
  BY <1>0, <1>9, AppendType, GotoType, BusyStep DEF Publish, WorkerPc
<1>10. CASE Finalize(w)
  <2>1. run' \in RunRow
    BY <1>10, MoveRunPlain DEF Finalize, RunState, Terminal
  <2> QED
    BY <1>0, <1>10, <2>1, GotoType, BusyStep DEF Finalize, WorkerPc
<1>11. CASE FailJob(w)
  BY <1>0, <1>11, SettledType, GotoType, BusyStep DEF FailJob, WorkerPc, JobState
<1>12. CASE Reschedule(w)
  <2>1. scheduled' \subseteq Message
    BY <1>0, <1>12 DEF Reschedule, Message, Worker
  <2> QED
    BY <1>0, <1>12, <2>1, GotoType, BusyStep DEF Reschedule, WorkerPc
<1>13. CASE DeadLetter(w)
  BY <1>0, <1>13, GotoType, BusyStep DEF DeadLetter, WorkerPc
<1>14. CASE DeadJob(w)
  BY <1>0, <1>14, SettledType, GotoSeenType, BusyStep DEF DeadJob, WorkerPc, JobState
<1>15. CASE FailRun(w)
  <2>1. run' \in RunRow
    BY <1>15, MoveRunPlain DEF FailRun, RunState, Terminal
  <2> QED
    BY <1>0, <1>15, <2>1, GotoType, BusyStep DEF FailRun, WorkerPc
<1>16. CASE AckDone(w)
  BY <1>16, AckType, RestType, BusyStep DEF AckDone, AckAndRest
<1>17. CASE Promote(w)
  <2>1. wk[w].attempts \in Nat
    BY DEF Worker
  <2> QED
    BY <1>0, <1>17, <2>1, AppendType, RestType, BusyStep DEF Promote
<1>18. CASE ReapFlags(w)
  <2>1. CASE Rest(w)
    BY <1>18, <2>1, RestType, BusyStep DEF ReapFlags
  <2>2. CASE ~Rest(w)
    <3>1. ReapFor \in RunState /\ run.state \in RunState
      BY DEF ReapFor, StopFor, RunState, Terminal, RunRow
    <3>2. wk' = [wk EXCEPT ![w] = [@ EXCEPT !.pc = "reapSettle",
                                     !.seen = run.state, !.to = ReapFor]]
      BY <1>18, <2>2 DEF ReapFlags
    <3>3. wk' \in [Workers -> Worker] /\ wk'[w].j = J
          /\ \A v \in Workers : v # w => wk'[v] = wk[v]
      BY <3>1, <3>2, SettleType DEF WorkerPc
    <3> QED
      BY <1>0, <1>18, <3>3, BusyStep DEF ReapFlags
  <2> QED
    BY <2>1, <2>2
<1>19. CASE ReapSettle(w)
  <2> DEFINE from == IF wk[w].to = "paused" THEN jobs[J].stage ELSE run.from
  <2>0. J \in JobId /\ wk[w].to \in RunState /\ from \in Stages \cup {"none"}
        /\ run.pause \in BOOLEAN
    BY <1>0, <1>19 DEF ReapSettle, JobRow, RunRow, Worker
  <2>1. run' \in RunRow
    <3>1. CASE MoveRun(wk[w].to, from, run.pause)
      BY <2>0, <3>1, MoveRunType
    <3>2. CASE UNCHANGED run
      BY <3>2
    <3> QED
      BY <1>19, <3>1, <3>2 DEF ReapSettle
  <2> QED
    BY <1>19, <2>1, RestType, BusyStep DEF ReapSettle
<1> QED
  BY <1>1, <1>2, <1>3, <1>4, <1>5, <1>6, <1>7, <1>8, <1>9, <1>10, <1>11, <1>12,
     <1>13, <1>14, <1>15, <1>16, <1>17, <1>18, <1>19
     DEF Proceed

(* A message taken is pending. *)
LEMMA PastType ==
  ASSUME NEW kind, Happens(kind)
  PROVE  past' \in Past
BY BoundsAssumption DEF Happens, Past

LEMMA PendingType ==
  ASSUME stream \in [EntryId -> Entry], NEW e \in EntryId,
         stream' = [stream EXCEPT ![e] = [@ EXCEPT !.st = "pending"]]
  PROVE  stream' \in [EntryId -> Entry]
BY DEF Entry

(* An idle worker's pass keeps the types. *)
LEMMA TInvServe ==
  ASSUME IInv, NEW w \in Workers, Serve(w)
  PROVE  TInv'
<1> USE DEF IInv, TInv, TypeOK
<1>1. CASE \E j \in JobId : ReapJob(w, j)
  <2>1. PICK j \in JobId : ReapJob(w, j)
    BY <1>1
  <2>2. jobs' \in [JobId -> JobRow]
    BY <2>1, SettledType DEF ReapJob, JobState
  <2>3. wk' = [wk EXCEPT ![w] = [Resting EXCEPT !.pc = "reapFlags", !.j = j]]
    BY <2>1 DEF ReapJob
  <2>4. /\ wk' \in [Workers -> Worker] /\ wk'[w].j = j
        /\ \A v \in Workers : v # w => wk'[v] = wk[v]
    <3> HIDE DEF IInv, TInv, TypeOK
    <3>1. wk \in [Workers -> Worker]
      BY DEF IInv, TInv, TypeOK
    <3> QED
      BY <2>3, <3>1, StatesAreStates DEF Worker, WorkerPc, Resting
  <2> QED
    BY <2>1, <2>2, <2>4, BusyStep DEF ReapJob
<1>2. CASE \E m \in scheduled : TakeDue(w, m)
  <2>1. PICK m \in scheduled : TakeDue(w, m)
    BY <1>2
  <2>2. m.job \in JobId /\ m.attempts \in Nat
    BY DEF Message
  <2>3. wk' = [wk EXCEPT ![w] = [Resting EXCEPT !.pc = "promote", !.j = m.job,
                                                !.attempts = m.attempts]]
    BY <2>1 DEF TakeDue
  <2>4. /\ wk' \in [Workers -> Worker] /\ wk'[w].j = m.job
        /\ \A v \in Workers : v # w => wk'[v] = wk[v]
    <3> HIDE DEF IInv, TInv, TypeOK
    <3>1. wk \in [Workers -> Worker]
      BY DEF IInv, TInv, TypeOK
    <3> QED
      BY <2>2, <2>3, <3>1, StatesAreStates DEF Worker, WorkerPc, Resting
  <2> QED
    BY <2>1, <2>2, <2>4, BusyStep DEF TakeDue
<1>3. CASE \E e \in EntryId : Reclaim(w, e) \/ Deliver(w, e)
  <2>1. PICK e \in EntryId : Take(w, e)
    BY <1>3 DEF Reclaim, Deliver
  <2>2. stream[e].job \in JobId /\ stream[e].attempts \in Nat /\ "flags" \in WorkerPc
    BY DEF Entry, WorkerPc
  <2>3. stream' \in [EntryId -> Entry]
    BY <2>1, PendingType DEF Take
  <2>4. /\ wk' \in [Workers -> Worker] /\ wk'[w].j = stream[e].job
        /\ \A v \in Workers : v # w => wk'[v] = wk[v]
    <3> DEFINE j == stream[e].job
               n == stream[e].attempts
    <3>1. wk' = [wk EXCEPT ![w] = [Resting EXCEPT !.pc = "flags", !.e = e,
                                     !.j = j, !.attempts = n]]
      BY <2>1 DEF Take
    <3>2. /\ wk \in [Workers -> Worker] /\ e \in EntryId \cup {0}
          /\ j \in JobId /\ n \in Nat
      BY <2>2
    <3>3. /\ wk' \in [Workers -> Worker] /\ wk'[w].j = j
          /\ \A v \in Workers : v # w => wk'[v] = wk[v]
      <4> HIDE DEF TypeOK, TInv, IInv, j, n
      <4> QED
        BY <3>1, <3>2, StatesAreStates DEF Worker, WorkerPc, Resting
    <3> QED
      BY <3>3
  <2> QED
    BY <2>1, <2>2, <2>3, <2>4, BusyStep DEF Take
<1> QED
  BY <1>1, <1>2, <1>3 DEF Serve

(* The other steps of a worker keep them. *)
LEMMA TInvWorker ==
  ASSUME IInv, NEW w \in Workers, WorkerStep(w)
  PROVE  TInv'
<1> USE DEF IInv, TInv, TypeOK
<1>0. wk[w].pc # "idle" => wk[w].j \in JobId
  BY DEF BusyHasJob
<1>1. CASE MidWork(w)
  <2>1. CASE GotoStop(w, "stopWork") /\ UNCHANGED jobs
    BY <1>0, <1>1, <2>1, GotoStopType, BusyStep DEF MidWork, WorkerPc
  <2>2. CASE jobs' = Beaten(wk[w].j) /\ UNCHANGED wk
    BY <1>0, <1>1, <2>2, BeatenType, BusyStep DEF MidWork
  <2> QED
    BY <1>1, <2>1, <2>2 DEF MidWork
<1>2. CASE WorkFails(w)
  <2>1. PICK fatal \in BOOLEAN : Failed(w, fatal)
    BY <1>2 DEF WorkFails
  <2>2. PICK pc \in {"failJob", "dlq"} : Goto(w, pc)
    BY <2>1 DEF Failed
  <2>3. past' \in Past
    BY <1>2, PastType DEF WorkFails
  <2> QED
    BY <1>0, <1>2, <2>2, <2>3, GotoType, BusyStep DEF WorkFails, WorkerPc
<1>3. CASE WorkerCrash(w)
  <2>1. past' \in Past
    BY <1>3, PastType DEF WorkerCrash
  <2> QED
    BY <1>3, <2>1, RestType, BusyStep DEF WorkerCrash
<1> QED
  BY <1>1, <1>2, <1>3, TInvServe, TInvProceed DEF WorkerStep

(* An API process that moves on has a stage, and a job before it publishes. *)
LEMMA TInvApi ==
  ASSUME IInv, NEW a \in Apis, Resume(a) \/ ApiStep(a) \/ ApiCrash(a)
  PROVE  TInv'
<1> USE DEF IInv, TInv, TypeOK
<1>1. ApiResting \in Api /\ ApiResting.pc = "idle"
  BY StatesAreStates DEF ApiResting, Api, ApiPc
<1>2. CASE Resume(a)
  <2> DEFINE stage == IF run.from = "none" THEN FirstStage ELSE run.from
  <2>1. stage \in Stages /\ stage \in RunState /\ run.from \in Stages \cup {"none"}
    BY StatesAreStates DEF RunRow
  <2>2. run' \in RunRow
    BY <1>2, <2>1, MoveRunType DEF Resume
  <2>3. api' \in [Apis -> Api] /\ api'[a].pc = "create"
        /\ \A b \in Apis : b # a => api'[b] = api[b]
    BY <1>2, <2>1 DEF Resume, Api, ApiPc
  <2> QED
    BY <1>2, <2>2, <2>3 DEF Resume, BusyHasJob
<1>3. CASE ApiCreate(a)
  <2>1. PICK j \in JobId :
          /\ CreateJob(j, api[a].stage, 0)
          /\ api' = [api EXCEPT ![a] = [@ EXCEPT !.pc = "publish", !.job = j]]
    BY <1>3 DEF ApiCreate
  <2>2. jobs' \in [JobId -> JobRow]
    BY <2>1, CreateJobType DEF Api
  <2>3. api' \in [Apis -> Api] /\ api'[a].job = j
        /\ \A b \in Apis : b # a => api'[b] = api[b]
    BY <2>1 DEF Api, ApiPc
  <2> QED
    BY <1>3, <2>1, <2>2, <2>3 DEF ApiCreate, BusyHasJob
<1>4. CASE ApiPublish(a)
  <2>1. stream' \in [EntryId -> Entry]
    BY <1>4, AppendType DEF ApiPublish, BusyHasJob
  <2> QED
    BY <1>1, <1>4, <2>1 DEF ApiPublish, BusyHasJob
<1>5. CASE ApiCrash(a)
  <2>1. past' \in Past
    BY <1>5, PastType DEF ApiCrash
  <2> QED
    BY <1>1, <1>5, <2>1 DEF ApiCrash, BusyHasJob
<1> QED
  BY <1>2, <1>3, <1>4, <1>5 DEF ApiStep

(* Every step keeps the types. *)
LEMMA TInvNext ==
  ASSUME IInv, [Next]_vars
  PROVE  TInv'
<1> USE DEF IInv, TInv, TypeOK
<1>1. CASE RequestPause
  <2>1. past' \in Past
    BY <1>1, PastType DEF RequestPause
  <2>2. run' \in RunRow
    <3>1. CASE MoveRun("paused", run.from, TRUE)
      BY <3>1, MoveRunType, StatesAreStates DEF RunRow
    <3>2. CASE run' = [run EXCEPT !.pause = TRUE]
      BY <3>2 DEF RunRow
    <3> QED
      BY <1>1, <3>1, <3>2 DEF RequestPause
  <2> QED
    BY <1>1, <2>1, <2>2 DEF RequestPause, BusyHasJob
<1>2. CASE RequestCancel
  <2>1. run' \in RunRow
    BY <1>2, StatesAreStates DEF RequestCancel, RunRow, RunState, Terminal
  <2> QED
    BY <1>2, <2>1 DEF RequestCancel, BusyHasJob
<1>3. CASE \E j \in JobId : LeaseLapses(j)
  <2>1. PICK j \in JobId : LeaseLapses(j)
    BY <1>3
  <2>2. jobs' = [jobs EXCEPT ![j] = [@ EXCEPT !.leased = FALSE]]
    BY <2>1 DEF LeaseLapses
  <2>3. jobs \in [JobId -> JobRow]
    OBVIOUS
  <2>4. jobs' \in [JobId -> JobRow]
    <3> HIDE DEF TypeOK, TInv, IInv
    <3> QED
      BY <2>2, <2>3 DEF JobRow
  <2>5. past' \in Past
    BY <2>1, PastType DEF LeaseLapses
  <2> QED
    BY <2>1, <2>4, <2>5 DEF LeaseLapses, BusyHasJob
<1>4. CASE UNCHANGED vars
  BY <1>4 DEF vars, BusyHasJob
<1> QED
  BY <1>1, <1>2, <1>3, <1>4, TInvApi, TInvWorker DEF Next
-----------------------------------------------------------------------------
(* What every step but Finish and CreateNext does to the walk: nothing.  The
   rows keep their stage and parent once inserted, the settled ones their
   state, and no worker comes to the point of creating a job.              *)
JobsSteady ==
  \A i \in JobId :
    /\ jobs'[i].parent \in {0, jobs[i].parent}
    /\ jobs[i].state # "absent" => jobs'[i].stage = jobs[i].stage
    /\ jobs[i].state \in {"succeeded", "dead"} => jobs'[i].state = jobs[i].state

WorkersSteady ==
  \A v \in Workers : wk'[v].pc = "createNext" => wk'[v] = wk[v]

LEMMA SteadyKeepsWalk ==
  ASSUME IInv, TInv', JobsSteady, WorkersSteady
  PROVE  WalkInv'
<1> USE DEF IInv, TInv, TypeOK
<1>0. \A i \in JobId : jobs[i].parent \in JobId \cup {0} /\ jobs'[i].parent \in JobId \cup {0}
  BY DEF JobRow
<1>1. ASSUME NEW w \in Workers, wk'[w].pc = "createNext"
      PROVE  /\ jobs'[wk'[w].j].state = "succeeded"
             /\ HasNext(jobs'[wk'[w].j].stage)
             /\ \A k \in JobId : jobs'[k].parent # wk'[w].j
  <2>1. wk'[w] = wk[w] /\ wk[w].pc = "createNext" /\ wk[w].j \in JobId
    BY <1>1 DEF WorkersSteady, BusyHasJob
  <2>2. wk[w].j # 0
    BY <2>1 DEF JobId
  <2>3. jobs[wk[w].j].state = "succeeded" /\ HasNext(jobs[wk[w].j].stage)
        /\ \A k \in JobId : jobs[k].parent # wk[w].j
    BY <2>1 DEF WalkInv
  <2> QED
    BY <2>1, <2>2, <2>3 DEF JobsSteady
<1>2. ASSUME NEW v \in Workers, NEW w \in Workers, wk'[v].pc = "createNext",
             wk'[w].pc = "createNext", wk'[v].j = wk'[w].j
      PROVE  v = w
  BY <1>2 DEF WorkersSteady, WalkInv
<1>3. ASSUME NEW k \in JobId, jobs'[k].parent # 0
      PROVE  jobs'[jobs'[k].parent].state = "succeeded"
  BY <1>0, <1>3 DEF JobsSteady, WalkInv
<1>4. AdvancesOnce'
  BY DEF JobsSteady, WalkInv, AdvancesOnce
<1> QED
  BY <1>1, <1>2, <1>3, <1>4 DEF WalkInv, HasNext, IndexOf

(* The helpers that change a job leave the rest of the table steady. *)
LEMMA SettledSteady ==
  ASSUME TInv, NEW j \in JobId, NEW to \in JobState, jobs' = Settled(j, to)
  PROVE  JobsSteady
BY SettledType DEF TInv, TypeOK, JobsSteady

LEMMA BeatenSteady ==
  ASSUME TInv, NEW j \in JobId, jobs' = Beaten(j)
  PROVE  JobsSteady
BY BeatenType DEF TInv, TypeOK, JobsSteady

LEMMA SameSteady ==
  ASSUME UNCHANGED jobs
  PROVE  JobsSteady
BY DEF JobsSteady

LEMMA OneWorkerSteady ==
  ASSUME NEW w \in Workers, wk'[w].pc # "createNext",
         \A v \in Workers : v # w => wk'[v] = wk[v]
  PROVE  WorkersSteady
BY DEF WorkersSteady

(* The helpers that move a worker, to anywhere but the creation of a job. *)
LEMMA MovesSteady ==
  ASSUME TInv, NEW w \in Workers, NEW pc \in WorkerPc \ {"createNext"},
         Goto(w, pc) \/ GotoSeen(w, pc) \/ GotoStop(w, pc) \/ Rest(w)
  PROVE  WorkersSteady
BY GotoType, GotoSeenType, GotoStopType, RestType, OneWorkerSteady DEF TInv, TypeOK

(* Apart from those two actions a busy worker leaves the walk alone. *)
LEMMA ProceedSteady ==
  ASSUME IInv, NEW w \in Workers, Proceed(w)
  PROVE  (JobsSteady /\ WorkersSteady) \/ Finish(w) \/ CreateNext(w)
<1> USE DEF IInv
<1> DEFINE J == wk[w].j
<1>0. wk[w].pc # "idle" => J \in JobId
  BY DEF TInv, BusyHasJob
<1>1. CASE ReadFlags(w)
  BY <1>1, MovesSteady, SameSteady DEF ReadFlags, AckAndRest, WorkerPc
<1>2. CASE Claim(w)
  <2>1. CASE Claimable(J)
    <3>1. J \in JobId /\ jobs \in [JobId -> JobRow] /\ wk \in [Workers -> Worker]
      BY <1>0, <1>2 DEF Claim, TInv, TypeOK
    <3>2. jobs' = [jobs EXCEPT ![J] = [@ EXCEPT !.state = "running", !.leased = TRUE]]
          /\ wk' = [wk EXCEPT ![w] = [@ EXCEPT !.pc = "enter"]]
      BY <1>2, <2>1 DEF Claim
    <3>3. jobs[J].state \notin {"succeeded", "dead"}
      BY <2>1 DEF Claimable
    <3>4. JobsSteady
      BY <3>1, <3>2, <3>3, ClaimedType DEF JobsSteady
    <3>5. WorkersSteady
      BY <3>1, <3>2 DEF WorkersSteady, Worker
    <3> QED
      BY <3>4, <3>5
  <2>2. CASE ~Claimable(J)
    BY <1>2, <2>2, MovesSteady, SameSteady DEF Claim, AckAndRest, WorkerPc
  <2> QED
    BY <2>1, <2>2
<1>3. CASE EnterStage(w)
  BY <1>3, MovesSteady, SameSteady DEF EnterStage, AckAndRest, WorkerPc
<1>4. CASE Checkpoint(w)
  BY <1>0, <1>4, MovesSteady, SameSteady, BeatenSteady DEF Checkpoint, WorkerPc
<1>5. CASE WorkDone(w)
  BY <1>5, MovesSteady, SameSteady DEF WorkDone, WorkerPc
<1>6. CASE StopRun(w)
  BY <1>6, MovesSteady, SameSteady DEF StopRun, Failed, WorkerPc
<1>7. CASE Publish(w)
  BY <1>7, MovesSteady, SameSteady DEF Publish, WorkerPc
<1>8. CASE Finalize(w)
  BY <1>8, MovesSteady, SameSteady DEF Finalize, WorkerPc
<1>9. CASE FailJob(w)
  BY <1>0, <1>9, MovesSteady, SettledSteady DEF FailJob, WorkerPc, JobState
<1>10. CASE Reschedule(w)
  BY <1>10, MovesSteady, SameSteady DEF Reschedule, WorkerPc
<1>11. CASE DeadLetter(w)
  BY <1>11, MovesSteady, SameSteady DEF DeadLetter, WorkerPc
<1>12. CASE DeadJob(w)
  BY <1>0, <1>12, MovesSteady, SettledSteady DEF DeadJob, WorkerPc, JobState
<1>13. CASE FailRun(w)
  BY <1>13, MovesSteady, SameSteady DEF FailRun, WorkerPc
<1>14. CASE AckDone(w)
  BY <1>14, MovesSteady, SameSteady DEF AckDone, AckAndRest, WorkerPc
<1>15. CASE Promote(w)
  BY <1>15, MovesSteady, SameSteady DEF Promote, WorkerPc
<1>16. CASE ReapFlags(w)
  <2>1. CASE Rest(w)
    BY <1>16, <2>1, MovesSteady, SameSteady DEF ReapFlags, WorkerPc
  <2>2. CASE ~Rest(w)
    <3>1. wk' = [wk EXCEPT ![w] = [@ EXCEPT !.pc = "reapSettle",
                                     !.seen = run.state, !.to = ReapFor]]
      BY <1>16, <2>2 DEF ReapFlags
    <3>2. WorkersSteady
      BY <3>1 DEF WorkersSteady, TInv, TypeOK, Worker
    <3> QED
      BY <1>16, <3>2, SameSteady DEF ReapFlags
  <2> QED
    BY <2>1, <2>2
<1>17. CASE ReapSettle(w)
  BY <1>17, MovesSteady, SameSteady DEF ReapSettle, WorkerPc
<1> QED
  BY <1>1, <1>2, <1>3, <1>4, <1>5, <1>6, <1>7, <1>8, <1>9, <1>10, <1>11, <1>12,
     <1>13, <1>14, <1>15, <1>16, <1>17
     DEF Proceed

(* And so do an idle worker, a failing or dying one, and everybody else. *)
LEMMA NextSteady ==
  ASSUME IInv, [Next]_vars
  PROVE  \/ JobsSteady /\ WorkersSteady
         \/ \E w \in Workers : Finish(w) \/ CreateNext(w)
<1> USE DEF IInv
<1>1. ASSUME NEW w \in Workers, Serve(w) PROVE JobsSteady /\ WorkersSteady
  <2>1. ASSUME NEW j \in JobId, ReapJob(w, j) PROVE JobsSteady /\ WorkersSteady
    <3>1. JobsSteady
      BY <2>1, SettledSteady DEF ReapJob, JobState
    <3>2. WorkersSteady
      BY <2>1 DEF ReapJob, WorkersSteady, TInv, TypeOK, Resting
    <3> QED
      BY <3>1, <3>2
  <2>2. ASSUME NEW m \in scheduled, TakeDue(w, m) PROVE JobsSteady /\ WorkersSteady
    BY <2>2, SameSteady DEF TakeDue, WorkersSteady, TInv, TypeOK, Resting
  <2>3. ASSUME NEW e \in EntryId, Take(w, e) PROVE JobsSteady /\ WorkersSteady
    BY <2>3, SameSteady DEF Take, WorkersSteady, TInv, TypeOK, Resting
  <2> QED
    BY <1>1, <2>1, <2>2, <2>3 DEF Serve, Reclaim, Deliver
<1>2. ASSUME NEW w \in Workers, MidWork(w) PROVE JobsSteady /\ WorkersSteady
  <2>1. wk[w].j \in JobId
    BY <1>2 DEF MidWork, TInv, BusyHasJob
  <2>2. CASE UNCHANGED wk
    BY <1>2, <2>1, <2>2, BeatenSteady, SameSteady DEF MidWork, WorkersSteady
  <2>3. CASE GotoStop(w, "stopWork") /\ UNCHANGED jobs
    BY <2>3, MovesSteady, SameSteady DEF WorkerPc
  <2> QED
    BY <1>2, <2>2, <2>3 DEF MidWork
<1>3. ASSUME NEW w \in Workers, WorkFails(w) \/ WorkerCrash(w)
      PROVE  JobsSteady /\ WorkersSteady
  BY <1>3, MovesSteady, SameSteady DEF WorkFails, WorkerCrash, Failed, WorkerPc
<1>4. ASSUME NEW a \in Apis, ApiCreate(a) PROVE JobsSteady /\ WorkersSteady
  <2>1. PICK j \in JobId : CreateJob(j, api[a].stage, 0)
    BY <1>4 DEF ApiCreate
  <2>2. JobsSteady
    BY <2>1, CreateJobType DEF TInv, TypeOK, Api, JobsSteady
  <2> QED
    BY <1>4, <2>2 DEF ApiCreate, WorkersSteady
<1>5. ASSUME NEW a \in Apis, Resume(a) \/ ApiPublish(a) \/ ApiCrash(a)
      PROVE  JobsSteady /\ WorkersSteady
  BY <1>5, SameSteady DEF Resume, ApiPublish, ApiCrash, WorkersSteady
<1>6. ASSUME RequestPause \/ RequestCancel \/ UNCHANGED vars
      PROVE  JobsSteady /\ WorkersSteady
  BY <1>6, SameSteady DEF RequestPause, RequestCancel, vars, WorkersSteady
<1>7. ASSUME NEW j \in JobId, LeaseLapses(j) PROVE JobsSteady /\ WorkersSteady
  <2>1. jobs' = [jobs EXCEPT ![j] = [@ EXCEPT !.leased = FALSE]]
    BY <1>7 DEF LeaseLapses
  <2>2. jobs \in [JobId -> JobRow]
    BY DEF TInv, TypeOK
  <2>3. JobsSteady
    BY <2>1, <2>2 DEF JobsSteady, JobRow
  <2> QED
    BY <1>7, <2>3 DEF LeaseLapses, WorkersSteady
<1> QED
  BY <1>1, <1>2, <1>3, <1>4, <1>5, <1>6, <1>7, ProceedSteady
     DEF Next, WorkerStep, ApiStep
-----------------------------------------------------------------------------
(* Finish moves the token: the job that succeeds was running, so it has no
   child and nobody else is about to give it one.                          *)
LEMMA FinishKeepsWalk ==
  ASSUME IInv, TInv', NEW w \in Workers, Finish(w)
  PROVE  WalkInv'
<1> DEFINE J == wk[w].j
<1>0. /\ J \in JobId /\ J # 0
      /\ jobs \in [JobId -> JobRow] /\ wk \in [Workers -> Worker] /\ run \in RunRow
  BY DEF Finish, IInv, TInv, TypeOK, BusyHasJob, JobId
<1>1. \A i \in JobId : /\ jobs'[i].stage = jobs[i].stage
                       /\ jobs'[i].parent = jobs[i].parent
                       /\ jobs'[i].state =
                            IF i = J /\ jobs[J].state = "running" THEN "succeeded"
                            ELSE jobs[i].state
  BY <1>0, SettledType DEF Finish, JobState
<1>2. PICK pc \in {"ack", "createNext", "finalize"} :
        /\ GotoSeen(w, pc)
        /\ pc = "createNext" => jobs[J].state = "running" /\ HasNext(jobs[J].stage)
  BY AfterFinishIs DEF Finish
<1>3. /\ wk'[w].pc = pc /\ wk'[w].j = J
      /\ \A v \in Workers : v # w => wk'[v] = wk[v]
  BY <1>0, <1>2, GotoSeenType DEF WorkerPc
<1>4. CASE pc # "createNext"
  <2>1. WorkersSteady
    BY <1>3, <1>4, OneWorkerSteady
  <2>2. JobsSteady
    BY <1>0, SettledSteady DEF IInv, Finish, JobState
  <2> QED
    BY <2>1, <2>2, SteadyKeepsWalk
<1>5. CASE pc = "createNext"
  <2>1. /\ jobs[J].state = "running" /\ HasNext(jobs[J].stage)
        /\ \A k \in JobId : jobs[k].parent # J
        /\ \A v \in Workers : wk[v].pc = "createNext" => wk[v].j # J
    BY <1>0, <1>2, <1>5 DEF IInv, WalkInv
  <2>2. ASSUME NEW v \in Workers, wk'[v].pc = "createNext"
        PROVE  /\ jobs'[wk'[v].j].state = "succeeded"
               /\ HasNext(jobs'[wk'[v].j].stage)
               /\ \A k \in JobId : jobs'[k].parent # wk'[v].j
    <3>1. CASE v = w
      BY <1>0, <1>1, <1>3, <2>1, <3>1
    <3>2. CASE v # w
      <4>1. wk'[v] = wk[v] /\ wk[v].pc = "createNext" /\ wk[v].j \in JobId
        BY <1>3, <2>2, <3>2 DEF IInv, TInv, BusyHasJob
      <4> QED
        BY <1>1, <4>1 DEF IInv, WalkInv
    <3> QED
      BY <3>1, <3>2
  <2>3. ASSUME NEW v \in Workers, NEW u \in Workers, wk'[v].pc = "createNext",
               wk'[u].pc = "createNext", wk'[v].j = wk'[u].j
        PROVE  v = u
    BY <1>3, <2>1, <2>3 DEF IInv, WalkInv
  <2>4. ASSUME NEW k \in JobId, jobs'[k].parent # 0
        PROVE  jobs'[jobs'[k].parent].state = "succeeded"
    <3>1. jobs[k].parent \in JobId /\ jobs'[k].parent = jobs[k].parent
      BY <1>0, <1>1, <2>4 DEF JobRow
    <3> QED
      BY <1>1, <2>4, <3>1 DEF IInv, WalkInv
  <2>5. AdvancesOnce'
    BY <1>1 DEF IInv, WalkInv, AdvancesOnce
  <2> QED
    BY <2>2, <2>3, <2>4, <2>5 DEF WalkInv, HasNext, IndexOf
<1> QED
  BY <1>4, <1>5

(* CreateNext spends it: the worker's job gets its one child. *)
LEMMA CreateNextKeepsWalk ==
  ASSUME IInv, TInv', NEW w \in Workers, CreateNext(w)
  PROVE  WalkInv'
<1> DEFINE J == wk[w].j
<1>0. /\ J \in JobId /\ J # 0
      /\ jobs \in [JobId -> JobRow] /\ wk \in [Workers -> Worker]
  BY DEF CreateNext, IInv, TInv, TypeOK, BusyHasJob, JobId
<1>1. /\ jobs[J].state = "succeeded" /\ HasNext(jobs[J].stage)
      /\ \A k \in JobId : jobs[k].parent # J
      /\ \A v \in Workers : wk[v].pc = "createNext" /\ v # w => wk[v].j # J
  BY DEF IInv, WalkInv, CreateNext
<1>2. PICK j \in JobId :
        /\ CreateJob(j, NextStage(jobs[J].stage), J)
        /\ wk' = [wk EXCEPT ![w] = [@ EXCEPT !.pc = "publish", !.j = j,
                                             !.attempts = 0]]
  BY DEF CreateNext
<1>3. NextStage(jobs[J].stage) \in Stages
  BY <1>0, <1>1, NextStageIsStage DEF JobRow
<1>4. /\ jobs[j].state = "absent" /\ jobs'[j].parent = J
      /\ \A i \in JobId : i # j => jobs'[i] = jobs[i]
  BY <1>0, <1>2, <1>3, CreateJobType
<1>5. wk'[w].pc = "publish" /\ \A v \in Workers : v # w => wk'[v] = wk[v]
  BY <1>0, <1>2 DEF Worker
<1>6. ASSUME NEW v \in Workers, wk'[v].pc = "createNext"
      PROVE  /\ jobs'[wk'[v].j].state = "succeeded"
             /\ HasNext(jobs'[wk'[v].j].stage)
             /\ \A k \in JobId : jobs'[k].parent # wk'[v].j
  <2>1. v # w /\ wk'[v] = wk[v] /\ wk[v].pc = "createNext" /\ wk[v].j \in JobId
    BY <1>5, <1>6 DEF IInv, TInv, BusyHasJob
  <2>2. /\ jobs[wk[v].j].state = "succeeded" /\ HasNext(jobs[wk[v].j].stage)
        /\ \A k \in JobId : jobs[k].parent # wk[v].j
    BY <2>1 DEF IInv, WalkInv
  <2>3. wk[v].j # j /\ wk[v].j # J
    BY <1>1, <1>4, <2>1, <2>2
  <2> QED
    BY <1>4, <2>1, <2>2, <2>3
<1>7. ASSUME NEW v \in Workers, NEW u \in Workers, wk'[v].pc = "createNext",
             wk'[u].pc = "createNext", wk'[v].j = wk'[u].j
      PROVE  v = u
  BY <1>5, <1>7 DEF IInv, WalkInv
<1>8. ASSUME NEW k \in JobId, jobs'[k].parent # 0
      PROVE  jobs'[jobs'[k].parent].state = "succeeded"
  <2>1. CASE k = j
    BY <1>0, <1>1, <1>4, <2>1
  <2>2. CASE k # j
    <3>1. jobs'[k].parent = jobs[k].parent /\ jobs[k].parent \in JobId
      BY <1>0, <1>4, <1>8, <2>2 DEF JobRow
    <3>2. jobs[jobs[k].parent].state = "succeeded"
      BY <1>8, <3>1 DEF IInv, WalkInv
    <3> QED
      BY <1>4, <3>1, <3>2
  <2> QED
    BY <2>1, <2>2
<1>9. AdvancesOnce'
  BY <1>1, <1>4 DEF IInv, WalkInv, AdvancesOnce
<1> QED
  BY <1>6, <1>7, <1>8, <1>9 DEF WalkInv, HasNext, IndexOf

LEMMA InitIInv ==
  ASSUME Init
  PROVE  IInv
<1>1. run \in RunRow
  BY StatesAreStates DEF Init, RunRow
<1>2. jobs \in [JobId -> JobRow]
  BY StatesAreStates DEF Init, JobRow
<1>3. stream \in [EntryId -> Entry]
  BY BoundsAssumption DEF Init, Entry, JobId
<1>4. wk \in [Workers -> Worker]
  BY StatesAreStates DEF Init, Resting, Worker, WorkerPc
<1>5. api \in [Apis -> Api] /\ \A a \in Apis : api[a].pc # "publish"
  BY StatesAreStates DEF Init, ApiResting, Api, ApiPc
<1>6. past \in Past
  BY DEF Init, Past
<1>7. scheduled \subseteq Message /\ dlq \subseteq JobId
  BY DEF Init
<1>8. /\ \A w \in Workers : wk[w].pc = "idle"
      /\ \A j \in JobId : jobs[j].parent = 0
  BY DEF Init, Resting
<1>9. TInv
  BY <1>1, <1>2, <1>3, <1>4, <1>5, <1>6, <1>7, <1>8 DEF TInv, TypeOK, BusyHasJob
<1> QED
  BY <1>8, <1>9 DEF IInv, WalkInv, AdvancesOnce

LEMMA NextIInv ==
  ASSUME IInv, [Next]_vars
  PROVE  IInv'
<1>1. TInv'
  BY TInvNext
<1>2. WalkInv'
  BY <1>1, NextSteady, SteadyKeepsWalk, FinishKeepsWalk, CreateNextKeepsWalk
<1> QED
  BY <1>1, <1>2 DEF IInv

(* The inductive invariant of the pipeline. *)
THEOREM Inductive == Spec => []IInv
BY InitIInv, NextIInv, PTL DEF Spec

(* Every variable keeps its type, in particular no message is published for
   a job that was not created, and no row is written from an unset field.   *)
THEOREM TypeCorrect == Spec => []TypeOK
<1>1. IInv => TypeOK
  BY DEF IInv, TInv
<1> QED
  BY <1>1, Inductive, PTL

(* A finished job is followed by at most one next job: redelivered messages,
   reclaimed jobs and lapsed leases never make a run advance twice from it.  *)
THEOREM AdvancesAtMostOnce == Spec => []AdvancesOnce
<1>1. IInv => AdvancesOnce
  BY DEF IInv, WalkInv
<1> QED
  BY <1>1, Inductive, PTL

(* A job that has succeeded or is dead keeps its state. *)
SettledStay == \A j \in JobId : jobs[j].state \in {"succeeded", "dead"}
                                  => jobs'[j].state = jobs[j].state

LEMMA NextSettled ==
  ASSUME IInv, [Next]_vars
  PROVE  SettledStay
<1>1. CASE JobsSteady
  BY <1>1 DEF JobsSteady, SettledStay
<1>2. ASSUME NEW w \in Workers, Finish(w) PROVE SettledStay
  BY <1>2, SettledType
     DEF Finish, IInv, TInv, TypeOK, BusyHasJob, JobState, SettledStay
<1>3. ASSUME NEW w \in Workers, CreateNext(w) PROVE SettledStay
  <2>1. PICK j \in JobId : CreateJob(j, NextStage(jobs[wk[w].j].stage), wk[w].j)
    BY <1>3 DEF CreateNext
  <2> QED
    BY <2>1 DEF CreateJob, IInv, TInv, TypeOK, SettledStay
<1> QED
  BY <1>1, <1>2, <1>3, NextSteady

(* No step changes the state of a job that has succeeded or is dead. *)
THEOREM SettledForGood == Spec => SettledJobsStay
<1>1. IInv /\ [Next]_vars => [SettledStay]_vars
  BY NextSettled
<1> QED
  BY <1>1, Inductive, PTL DEF Spec, SettledJobsStay, SettledStay
-----------------------------------------------------------------------------
(* The claim is exclusive: the lease a live holder renews is what keeps
   everybody else away.                                                      *)
Held(rows, j) == rows[j].state = "running" /\ rows[j].leased

(* While no lease has lapsed in live hands, a job that is being worked on is
   running on a good lease, so it cannot be claimed again, and it has one
   holder, so nobody else settles it.                                       *)
ClaimInv ==
  past.lapses = 0 =>
    /\ \A w \in Workers : wk[w].pc \in Holding => Held(jobs, wk[w].j)
    /\ ExclusiveClaim

(* What every step but a claim does: nobody comes to hold a job, and a job
   that is still held has kept its lease.                                   *)
HoldersStay ==
  \A w \in Workers :
    wk'[w].pc \in Holding => wk[w].pc \in Holding /\ wk'[w].j = wk[w].j

LeasesStay ==
  past'.lapses = 0 =>
    /\ past.lapses = 0
    /\ \A w \in Workers : wk'[w].pc \in Holding /\ Held(jobs, wk[w].j) => Held(jobs', wk[w].j)

ClaimSteady == HoldersStay /\ (ClaimInv => LeasesStay)

LEMMA HoldersHaveJobs ==
  ASSUME TInv, NEW w \in Workers, wk[w].pc \in Holding
  PROVE  wk[w].j \in JobId
BY DEF TInv, BusyHasJob, Holding

LEMMA SteadyKeepsClaim ==
  ASSUME TInv, ClaimInv, HoldersStay, LeasesStay
  PROVE  ClaimInv'
<1> SUFFICES ASSUME past'.lapses = 0
             PROVE  /\ \A w \in Workers : wk'[w].pc \in Holding => Held(jobs', wk'[w].j)
                    /\ ExclusiveClaim'
  BY DEF ClaimInv
<1>1. past.lapses = 0
  BY DEF LeasesStay
<1>2. ASSUME NEW w \in Workers, wk'[w].pc \in Holding PROVE Held(jobs', wk'[w].j)
  <2>1. wk[w].pc \in Holding /\ wk'[w].j = wk[w].j
    BY <1>2 DEF HoldersStay
  <2>2. Held(jobs, wk[w].j)
    BY <1>1, <2>1 DEF ClaimInv
  <2>3. Held(jobs', wk[w].j)
    BY <1>2, <2>2 DEF LeasesStay
  <2> QED
    BY <2>1, <2>3 DEF Held
<1>3. ExclusiveClaim'
  BY <1>1 DEF ClaimInv, ExclusiveClaim, Holds, HoldersStay
<1> QED
  BY <1>2, <1>3

(* A step that moves one worker, to where it holds nothing new. *)
LEMMA MoveStays ==
  ASSUME TInv, NEW w \in Workers, NEW pc \in WorkerPc,
         Goto(w, pc) \/ GotoSeen(w, pc) \/ GotoStop(w, pc) \/ (Rest(w) /\ pc = "idle"),
         pc \in Holding => wk[w].pc \in Holding
  PROVE  HoldersStay
<1>1. /\ wk'[w].pc \in {pc, "idle"}
      /\ wk'[w].pc = pc => wk'[w].j = wk[w].j \/ pc = "idle"
      /\ \A v \in Workers : v # w => wk'[v] = wk[v]
  BY GotoType, GotoSeenType, GotoStopType, RestType DEF TInv, TypeOK
<1>2. "idle" \notin Holding
  BY DEF Holding
<1> QED
  BY <1>1, <1>2 DEF HoldersStay

LEMMA RestStays ==
  ASSUME TInv, NEW w \in Workers, Rest(w)
  PROVE  HoldersStay
BY MoveStays DEF WorkerPc, Holding

LEMMA SameJobsStay ==
  ASSUME UNCHANGED <<jobs, past>>
  PROVE  LeasesStay
BY DEF LeasesStay, Held

LEMMA BeatStays ==
  ASSUME TInv, NEW j \in JobId, jobs' = Beaten(j), UNCHANGED past
  PROVE  LeasesStay
<1>1. \A i \in JobId : Held(jobs, i) => Held(jobs', i)
  BY DEF Held, Beaten, TInv, TypeOK, JobRow
<1>2. \A w \in Workers : wk[w].pc # "idle" => wk[w].j \in JobId
  BY DEF TInv, BusyHasJob
<1> QED
  BY <1>1, <1>2 DEF LeasesStay, Beaten, Held

(* A holder that settles its job lets go of it in the same step; while leases
   hold nobody else has that job.                                           *)
LEMMA SettleStays ==
  ASSUME TInv, ClaimInv, NEW w \in Workers, wk[w].pc \in Holding,
         NEW to \in JobState, jobs' = Settled(wk[w].j, to), UNCHANGED past,
         wk'[w].pc \notin Holding, HoldersStay
  PROVE  LeasesStay
<1> SUFFICES ASSUME past.lapses = 0, NEW v \in Workers,
                    wk'[v].pc \in Holding, Held(jobs, wk[v].j)
             PROVE  Held(jobs', wk[v].j)
  BY DEF LeasesStay
<1>1. wk[v].pc \in Holding /\ wk[v].j \in JobId /\ v # w
  BY HoldersHaveJobs DEF HoldersStay
<1>2. wk[v].j # wk[w].j
  BY <1>1 DEF ClaimInv, ExclusiveClaim, Holds
<1>3. wk[w].j \in JobId /\ jobs \in [JobId -> JobRow]
  BY HoldersHaveJobs DEF TInv, TypeOK
<1>4. jobs'[wk[v].j] = jobs[wk[v].j]
  BY <1>1, <1>2, <1>3 DEF Settled
<1> QED
  BY <1>4 DEF Held

(* Inserting a row leaves every row there is alone. *)
LEMMA CreateStays ==
  ASSUME TInv, NEW j \in JobId, NEW stage \in Stages, NEW parent \in JobId \cup {0},
         CreateJob(j, stage, parent), UNCHANGED past, HoldersStay
  PROVE  LeasesStay
<1>1. jobs[j].state = "absent" /\ \A i \in JobId : i # j => jobs'[i] = jobs[i]
  BY CreateJobType DEF TInv, TypeOK
<1>2. \A w \in Workers : wk'[w].pc \in Holding => wk[w].j \in JobId
  BY HoldersHaveJobs DEF HoldersStay
<1> QED
  BY <1>1, <1>2 DEF LeasesStay, Held

(* A busy worker's steps, the claim aside. *)
LEMMA ProceedStays ==
  ASSUME IInv, NEW w \in Workers, Proceed(w)
  PROVE  ClaimSteady \/ Claim(w)
<1> USE DEF IInv, WorkerPc, Holding
<1> DEFINE J == wk[w].j
<1>0. wk[w].pc # "idle" => J \in JobId
  BY DEF TInv, BusyHasJob
<1>1. CASE ReadFlags(w)
  BY <1>1, MoveStays, RestStays, SameJobsStay DEF ReadFlags, AckAndRest, ClaimSteady
<1>2. CASE EnterStage(w)
  BY <1>2, MoveStays, RestStays, SameJobsStay DEF EnterStage, AckAndRest, ClaimSteady
<1>3. CASE Checkpoint(w)
  BY <1>0, <1>3, MoveStays, BeatStays, SameJobsStay DEF Checkpoint, ClaimSteady
<1>4. CASE WorkDone(w)
  BY <1>4, MoveStays, SameJobsStay DEF WorkDone, ClaimSteady
<1>5. CASE StopRun(w)
  BY <1>5, MoveStays, RestStays, SameJobsStay DEF StopRun, Failed, ClaimSteady
<1>6. CASE Finish(w)
  <2>1. PICK pc \in {"ack", "createNext", "finalize"} : GotoSeen(w, pc)
    BY <1>6, AfterFinishIs DEF Finish
  <2>2. HoldersStay
    BY <2>1, MoveStays
  <2>3. wk'[w].pc \notin Holding
    BY <2>1, GotoSeenType DEF TInv, TypeOK
  <2> QED
    BY <1>6, <2>2, <2>3, SettleStays DEF Finish, ClaimSteady, JobState
<1>7. CASE CreateNext(w)
  <2>1. PICK j \in JobId :
          /\ CreateJob(j, NextStage(jobs[J].stage), J)
          /\ wk' = [wk EXCEPT ![w] = [@ EXCEPT !.pc = "publish", !.j = j,
                                               !.attempts = 0]]
    BY <1>7 DEF CreateNext
  <2>2. HoldersStay
    BY <2>1 DEF HoldersStay, TInv, TypeOK, Worker
  <2>3. NextStage(jobs[J].stage) \in Stages
    BY <1>0, <1>7, NextStageIsStage DEF CreateNext, WalkInv, TInv, TypeOK, JobRow
  <2> QED
    BY <1>0, <1>7, <2>1, <2>2, <2>3, CreateStays DEF CreateNext, ClaimSteady
<1>8. CASE Publish(w) \/ Finalize(w) \/ Reschedule(w) \/ FailRun(w)
  BY <1>8, MoveStays, SameJobsStay DEF Publish, Finalize, Reschedule, FailRun, ClaimSteady
<1>9. CASE DeadLetter(w)
  BY <1>9, MoveStays, SameJobsStay DEF DeadLetter, ClaimSteady
<1>10. CASE FailJob(w)
  <2>1. HoldersStay /\ wk'[w].pc \notin Holding
    BY <1>10, MoveStays, GotoType DEF FailJob, TInv, TypeOK
  <2> QED
    BY <1>10, <2>1, SettleStays DEF FailJob, ClaimSteady, JobState
<1>11. CASE DeadJob(w)
  <2>1. HoldersStay /\ wk'[w].pc \notin Holding
    BY <1>11, MoveStays, GotoSeenType DEF DeadJob, TInv, TypeOK
  <2> QED
    BY <1>11, <2>1, SettleStays DEF DeadJob, ClaimSteady, JobState
<1>12. CASE AckDone(w) \/ Promote(w) \/ ReapSettle(w)
  BY <1>12, RestStays, SameJobsStay DEF AckDone, AckAndRest, Promote, ReapSettle, ClaimSteady
<1>13. CASE ReapFlags(w)
  <2>1. HoldersStay
    <3>1. CASE Rest(w)
      BY <3>1, RestStays
    <3>2. CASE ~Rest(w)
      BY <1>13, <3>2, ZenonT(40) DEF ReapFlags, HoldersStay, TInv, TypeOK, Worker
    <3> QED
      BY <3>1, <3>2
  <2> QED
    BY <1>13, <2>1, SameJobsStay DEF ReapFlags, ClaimSteady
<1> QED
  BY <1>1, <1>2, <1>3, <1>4, <1>5, <1>6, <1>7, <1>8, <1>9, <1>10, <1>11, <1>12, <1>13
     DEF Proceed

(* The claim itself: a job on a good lease is not claimable, so the winner is
   its only holder.                                                         *)
LEMMA ClaimKeepsClaim ==
  ASSUME TInv, ClaimInv, NEW w \in Workers, Claim(w)
  PROVE  ClaimInv'
<1> DEFINE J == wk[w].j
<1>0. J \in JobId /\ jobs \in [JobId -> JobRow] /\ wk \in [Workers -> Worker]
  BY DEF Claim, TInv, BusyHasJob, TypeOK
<1>1. CASE Claimable(J)
  <2>1. /\ jobs' = [jobs EXCEPT ![J] = [@ EXCEPT !.state = "running", !.leased = TRUE]]
        /\ wk' = [wk EXCEPT ![w] = [@ EXCEPT !.pc = "enter"]]
        /\ past' = past
    BY <1>1 DEF Claim
  <2>2. Held(jobs', J) /\ \A i \in JobId : i # J => jobs'[i] = jobs[i]
    BY <1>0, <2>1 DEF Held, JobRow
  <2>3. wk'[w].j = J /\ \A v \in Workers : v # w => wk'[v] = wk[v]
    BY <1>0, <2>1 DEF Worker
  <2> SUFFICES ASSUME past.lapses = 0
               PROVE  /\ \A v \in Workers : wk'[v].pc \in Holding => Held(jobs', wk'[v].j)
                      /\ ExclusiveClaim'
    BY <2>1 DEF ClaimInv, Held
  <2>4. ~Held(jobs, J)
    BY <1>1 DEF Claimable, Held
  <2>5. \A v \in Workers : v # w /\ wk[v].pc \in Holding =>
           wk[v].j \in JobId /\ wk[v].j # J /\ Held(jobs, wk[v].j)
    BY <2>4, HoldersHaveJobs DEF ClaimInv
  <2>6. \A v \in Workers : wk'[v].pc \in Holding => Held(jobs', wk'[v].j)
    BY <2>2, <2>3, <2>5 DEF Held
  <2>7. ExclusiveClaim'
    BY <2>3, <2>5 DEF ClaimInv, ExclusiveClaim, Holds
  <2> QED
    BY <2>6, <2>7
<1>2. CASE ~Claimable(J)
  BY <1>2, RestStays, SameJobsStay, SteadyKeepsClaim DEF Claim, AckAndRest
<1> QED
  BY <1>1, <1>2

(* A lapsed lease in live hands is counted, so from then on nothing is claimed
   of the claim; any other lapse is of a job nobody holds.                    *)
LEMMA LapseStays ==
  ASSUME TInv, NEW j \in JobId, LeaseLapses(j)
  PROVE  HoldersStay /\ LeasesStay
<1>1. HoldersStay
  BY DEF LeaseLapses, HoldersStay
<1>2. CASE Happens("lapses")
  <2>1. past.lapses \in Nat /\ past'.lapses = past.lapses + 1
    BY <1>2 DEF Happens, TInv, TypeOK, Past
  <2>2. past'.lapses # 0
    BY <2>1
  <2> QED
    BY <1>1, <2>2 DEF LeasesStay
<1>3. CASE (\A w \in Workers : ~Holds(w, j)) /\ UNCHANGED past
  <2>1. \A w \in Workers : wk'[w].pc \in Holding => wk[w].j # j /\ wk[w].j \in JobId
    BY <1>3, HoldersHaveJobs DEF LeaseLapses, Holds
  <2>2. \A i \in JobId : i # j => jobs'[i] = jobs[i]
    BY DEF LeaseLapses, TInv, TypeOK
  <2>3. LeasesStay
    BY <1>3, <2>1, <2>2 DEF LeasesStay, Held
  <2> QED
    BY <1>1, <2>3
<1> QED
  BY <1>1, <1>2, <1>3 DEF LeaseLapses

(* Everybody else, and an idle worker, leave the holders as they are. *)
LEMMA NextClaim ==
  ASSUME IInv, ClaimInv, [Next]_vars
  PROVE  ClaimInv'
<1> USE DEF IInv
<1>1. ASSUME NEW w \in Workers, Serve(w) PROVE HoldersStay /\ LeasesStay
  <2>1. ASSUME NEW j \in JobId, ReapJob(w, j) PROVE HoldersStay /\ LeasesStay
    <3>1. HoldersStay
      BY <2>1 DEF ReapJob, HoldersStay, Holding, TInv, TypeOK, Resting
    <3>2. jobs' = Settled(j, "dead") /\ ~Held(jobs, j) /\ past' = past
      BY <2>1 DEF ReapJob, Held
    <3>3. \A i \in JobId : i # j => jobs'[i] = jobs[i]
      BY <3>2 DEF Settled, TInv, TypeOK
    <3>4. \A v \in Workers : wk'[v].pc \in Holding => wk[v].j \in JobId
      BY <3>1, HoldersHaveJobs DEF HoldersStay
    <3>5. LeasesStay
      BY <3>2, <3>3, <3>4 DEF LeasesStay, Held
    <3> QED
      BY <3>1, <3>5
  <2>2. ASSUME NEW m \in scheduled, TakeDue(w, m) PROVE HoldersStay /\ LeasesStay
    BY <2>2, SameJobsStay DEF TakeDue, HoldersStay, Holding, TInv, TypeOK, Resting
  <2>3. ASSUME NEW e \in EntryId, Take(w, e) PROVE HoldersStay /\ LeasesStay
    BY <2>3, SameJobsStay DEF Take, HoldersStay, Holding, TInv, TypeOK, Resting
  <2> QED
    BY <1>1, <2>1, <2>2, <2>3 DEF Serve, Reclaim, Deliver
<1>2. ASSUME NEW w \in Workers, MidWork(w) PROVE HoldersStay /\ LeasesStay
  <2>1. wk[w].j \in JobId
    BY <1>2 DEF MidWork, TInv, BusyHasJob
  <2>2. CASE jobs' = Beaten(wk[w].j) /\ UNCHANGED wk
    BY <1>2, <2>1, <2>2, BeatStays DEF MidWork, HoldersStay
  <2>3. CASE GotoStop(w, "stopWork") /\ UNCHANGED jobs
    BY <1>2, <2>3, MoveStays, SameJobsStay DEF MidWork, WorkerPc, Holding
  <2> QED
    BY <1>2, <2>2, <2>3 DEF MidWork
<1>3. ASSUME NEW w \in Workers, WorkFails(w) \/ WorkerCrash(w)
      PROVE  HoldersStay /\ LeasesStay
  <2>1. HoldersStay
    BY <1>3, MoveStays, RestStays DEF WorkFails, WorkerCrash, Failed, WorkerPc, Holding
  <2>2. jobs' = jobs /\ past'.lapses = past.lapses
    BY <1>3 DEF WorkFails, WorkerCrash, Happens, TInv, TypeOK, Past
  <2> QED
    BY <2>1, <2>2 DEF LeasesStay, Held
<1>4. ASSUME NEW a \in Apis, ApiCreate(a) PROVE HoldersStay /\ LeasesStay
  <2>1. PICK j \in JobId : CreateJob(j, api[a].stage, 0)
    BY <1>4 DEF ApiCreate
  <2>2. HoldersStay
    BY <1>4 DEF ApiCreate, HoldersStay
  <2> QED
    BY <1>4, <2>1, <2>2, CreateStays DEF ApiCreate, TInv, TypeOK, Api
<1>5. ASSUME NEW a \in Apis, Resume(a) \/ ApiPublish(a)
      PROVE  HoldersStay /\ LeasesStay
  BY <1>5, SameJobsStay DEF Resume, ApiPublish, HoldersStay
<1>6. ASSUME RequestPause \/ (\E a \in Apis : ApiCrash(a))
      PROVE  HoldersStay /\ LeasesStay
  <2>1. jobs' = jobs /\ wk' = wk /\ past'.lapses = past.lapses
    BY <1>6 DEF RequestPause, ApiCrash, Happens, TInv, TypeOK, Past
  <2> QED
    BY <2>1 DEF HoldersStay, LeasesStay, Held
<1>7. ASSUME RequestCancel \/ UNCHANGED vars PROVE HoldersStay /\ LeasesStay
  BY <1>7, SameJobsStay DEF RequestCancel, vars, HoldersStay
<1>8. ASSUME NEW w \in Workers, Proceed(w) PROVE ClaimInv'
  BY <1>8, ProceedStays, ClaimKeepsClaim, SteadyKeepsClaim DEF ClaimSteady
<1> QED
  BY <1>1, <1>2, <1>3, <1>4, <1>5, <1>6, <1>7, <1>8, LapseStays, SteadyKeepsClaim
     DEF Next, WorkerStep, ApiStep

LEMMA ClaimInductive == Spec => []ClaimInv
<1>1. Init => ClaimInv
  BY DEF Init, ClaimInv, ExclusiveClaim, Holds, Holding, Resting
<1>2. IInv /\ ClaimInv /\ [Next]_vars => ClaimInv'
  BY NextClaim
<1> QED
  BY <1>1, <1>2, Inductive, PTL DEF Spec

(* While no lease lapses in the hands of a live worker, no job has two holders,
   whatever crashes, retries, reclaims and resumptions there are: the gate of
   process_message, for every number of workers.                            *)
THEOREM ClaimIsExclusive == Spec => []ExclusiveClaim
<1>1. ClaimInv => ExclusiveClaim
  BY DEF ClaimInv, ExclusiveClaim
<1> QED
  BY <1>1, ClaimInductive, PTL
-----------------------------------------------------------------------------
(* The order of the stages. *)
LEMMA IndexOfNext ==
  ASSUME NEW s \in Stages, HasNext(s)
  PROVE  IndexOf(NextStage(s)) = IndexOf(s) + 1
<1>1. IndexOf(s) \in 1 .. Len(StageOrder)
  BY IndexOfStage, StageOrderAssumption
<1>2. IndexOf(s) + 1 \in DOMAIN StageOrder
  BY <1>1, StageOrderAssumption DEF HasNext
<1>3. NextStage(s) \in Stages /\ NextStage(s) = StageOrder[IndexOf(s) + 1]
  BY NextStageIsStage DEF NextStage
<1> QED
  BY <1>2, <1>3, IndexOfStage, StageOrderAssumption

LEMMA BeforeNext ==
  ASSUME NEW s \in Stages, HasNext(s)
  PROVE  Before(NextStage(s)) \subseteq Before(s) \cup {s}
<1> SUFFICES ASSUME NEW t \in Stages, IndexOf(t) < IndexOf(NextStage(s)), t # s
             PROVE  IndexOf(t) < IndexOf(s)
  BY DEF Before
<1>1. IndexOf(t) \in Nat /\ IndexOf(s) \in Nat /\ IndexOf(t) # IndexOf(s)
  BY IndexOfStage, StageOrderAssumption
<1> QED
  BY <1>1, IndexOfNext

LEMMA BeforeFirst == Before(FirstStage) = {}
<1>1. IndexOf(FirstStage) = 1
  BY FirstStageIsStage, IndexOfStage, StageOrderAssumption DEF FirstStage
<1>2. \A t \in Stages : IndexOf(t) >= 1
  BY IndexOfStage, StageOrderAssumption
<1> QED
  BY <1>1, <1>2, IndexOfStage, StageOrderAssumption DEF Before

LEMMA LastStage ==
  ASSUME NEW s \in Stages, ~HasNext(s)
  PROVE  Stages \subseteq Before(s) \cup {s}
<1> SUFFICES ASSUME NEW t \in Stages, t # s PROVE IndexOf(t) < IndexOf(s)
  BY DEF Before
<1>1. /\ IndexOf(t) \in 1 .. Len(StageOrder)
      /\ IndexOf(s) \in 1 .. Len(StageOrder)
      /\ IndexOf(t) # IndexOf(s)
  BY IndexOfStage, StageOrderAssumption
<1> QED
  BY <1>1, StageOrderAssumption DEF HasNext
-----------------------------------------------------------------------------
LiveIn(rows, j) == rows[j].state # "absent"

StopAt == {"stopEarly", "stopCheck", "stopWork", "reapSettle"}

(* Whatever names a job names one that was inserted, and a worker's entry is
   one that was added.                                                      *)
LiveInv ==
  /\ \A w \in Workers : wk[w].pc # "idle" => LiveIn(jobs, wk[w].j)
  /\ \A a \in Apis : api[a].pc = "publish" => LiveIn(jobs, api[a].job)
  /\ \A e \in EntryId : stream[e].st # "absent" => LiveIn(jobs, stream[e].job)
  /\ \A m \in scheduled : LiveIn(jobs, m.job)
  /\ \A w \in Workers : wk[w].e \in EntryId => stream[wk[w].e].st # "absent"

(* A job, a stage to resume from and a stage about to be enqueued come after
   stages that are all complete.                                            *)
OrderInv ==
  /\ \A j \in JobId : LiveIn(jobs, j) => Before(jobs[j].stage) \subseteq Completed
  /\ run.from # "none" => Before(run.from) \subseteq Completed
  /\ \A a \in Apis : api[a].pc = "create" => Before(api[a].stage) \subseteq Completed

(* A worker stops the run only to hold it or to end it badly, and finalizes it
   only after the last stage.                                               *)
StopInv ==
  \A w \in Workers :
    /\ wk[w].pc \in StopAt => wk[w].to \in {"paused", "cancelled", "failed"}
    /\ wk[w].pc = "finalize" => /\ jobs[wk[w].j].state = "succeeded"
                                /\ ~HasNext(jobs[wk[w].j].stage)

OInv == LiveInv /\ OrderInv /\ StopInv

(* What a step may do to each of these. *)
RowsGrow ==
  \A k \in JobId :
    /\ LiveIn(jobs, k) => LiveIn(jobs', k) /\ jobs'[k].stage = jobs[k].stage
    /\ jobs[k].state = "succeeded" => jobs'[k].state = "succeeded"

NoneCompletes ==
  \A k \in JobId : jobs'[k].state = "succeeded" => jobs[k].state = "succeeded"

RowsInOrder ==
  \A k \in JobId : LiveIn(jobs', k) /\ ~LiveIn(jobs, k) =>
                     Before(jobs'[k].stage) \subseteq Completed

WorkersRefer ==
  \A v \in Workers :
    /\ wk'[v].pc # "idle" =>
         (wk[v].pc # "idle" /\ wk'[v].j = wk[v].j) \/ LiveIn(jobs', wk'[v].j)
    /\ wk'[v].e \in EntryId =>
         wk'[v].e = wk[v].e \/ stream[wk'[v].e].st # "absent"

StreamRefers ==
  \A e \in EntryId :
    /\ stream[e].st # "absent" => stream'[e].st # "absent"
    /\ stream'[e].st # "absent" =>
         \/ stream[e].st # "absent" /\ stream'[e].job = stream[e].job
         \/ LiveIn(jobs', stream'[e].job)

StopsRefer ==
  \A v \in Workers :
    /\ wk'[v].pc \in StopAt =>
         wk'[v] = wk[v] \/ wk'[v].to \in {"paused", "cancelled", "failed"}
    /\ wk'[v].pc = "finalize" =>
         \/ wk'[v] = wk[v]
         \/ jobs'[wk'[v].j].state = "succeeded" /\ ~HasNext(jobs'[wk'[v].j].stage)

FromInOrder ==
  run'.from # "none" =>
    \/ run'.from = run.from
    \/ \E k \in JobId : LiveIn(jobs, k) /\ run'.from = jobs[k].stage

LEMMA Completing ==
  ASSUME RowsGrow, jobs \in [JobId -> JobRow]
  PROVE  /\ Completed \subseteq Completed'
         /\ NoneCompletes => Completed' = Completed
<1>1. \A k \in JobId : jobs[k].state = "succeeded" =>
         jobs'[k].state = "succeeded" /\ jobs'[k].stage = jobs[k].stage
  BY DEF RowsGrow, LiveIn
<1> QED
  BY <1>1 DEF Completed, NoneCompletes

(* The steps that keep the workers' and the broker's side of it. *)
LEMMA KeepsOrder ==
  ASSUME TInv, OInv, RowsGrow, RowsInOrder, WorkersRefer, StreamRefers, StopsRefer,
         FromInOrder,
         \A m \in scheduled' : m \in scheduled \/ LiveIn(jobs', m.job),
         \A a \in Apis : api'[a].pc = "publish" =>
           api'[a] = api[a] \/ LiveIn(jobs', api'[a].job),
         \A a \in Apis : api'[a].pc = "create" =>
           api'[a] = api[a] \/ Before(api'[a].stage) \subseteq Completed
  PROVE  OInv'
<1>0. /\ jobs \in [JobId -> JobRow]
      /\ \A w \in Workers : wk[w].pc # "idle" => wk[w].j \in JobId
      /\ \A a \in Apis : api[a].pc = "publish" => api[a].job \in JobId
      /\ \A e \in EntryId : stream[e].job \in JobId
      /\ \A m \in scheduled : m.job \in JobId
  BY DEF TInv, TypeOK, BusyHasJob, Entry, Message
<1>1. Completed \subseteq Completed'
  BY <1>0, Completing
<1>2. LiveInv'
  <2>1. \A k \in JobId : LiveIn(jobs, k) => LiveIn(jobs', k)
    BY DEF RowsGrow
  <2>2. \A w \in Workers : wk'[w].pc # "idle" => LiveIn(jobs', wk'[w].j)
    BY <1>0, <2>1 DEF OInv, LiveInv, WorkersRefer
  <2>3. \A a \in Apis : api'[a].pc = "publish" => LiveIn(jobs', api'[a].job)
    BY <1>0, <2>1 DEF OInv, LiveInv
  <2>4. \A e \in EntryId : stream'[e].st # "absent" => LiveIn(jobs', stream'[e].job)
    BY <1>0, <2>1 DEF OInv, LiveInv, StreamRefers
  <2>5. \A m \in scheduled' : LiveIn(jobs', m.job)
    BY <1>0, <2>1 DEF OInv, LiveInv
  <2>6. \A w \in Workers : wk'[w].e \in EntryId => stream'[wk'[w].e].st # "absent"
    BY DEF OInv, LiveInv, WorkersRefer, StreamRefers
  <2> QED
    BY <2>2, <2>3, <2>4, <2>5, <2>6 DEF LiveInv, LiveIn
<1>3. OrderInv'
  <2>1. ASSUME NEW j \in JobId, LiveIn(jobs', j)
        PROVE  Before(jobs'[j].stage) \subseteq Completed'
    <3>1. CASE LiveIn(jobs, j)
      BY <1>1, <3>1 DEF OInv, OrderInv, RowsGrow
    <3>2. CASE ~LiveIn(jobs, j)
      BY <1>1, <2>1, <3>2 DEF RowsInOrder
    <3> QED
      BY <3>1, <3>2
  <2>2. run'.from # "none" => Before(run'.from) \subseteq Completed'
    BY <1>1 DEF OInv, OrderInv, FromInOrder
  <2>3. \A a \in Apis : api'[a].pc = "create" => Before(api'[a].stage) \subseteq Completed'
    BY <1>1 DEF OInv, OrderInv
  <2> QED
    BY <2>1, <2>2, <2>3 DEF OrderInv, LiveIn, Before, IndexOf
<1>4. StopInv'
  <2>1. ASSUME NEW v \in Workers, wk'[v].pc \in StopAt
        PROVE  wk'[v].to \in {"paused", "cancelled", "failed"}
    BY <2>1 DEF OInv, StopInv, StopsRefer
  <2>2. ASSUME NEW v \in Workers, wk'[v].pc = "finalize"
        PROVE  jobs'[wk'[v].j].state = "succeeded" /\ ~HasNext(jobs'[wk'[v].j].stage)
    <3>1. CASE wk'[v] = wk[v]
      <4>1. wk[v].j \in JobId /\ jobs[wk[v].j].state = "succeeded"
            /\ ~HasNext(jobs[wk[v].j].stage)
        BY <1>0, <2>2, <3>1 DEF OInv, StopInv
      <4> QED
        BY <3>1, <4>1 DEF RowsGrow, LiveIn
    <3> QED
      BY <2>2, <3>1 DEF StopsRefer
  <2> QED
    BY <2>1, <2>2 DEF StopInv, HasNext, IndexOf
<1> QED
  BY <1>2, <1>3, <1>4 DEF OInv
-----------------------------------------------------------------------------
(* The rows: everything but an insertion keeps the table as it is, and only
   finish_job(SUCCEEDED) completes a job.                                   *)
RowsKept == RowsGrow /\ NoneCompletes /\ RowsInOrder

LEMMA SameRows == ASSUME UNCHANGED jobs PROVE RowsKept
BY DEF RowsKept, RowsGrow, NoneCompletes, RowsInOrder

LEMMA BeatenRows ==
  ASSUME TInv, NEW j \in JobId, jobs' = Beaten(j)
  PROVE  RowsKept
<1>1. \A i \in JobId : /\ jobs'[i].stage = jobs[i].stage
                       /\ jobs'[i].state = jobs[i].state
  BY BeatenType DEF TInv, TypeOK
<1> QED
  BY <1>1 DEF RowsKept, RowsGrow, NoneCompletes, RowsInOrder, LiveIn

LEMMA SettledRows ==
  ASSUME TInv, NEW j \in JobId, NEW to \in {"failed", "dead"}, jobs' = Settled(j, to)
  PROVE  RowsKept
<1>1. \A i \in JobId : /\ jobs'[i].stage = jobs[i].stage
                       /\ jobs'[i].state =
                            IF i = j /\ jobs[j].state = "running" THEN to
                            ELSE jobs[i].state
  BY SettledType DEF TInv, TypeOK, JobState
<1>2. \A i \in JobId : \/ jobs'[i].state = jobs[i].state
                       \/ jobs[i].state = "running" /\ jobs'[i].state \in {"failed", "dead"}
  BY <1>1
<1> QED
  BY <1>1, <1>2 DEF RowsKept, RowsGrow, NoneCompletes, RowsInOrder, LiveIn

LEMMA ClaimedRows ==
  ASSUME TInv, NEW j \in JobId, Claimable(j),
         jobs' = [jobs EXCEPT ![j] = [@ EXCEPT !.state = "running", !.leased = TRUE]]
  PROVE  RowsKept
<1>1. /\ jobs'[j].stage = jobs[j].stage /\ jobs'[j].state = "running"
      /\ \A i \in JobId : i # j => jobs'[i] = jobs[i]
  BY DEF TInv, TypeOK, JobRow
<1>2. jobs[j].state \notin {"succeeded", "absent"}
  BY DEF Claimable
<1> QED
  BY <1>1, <1>2 DEF RowsKept, RowsGrow, NoneCompletes, RowsInOrder, LiveIn

LEMMA LapsedRows ==
  ASSUME TInv, NEW j \in JobId, jobs' = [jobs EXCEPT ![j] = [@ EXCEPT !.leased = FALSE]]
  PROVE  RowsKept
<1>1. \A i \in JobId : /\ jobs'[i].stage = jobs[i].stage
                       /\ jobs'[i].state = jobs[i].state
  BY DEF TInv, TypeOK, JobRow
<1> QED
  BY <1>1 DEF RowsKept, RowsGrow, NoneCompletes, RowsInOrder, LiveIn

LEMMA CreatedRows ==
  ASSUME TInv, NEW j \in JobId, NEW stage \in Stages, NEW parent \in JobId \cup {0},
         CreateJob(j, stage, parent), Before(stage) \subseteq Completed
  PROVE  RowsKept /\ LiveIn(jobs', j)
BY CreateJobType
   DEF TInv, TypeOK, RowsKept, RowsGrow, NoneCompletes, RowsInOrder, LiveIn

(* The broker: an entry keeps its job, and a new one gets a job that exists. *)
LEMMA SameStream == ASSUME UNCHANGED stream PROVE StreamRefers
BY DEF StreamRefers

LEMMA AckRefers ==
  ASSUME TInv, OInv, NEW w \in Workers, Ack(w)
  PROVE  StreamRefers
<1>1. \A e \in EntryId : e # wk[w].e => stream'[e] = stream[e]
  BY DEF Ack, TInv, TypeOK
<1>2. CASE wk[w].e \in EntryId
  <2>1. /\ stream'[wk[w].e].job = stream[wk[w].e].job
        /\ stream'[wk[w].e].st = "acked" /\ stream[wk[w].e].st # "absent"
    BY <1>2 DEF Ack, TInv, TypeOK, Entry, OInv, LiveInv
  <2> QED
    BY <1>1, <2>1 DEF StreamRefers
<1> QED
  BY <1>1, <1>2 DEF StreamRefers

LEMMA AppendRefers ==
  ASSUME TInv, NEW j \in JobId, NEW n \in Nat, Append1(j, n), LiveIn(jobs', j)
  PROVE  StreamRefers
<1>1. PICK e \in EntryId :
        stream' = [stream EXCEPT ![e] = [job |-> j, attempts |-> n, st |-> "new"]]
  BY DEF Append1
<1>2. /\ stream'[e].job = j /\ stream'[e].st = "new"
      /\ \A d \in EntryId : d # e => stream'[d] = stream[d]
  BY <1>1 DEF TInv, TypeOK
<1> QED
  BY <1>2 DEF StreamRefers

(* A worker that moves on with its job, or rests; it does not come to stop or
   finalize the run unless the step says so.                                *)
LEMMA MoveRefers ==
  ASSUME TInv, NEW w \in Workers, wk[w].pc # "idle",
         NEW pc \in WorkerPc \ (StopAt \cup {"finalize"}),
         Goto(w, pc) \/ GotoSeen(w, pc)
  PROVE  WorkersRefer /\ StopsRefer
<1>1. /\ wk'[w].pc = pc /\ wk'[w].j = wk[w].j /\ wk'[w].e = wk[w].e
      /\ \A v \in Workers : v # w => wk'[v] = wk[v]
  BY ZenonT(40) DEF Goto, GotoSeen, TInv, TypeOK, Worker
<1> QED
  BY <1>1 DEF WorkersRefer, StopsRefer

LEMMA StopRefers ==
  ASSUME TInv, NEW w \in Workers, wk[w].pc # "idle", NEW pc \in StopAt, GotoStop(w, pc)
  PROVE  WorkersRefer /\ StopsRefer
<1>1. /\ wk'[w].pc = pc /\ wk'[w].j = wk[w].j /\ wk'[w].e = wk[w].e
      /\ wk'[w].to \in {"paused", "cancelled"}
      /\ \A v \in Workers : v # w => wk'[v] = wk[v]
  BY DEF GotoStop, StopFor, TInv, TypeOK, Worker
<1> QED
  BY <1>1 DEF WorkersRefer, StopsRefer, StopAt

LEMMA RestRefers ==
  ASSUME TInv, NEW w \in Workers, Rest(w)
  PROVE  WorkersRefer /\ StopsRefer
<1>1. /\ wk'[w].pc = "idle" /\ wk'[w].e \notin EntryId
      /\ \A v \in Workers : v # w => wk'[v] = wk[v]
  BY DEF Rest, Resting, TInv, TypeOK, EntryId
<1> QED
  BY <1>1 DEF WorkersRefer, StopsRefer, StopAt

LEMMA SameWorkers == ASSUME UNCHANGED wk PROVE WorkersRefer /\ StopsRefer
BY DEF WorkersRefer, StopsRefer

LEMMA SameFrom == ASSUME run'.from = run.from PROVE FromInOrder
BY DEF FromInOrder

(* A transition that records the job's stage as the one to come back to. *)
LEMMA StoppedFrom ==
  ASSUME TInv, NEW j \in JobId, LiveIn(jobs, j), NEW to,
         \/ MoveRun(to, IF to = "paused" THEN jobs[j].stage ELSE run.from, run.pause)
         \/ UNCHANGED run
  PROVE  FromInOrder
<1>1. run'.from \in {run.from, jobs[j].stage}
  BY DEF MoveRun, TInv, TypeOK, RunRow
<1> QED
  BY <1>1 DEF FromInOrder

(* A worker's step that leaves the API alone. *)
LEMMA WorkerKeepsOrder ==
  ASSUME TInv, OInv, RowsKept \/ (RowsGrow /\ RowsInOrder), WorkersRefer, StreamRefers,
         StopsRefer, FromInOrder, scheduled' \subseteq scheduled, UNCHANGED api
  PROVE  OInv'
BY KeepsOrder DEF RowsKept

(* Every step of a busy worker but the finish keeps the stages in order and
   completes none of them.                                                  *)
LEMMA ProceedOrder ==
  ASSUME IInv, OInv, NEW w \in Workers, Proceed(w)
  PROVE  (OInv' /\ RowsKept) \/ Finish(w)
<1> USE DEF IInv, WorkerPc, StopAt
<1> DEFINE J == wk[w].j
<1>0. wk[w].pc # "idle" => J \in JobId /\ LiveIn(jobs, J)
  BY DEF TInv, BusyHasJob, OInv, LiveInv
<1> USE SameFrom, SameRows, SameStream, WorkerKeepsOrder
<1>1. CASE ReadFlags(w)
  BY <1>1, MoveRefers, StopRefers, RestRefers, AckRefers DEF ReadFlags, AckAndRest
<1>2. CASE Claim(w)
  <2>1. CASE Claimable(J)
    <3>1. RowsKept
      BY <1>0, <1>2, <2>1, ClaimedRows DEF Claim
    <3>2. /\ wk'[w].pc = "enter" /\ wk'[w].j = J /\ wk'[w].e = wk[w].e
          /\ \A v \in Workers : v # w => wk'[v] = wk[v]
      BY <1>2, <2>1 DEF Claim, TInv, TypeOK, Worker
    <3>3. WorkersRefer /\ StopsRefer
      BY <1>2, <3>2 DEF Claim, WorkersRefer, StopsRefer
    <3> QED
      BY <1>2, <2>1, <3>1, <3>3 DEF Claim
  <2>2. CASE ~Claimable(J)
    BY <1>2, <2>2, RestRefers, AckRefers DEF Claim, AckAndRest
  <2> QED
    BY <2>1, <2>2
<1>3. CASE EnterStage(w)
  <2>1. FromInOrder
    BY <1>3 DEF EnterStage, MoveRun, FromInOrder, TInv, TypeOK, RunRow
  <2> QED
    BY <1>3, <2>1, MoveRefers, RestRefers, AckRefers DEF EnterStage, AckAndRest
<1>4. CASE Checkpoint(w)
  BY <1>0, <1>4, MoveRefers, StopRefers, BeatenRows DEF Checkpoint
<1>5. CASE WorkDone(w)
  BY <1>5, MoveRefers DEF WorkDone
<1>6. CASE StopRun(w)
  <2>1. FromInOrder
    BY <1>0, <1>6, StoppedFrom DEF StopRun
  <2> QED
    BY <1>6, <2>1, MoveRefers, RestRefers DEF StopRun, Failed
<1>7. CASE CreateNext(w)
  <2>1. PICK j \in JobId :
          /\ CreateJob(j, NextStage(jobs[J].stage), J)
          /\ wk' = [wk EXCEPT ![w] = [@ EXCEPT !.pc = "publish", !.j = j,
                                               !.attempts = 0]]
    BY <1>7 DEF CreateNext
  <2>2. /\ jobs[J].state = "succeeded" /\ HasNext(jobs[J].stage)
        /\ jobs[J].stage \in Stages /\ J \in JobId /\ LiveIn(jobs, J)
    BY <1>0, <1>7 DEF CreateNext, WalkInv, TInv, TypeOK, JobRow
  <2>3. Before(NextStage(jobs[J].stage)) \subseteq Completed
    BY <2>2, BeforeNext DEF OInv, OrderInv, Completed
  <2>4. RowsKept /\ LiveIn(jobs', j)
    BY <2>1, <2>2, <2>3, NextStageIsStage, CreatedRows
  <2>5. /\ wk'[w].pc = "publish" /\ wk'[w].j = j /\ wk'[w].e = wk[w].e
        /\ \A v \in Workers : v # w => wk'[v] = wk[v]
    BY <2>1 DEF TInv, TypeOK, Worker
  <2>6. WorkersRefer /\ StopsRefer
    BY <2>4, <2>5 DEF WorkersRefer, StopsRefer
  <2> QED
    BY <1>7, <2>4, <2>6 DEF CreateNext
<1>8. CASE Publish(w)
  <2>1. StreamRefers
    BY <1>0, <1>8, AppendRefers DEF Publish
  <2> QED
    BY <1>8, <2>1, MoveRefers DEF Publish
<1>9. CASE Finalize(w)
  <2>1. FromInOrder
    BY <1>9 DEF Finalize, MoveRun, FromInOrder, TInv, TypeOK, RunRow
  <2> QED
    BY <1>9, <2>1, MoveRefers DEF Finalize
<1>10. CASE FailJob(w)
  BY <1>0, <1>10, MoveRefers, SettledRows DEF FailJob
<1>11. CASE Reschedule(w)
  <2>1. \A m \in scheduled' : m \in scheduled \/ LiveIn(jobs', m.job)
    BY <1>0, <1>11 DEF Reschedule
  <2>2. WorkersRefer /\ StopsRefer
    BY <1>11, MoveRefers DEF Reschedule
  <2> QED
    BY <1>11, <2>1, <2>2, KeepsOrder DEF Reschedule, RowsKept
<1>12. CASE DeadLetter(w)
  BY <1>12, MoveRefers DEF DeadLetter
<1>13. CASE DeadJob(w)
  BY <1>0, <1>13, MoveRefers, SettledRows DEF DeadJob
<1>14. CASE FailRun(w)
  <2>1. FromInOrder
    BY <1>14 DEF FailRun, MoveRun, FromInOrder, TInv, TypeOK, RunRow
  <2> QED
    BY <1>14, <2>1, MoveRefers DEF FailRun
<1>15. CASE AckDone(w)
  BY <1>15, RestRefers, AckRefers DEF AckDone, AckAndRest
<1>16. CASE Promote(w)
  <2>1. wk[w].attempts \in Nat
    BY DEF TInv, TypeOK, Worker
  <2>2. StreamRefers
    BY <1>0, <1>16, <2>1, AppendRefers DEF Promote
  <2> QED
    BY <1>16, <2>2, RestRefers DEF Promote
<1>17. CASE ReapFlags(w)
  <2>1. WorkersRefer /\ StopsRefer
    <3>1. CASE Rest(w)
      BY <3>1, RestRefers
    <3>2. CASE ~Rest(w)
      <4>1. /\ wk'[w].pc = "reapSettle" /\ wk'[w].j = J /\ wk'[w].e = wk[w].e
            /\ wk'[w].to \in {"paused", "cancelled", "failed"}
            /\ \A v \in Workers : v # w => wk'[v] = wk[v]
        <5>1. wk' = [wk EXCEPT ![w] = [@ EXCEPT !.pc = "reapSettle",
                                         !.seen = run.state, !.to = ReapFor]]
          BY <1>17, <3>2 DEF ReapFlags
        <5>2. ReapFor \in {"paused", "cancelled", "failed"}
          BY DEF ReapFor, StopFor
        <5>3. wk \in [Workers -> Worker]
          BY DEF TInv, TypeOK
        <5> QED
          BY <5>1, <5>2, <5>3 DEF Worker
      <4> QED
        BY <1>17, <4>1 DEF ReapFlags, WorkersRefer, StopsRefer
    <3> QED
      BY <3>1, <3>2
  <2> QED
    BY <1>17, <2>1 DEF ReapFlags
<1>18. CASE ReapSettle(w)
  <2>1. FromInOrder
    BY <1>0, <1>18, StoppedFrom DEF ReapSettle
  <2> QED
    BY <1>18, <2>1, RestRefers DEF ReapSettle
<1> QED
  BY <1>1, <1>2, <1>3, <1>4, <1>5, <1>6, <1>7, <1>8, <1>9, <1>10, <1>11, <1>12,
     <1>13, <1>14, <1>15, <1>16, <1>17, <1>18
     DEF Proceed

(* finish_job(SUCCEEDED) completes the job's stage, which comes after complete
   stages only; the worker goes on to finalize the run when it is the last.  *)
LEMMA FinishOrder ==
  ASSUME IInv, OInv, NEW w \in Workers, Finish(w)
  PROVE  /\ OInv'
         /\ \/ Completed' = Completed
            \/ \E stage \in Stages : /\ Before(stage) \subseteq Completed
                                     /\ Completed' = Completed \cup {stage}
<1> DEFINE J == wk[w].j
           s == jobs[J].stage
<1>0. /\ J \in JobId /\ LiveIn(jobs, J) /\ TInv
      /\ jobs \in [JobId -> JobRow] /\ wk \in [Workers -> Worker] /\ run \in RunRow
  BY DEF Finish, IInv, TInv, TypeOK, BusyHasJob, OInv, LiveInv
<1>1. s \in Stages
  BY <1>0 DEF JobRow
<1>2. \A i \in JobId : /\ jobs'[i].stage = jobs[i].stage
                       /\ jobs'[i].state =
                            IF i = J /\ jobs[J].state = "running" THEN "succeeded"
                            ELSE jobs[i].state
  BY <1>0, SettledType DEF Finish, JobState
<1>3. RowsGrow /\ RowsInOrder
  BY <1>2 DEF RowsGrow, RowsInOrder, LiveIn
<1>4. /\ wk'[w].pc = AfterFinish(J) /\ wk'[w].j = J /\ wk'[w].e = wk[w].e
      /\ \A v \in Workers : v # w => wk'[v] = wk[v]
  <2>1. wk' = [wk EXCEPT ![w] = [@ EXCEPT !.pc = AfterFinish(J), !.seen = run.state]]
    BY DEF Finish, GotoSeen
  <2> QED
    BY <1>0, <2>1 DEF Worker
<1>5. WorkersRefer
  BY <1>0, <1>4 DEF WorkersRefer, Finish
<1>6. StopsRefer
  <2>1. wk'[w].pc = "finalize" => jobs'[J].state = "succeeded" /\ ~HasNext(jobs'[J].stage)
    BY <1>0, <1>2, <1>4 DEF AfterFinish
  <2>2. wk'[w].pc \notin StopAt
    BY <1>4, AfterFinishIs DEF StopAt
  <2> QED
    BY <1>4, <2>1, <2>2 DEF StopsRefer
<1>7. OInv'
  BY <1>0, <1>3, <1>5, <1>6, SameStream, SameFrom, WorkerKeepsOrder DEF Finish
<1>8. CASE jobs[J].state = "running"
  <2>1. Completed' = Completed \cup {s}
    BY <1>0, <1>2, <1>8 DEF Completed
  <2>2. Before(s) \subseteq Completed
    BY <1>0 DEF OInv, OrderInv
  <2> QED
    BY <1>1, <1>7, <2>1, <2>2
<1>9. CASE jobs[J].state # "running"
  <2>1. Completed' = Completed
    BY <1>2, <1>9 DEF Completed
  <2> QED
    BY <1>7, <2>1
<1> QED
  BY <1>8, <1>9

(* An idle worker's pass: what it picks up names jobs that exist. *)
LEMMA ServeOrder ==
  ASSUME IInv, OInv, NEW w \in Workers, Serve(w)
  PROVE  OInv' /\ RowsKept
<1> USE DEF IInv, WorkerPc, StopAt
<1>0. /\ jobs \in [JobId -> JobRow] /\ wk \in [Workers -> Worker]
      /\ stream \in [EntryId -> Entry]
  BY DEF TInv, TypeOK
<1>1. ASSUME NEW j \in JobId, ReapJob(w, j) PROVE OInv' /\ RowsKept
  <2>1. RowsKept
    BY <1>1, SettledRows DEF ReapJob
  <2>2. /\ wk'[w].pc = "reapFlags" /\ wk'[w].j = j /\ wk'[w].e = 0
        /\ \A v \in Workers : v # w => wk'[v] = wk[v]
    BY <1>0, <1>1 DEF ReapJob, Resting
  <2>3. LiveIn(jobs', j)
    BY <1>1, <2>1 DEF ReapJob, RowsKept, RowsGrow, LiveIn
  <2>4. WorkersRefer /\ StopsRefer
    BY <2>2, <2>3 DEF WorkersRefer, StopsRefer, EntryId
  <2> QED
    BY <1>1, <2>1, <2>4, SameStream, SameFrom, WorkerKeepsOrder DEF ReapJob
<1>2. ASSUME NEW m \in scheduled, TakeDue(w, m) PROVE OInv' /\ RowsKept
  <2>1. /\ wk'[w].pc = "promote" /\ wk'[w].j = m.job /\ wk'[w].e = 0
        /\ \A v \in Workers : v # w => wk'[v] = wk[v]
    BY <1>0, <1>2 DEF TakeDue, Resting
  <2>2. LiveIn(jobs', m.job)
    BY <1>2 DEF TakeDue, OInv, LiveInv
  <2>3. WorkersRefer /\ StopsRefer
    BY <2>1, <2>2 DEF WorkersRefer, StopsRefer, EntryId
  <2> QED
    BY <1>2, <2>3, SameRows, SameStream, SameFrom, WorkerKeepsOrder DEF TakeDue
<1>3. ASSUME NEW e \in EntryId, Take(w, e), stream[e].st # "absent"
      PROVE  OInv' /\ RowsKept
  <2>1. /\ wk'[w].pc = "flags" /\ wk'[w].j = stream[e].job /\ wk'[w].e = e
        /\ \A v \in Workers : v # w => wk'[v] = wk[v]
    BY <1>0, <1>3 DEF Take, Resting
  <2>2. LiveIn(jobs', stream[e].job)
    BY <1>3 DEF Take, OInv, LiveInv
  <2>3. WorkersRefer /\ StopsRefer
    BY <1>3, <2>1, <2>2 DEF WorkersRefer, StopsRefer
  <2>4. /\ stream'[e].job = stream[e].job /\ stream'[e].st = "pending"
        /\ \A d \in EntryId : d # e => stream'[d] = stream[d]
    BY <1>0, <1>3 DEF Take, Entry
  <2>5. StreamRefers
    BY <1>3, <2>4 DEF StreamRefers
  <2> QED
    BY <1>3, <2>3, <2>5, SameRows, SameFrom, WorkerKeepsOrder DEF Take
<1> QED
  BY <1>1, <1>2, <1>3 DEF Serve, Reclaim, Deliver

(* A step of the API keeps the workers and their entries. *)
LEMMA ApiOrder ==
  ASSUME IInv, OInv, NEW a \in Apis, Resume(a) \/ ApiStep(a) \/ ApiCrash(a)
  PROVE  OInv' /\ RowsKept
<1> USE DEF IInv
<1>0. /\ api \in [Apis -> Api] /\ run \in RunRow
      /\ WorkersRefer /\ StopsRefer
  BY SameWorkers
     DEF TInv, TypeOK, Resume, ApiStep, ApiCreate, ApiPublish, ApiCrash
<1>1. CASE Resume(a)
  <2> DEFINE stage == IF run.from = "none" THEN FirstStage ELSE run.from
  <2>1. Before(stage) \subseteq Completed
    BY BeforeFirst DEF OInv, OrderInv
  <2>2. /\ api'[a].pc = "create" /\ api'[a].stage = stage
        /\ \A b \in Apis : b # a => api'[b] = api[b]
    BY <1>0, <1>1 DEF Resume
  <2>3. FromInOrder
    BY <1>1 DEF Resume, MoveRun, FromInOrder, TInv, TypeOK, RunRow
  <2> QED
    BY <1>0, <1>1, <2>1, <2>2, <2>3, SameRows, SameStream, KeepsOrder DEF Resume, RowsKept
<1>2. CASE ApiCreate(a)
  <2>1. PICK j \in JobId :
          /\ CreateJob(j, api[a].stage, 0)
          /\ api' = [api EXCEPT ![a] = [@ EXCEPT !.pc = "publish", !.job = j]]
    BY <1>2 DEF ApiCreate
  <2>2. api[a].stage \in Stages /\ Before(api[a].stage) \subseteq Completed
    BY <1>0, <1>2 DEF ApiCreate, OInv, OrderInv, Api
  <2>3. RowsKept /\ LiveIn(jobs', j)
    BY <2>1, <2>2, CreatedRows
  <2>4. /\ api'[a].pc = "publish" /\ api'[a].job = j
        /\ \A b \in Apis : b # a => api'[b] = api[b]
    BY <1>0, <2>1 DEF Api
  <2> QED
    BY <1>0, <1>2, <2>3, <2>4, SameStream, SameFrom, KeepsOrder DEF ApiCreate, RowsKept
<1>3. CASE ApiPublish(a)
  <2>1. /\ api'[a].pc = "idle"
        /\ \A b \in Apis : b # a => api'[b] = api[b]
    BY <1>0, <1>3 DEF ApiPublish, ApiResting
  <2>2. api[a].job \in JobId /\ LiveIn(jobs', api[a].job)
    BY <1>3 DEF ApiPublish, TInv, BusyHasJob, OInv, LiveInv
  <2>3. StreamRefers
    BY <1>3, <2>2, AppendRefers DEF ApiPublish
  <2> QED
    BY <1>0, <1>3, <2>1, <2>3, SameRows, SameFrom, KeepsOrder DEF ApiPublish, RowsKept
<1>4. CASE ApiCrash(a)
  <2>1. /\ api'[a].pc = "idle"
        /\ \A b \in Apis : b # a => api'[b] = api[b]
    BY <1>0, <1>4 DEF ApiCrash, ApiResting
  <2> QED
    BY <1>0, <1>4, <2>1, SameRows, SameStream, SameFrom, KeepsOrder DEF ApiCrash, RowsKept
<1> QED
  BY <1>1, <1>2, <1>3, <1>4 DEF ApiStep

LEMMA NextOrder ==
  ASSUME IInv, OInv, [Next]_vars
  PROVE  OInv' /\ (RowsKept \/ \E w \in Workers : Finish(w))
<1> USE DEF IInv, WorkerPc, StopAt
<1> DEFINE Kept == OInv' /\ RowsKept
<1>1. ASSUME NEW w \in Workers, MidWork(w) PROVE Kept
  <2>1. wk[w].j \in JobId
    BY <1>1 DEF MidWork, TInv, BusyHasJob
  <2>2. CASE jobs' = Beaten(wk[w].j) /\ UNCHANGED wk
    BY <1>1, <2>1, <2>2, BeatenRows, SameWorkers, SameStream, SameFrom, WorkerKeepsOrder
       DEF MidWork
  <2>3. CASE GotoStop(w, "stopWork") /\ UNCHANGED jobs
    BY <1>1, <2>3, SameRows, StopRefers, SameStream, SameFrom, WorkerKeepsOrder DEF MidWork
  <2> QED
    BY <1>1, <2>2, <2>3 DEF MidWork
<1>2. ASSUME NEW w \in Workers, WorkFails(w) \/ WorkerCrash(w) PROVE Kept
  <2>1. WorkersRefer /\ StopsRefer
    BY <1>2, MoveRefers, RestRefers DEF WorkFails, WorkerCrash, Failed
  <2> QED
    BY <1>2, <2>1, SameRows, SameStream, SameFrom, WorkerKeepsOrder
       DEF WorkFails, WorkerCrash
<1>3. CASE RequestPause \/ RequestCancel
  <2>1. run'.from = run.from
    BY <1>3 DEF RequestPause, RequestCancel, MoveRun, TInv, TypeOK, RunRow
  <2> QED
    BY <1>3, <2>1, SameRows, SameWorkers, SameStream, SameFrom, WorkerKeepsOrder
       DEF RequestPause, RequestCancel
<1>4. ASSUME NEW j \in JobId, LeaseLapses(j) PROVE Kept
  BY <1>4, LapsedRows, SameWorkers, SameStream, SameFrom, WorkerKeepsOrder DEF LeaseLapses
<1>5. CASE UNCHANGED vars
  BY <1>5, SameRows, SameWorkers, SameStream, SameFrom, WorkerKeepsOrder DEF vars
<1> QED
  BY <1>1, <1>2, <1>3, <1>4, <1>5, ApiOrder, ServeOrder, ProceedOrder, FinishOrder
     DEF Next, WorkerStep
-----------------------------------------------------------------------------
(* The state of the run.  A step leaves it, enters a stage whose predecessors
   are complete, finalizes a run whose stages all are, or stops it.         *)
RunGoesOn ==
  \/ run'.state = run.state
  \/ /\ CanTransition(run.state, run'.state)
     /\ \/ run'.state \in Stages /\ Before(run'.state) \subseteq Completed
        \/ run'.state \in {"done", "partial"} /\ Stages \subseteq Completed
        \/ run'.state \in {"paused", "cancelled", "failed"}

LEMMA MoveRunIs ==
  ASSUME run \in RunRow, NEW to, NEW from, NEW pause, MoveRun(to, from, pause)
  PROVE  CanTransition(run.state, to) /\ run'.state = to
BY DEF MoveRun, RunRow

LEMMA RequestsGoOn ==
  ASSUME TInv, RequestPause \/ RequestCancel
  PROVE  RunGoesOn
<1>0. run \in RunRow
  BY DEF TInv, TypeOK
<1>1. CASE RequestPause
  BY <1>0, <1>1, MoveRunIs DEF RequestPause, RunGoesOn, RunRow
<1>2. CASE RequestCancel
  <2>1. run.state \in {"queued", "paused"} => CanTransition(run.state, "cancelled")
    BY StageOrderAssumption DEF CanTransition, Allowed
  <2> QED
    BY <1>0, <1>2, <2>1 DEF RequestCancel, RunGoesOn, RunRow
<1> QED
  BY <1>1, <1>2

LEMMA ResumeGoesOn ==
  ASSUME TInv, OInv, NEW a \in Apis, Resume(a)
  PROVE  RunGoesOn
<1> DEFINE stage == IF run.from = "none" THEN FirstStage ELSE run.from
<1>1. stage \in Stages /\ Before(stage) \subseteq Completed
  BY BeforeFirst, FirstStageIsStage DEF OInv, OrderInv, TInv, TypeOK, RunRow
<1> QED
  BY <1>1, MoveRunIs DEF Resume, RunGoesOn, TInv, TypeOK

LEMMA WorkerGoesOn ==
  ASSUME TInv, OInv, NEW w \in Workers,
         EnterStage(w) \/ StopRun(w) \/ Finalize(w) \/ FailRun(w) \/ ReapSettle(w)
  PROVE  RunGoesOn
<1> DEFINE J == wk[w].j
<1>0. /\ J \in JobId /\ LiveIn(jobs, J) /\ jobs[J].stage \in Stages /\ run \in RunRow
  BY DEF EnterStage, StopRun, Finalize, FailRun, ReapSettle, TInv, TypeOK, BusyHasJob,
         OInv, LiveInv, JobRow
<1>1. Before(jobs[J].stage) \subseteq Completed
  BY <1>0 DEF OInv, OrderInv
<1>2. CASE UNCHANGED run
  BY <1>2 DEF RunGoesOn
<1>3. CASE EnterStage(w)
  BY <1>0, <1>1, <1>3, MoveRunIs DEF EnterStage, RunGoesOn
<1>4. CASE StopRun(w) \/ ReapSettle(w)
  <2>1. wk[w].to \in {"paused", "cancelled", "failed"}
    BY <1>4 DEF StopRun, ReapSettle, OInv, StopInv, StopAt
  <2> QED
    BY <1>0, <1>4, <2>1, MoveRunIs DEF StopRun, ReapSettle, RunGoesOn
<1>5. CASE Finalize(w)
  <2>1. jobs[J].state = "succeeded" /\ ~HasNext(jobs[J].stage)
    BY <1>5 DEF Finalize, OInv, StopInv
  <2>2. Stages \subseteq Completed
    BY <1>0, <1>1, <2>1, LastStage DEF Completed
  <2> QED
    BY <1>0, <1>5, <2>2, MoveRunIs DEF Finalize, RunGoesOn
<1>6. CASE FailRun(w)
  BY <1>0, <1>6, MoveRunIs DEF FailRun, RunGoesOn
<1> QED
  BY <1>3, <1>4, <1>5, <1>6

LEMMA NextGoesOn ==
  ASSUME TInv, OInv, [Next]_vars
  PROVE  RunGoesOn
<1>1. CASE UNCHANGED run
  BY <1>1 DEF RunGoesOn
<1>2. ASSUME NEW w \in Workers, WorkerStep(w) PROVE RunGoesOn
  BY <1>1, <1>2, WorkerGoesOn
     DEF WorkerStep, Serve, ReapJob, TakeDue, Reclaim, Deliver, Take, MidWork, WorkFails,
         WorkerCrash, Proceed, ReadFlags, Claim, Checkpoint, WorkDone, Finish, CreateNext,
         Publish, FailJob, Reschedule, DeadLetter, DeadJob, AckDone, Promote, ReapFlags
<1>3. ASSUME NEW a \in Apis, Resume(a) \/ ApiStep(a) \/ ApiCrash(a) PROVE RunGoesOn
  BY <1>1, <1>3, ResumeGoesOn DEF ApiStep, ApiCreate, ApiPublish, ApiCrash
<1>4. ASSUME NEW j \in JobId, LeaseLapses(j) PROVE RunGoesOn
  BY <1>1, <1>4 DEF LeaseLapses
<1> QED
  BY <1>1, <1>2, <1>3, <1>4, RequestsGoOn DEF Next, vars

LEMMA InitOrder ==
  ASSUME Init
  PROVE  OInv /\ Completed = {}
<1>1. /\ \A w \in Workers : wk[w].pc = "idle" /\ wk[w].e = 0
      /\ \A j \in JobId : jobs[j].state = "absent"
      /\ \A e \in EntryId : stream[e].st = "absent"
      /\ \A a \in Apis : api[a].stage = FirstStage /\ api[a].pc # "publish"
      /\ scheduled = {} /\ run.from = "none"
  BY DEF Init, Resting, ApiResting
<1>2. LiveInv
  BY <1>1 DEF LiveInv, EntryId
<1>3. OrderInv
  BY <1>1, BeforeFirst DEF OrderInv, LiveIn
<1>4. StopInv
  BY <1>1 DEF StopInv, StopAt
<1>5. Completed = {}
  BY <1>1 DEF Completed
<1> QED
  BY <1>2, <1>3, <1>4, <1>5 DEF OInv

(* The abstract module reads the same table and the same order. *)
LEMMA SameTable ==
  /\ Lifecycle!Stages = Stages
  /\ Lifecycle!RunState = RunState
  /\ \A s : Lifecycle!Before(s) = Before(s)
  /\ \A s, t : Lifecycle!CanTransition(s, t) = CanTransition(s, t)
<1>1. Lifecycle!Stages = Stages
  BY DEF Lifecycle!Stages, Stages
<1>2. \A s : Lifecycle!IndexOf(s) = IndexOf(s)
  BY DEF Lifecycle!IndexOf, IndexOf
<1>3. \A s : Lifecycle!HasNext(s) = HasNext(s)
  BY <1>2 DEF Lifecycle!HasNext, HasNext
<1>4. \A s : Lifecycle!NextStage(s) = NextStage(s)
  BY <1>2 DEF Lifecycle!NextStage, NextStage
<1>5. Lifecycle!FirstStage = FirstStage
  BY DEF Lifecycle!FirstStage, FirstStage
<1>6. \A s : Lifecycle!Onward(s) = Onward(s)
  BY <1>1, <1>3, <1>4, <1>5 DEF Lifecycle!Onward, Onward
<1>7. \A s : Lifecycle!Allowed(s) = Allowed(s)
  BY <1>1, <1>6 DEF Lifecycle!Allowed, Allowed
<1>8. \A s, t : Lifecycle!CanTransition(s, t) = CanTransition(s, t)
  BY <1>7 DEF Lifecycle!CanTransition, CanTransition
<1>9. \A s : Lifecycle!Before(s) = Before(s)
  BY <1>1, <1>2 DEF Lifecycle!Before, Before
<1>10. Lifecycle!RunState = RunState
  BY <1>1 DEF Lifecycle!RunState, RunState, Lifecycle!Terminal, Terminal
<1> QED
  BY <1>1, <1>8, <1>9, <1>10

(* Every step of the pipeline is a step of the lifecycle, or does not show. *)
LEMMA StepImplements ==
  ASSUME IInv, OInv, [Next]_vars
  PROVE  [Lifecycle!Next]_(Lifecycle!vars)
<1>0. /\ TInv /\ run' \in RunRow /\ jobs \in [JobId -> JobRow]
  BY TInvNext DEF IInv, TInv, TypeOK
<1> USE SameTable DEF Lifecycle!Next, Lifecycle!vars
<1>1. CASE \E w \in Workers : Finish(w)
  <2>1. run' = run
    BY <1>1 DEF Finish
  <2> QED
    BY <1>1, <2>1, FinishOrder DEF Lifecycle!Complete
<1>2. CASE RowsKept
  <2>1. Completed' = Completed
    BY <1>0, <1>2, Completing DEF RowsKept
  <2>2. RunGoesOn
    BY <1>0, NextGoesOn
  <2>3. run'.state \in RunState
    BY <1>0 DEF RunRow
  <2> QED
    BY <2>1, <2>2, <2>3
       DEF RunGoesOn, Lifecycle!Enter, Lifecycle!Finalize, Lifecycle!Stop
<1> QED
  BY <1>1, <1>2, NextOrder

LEMMA OrderInductive == Spec => []OInv
<1>1. Init => OInv
  BY InitOrder
<1>2. IInv /\ OInv /\ [Next]_vars => OInv'
  BY NextOrder
<1> QED
  BY <1>1, <1>2, Inductive, PTL DEF Spec

(* The pipeline implements the lifecycle: with any number of workers, crashes,
   redeliveries, retries, pauses and resumptions, a stage is entered only when
   every earlier one is complete and the run is finalized only when all are
   (process_message and advance under the claim and finish gates).           *)
THEOREM PipelineImplementsLifecycle == Spec => ImplementsLifecycle
<1>1. Init => Lifecycle!Init
  <2>1. ASSUME Init PROVE run.state = "queued"
    BY <2>1 DEF Init
  <2> QED
    BY <2>1, InitOrder DEF Lifecycle!Init
<1>2. IInv /\ OInv /\ [Next]_vars => [Lifecycle!Next]_(Lifecycle!vars)
  BY StepImplements
<1> QED
  BY <1>1, <1>2, Inductive, OrderInductive, PTL DEF Spec, ImplementsLifecycle, Lifecycle!Spec
-----------------------------------------------------------------------------
(* What a step of one worker does to the workers. *)
Only(w) == \A v \in Workers : v # w => wk'[v] = wk[v]

LEMMA Moved ==
  ASSUME TInv, NEW w \in Workers, NEW pc \in WorkerPc,
         Goto(w, pc) \/ GotoSeen(w, pc) \/ GotoStop(w, pc)
  PROVE  /\ wk'[w].pc = pc /\ wk'[w].j = wk[w].j /\ wk'[w].e = wk[w].e /\ Only(w)
         /\ GotoSeen(w, pc) \/ GotoStop(w, pc) => wk'[w].seen = run.state
<1>1. wk \in [Workers -> Worker]
  BY DEF TInv, TypeOK
<1>2. CASE Goto(w, pc)
  <2>1. GotoSeen(w, pc) \/ GotoStop(w, pc) => wk'[w].seen = run.state
    BY <1>1 DEF GotoSeen, GotoStop, Worker
  <2> QED
    BY <1>1, <1>2, <2>1 DEF Goto, Worker, Only
<1>3. CASE GotoSeen(w, pc)
  BY <1>1, <1>3 DEF GotoSeen, Worker, Only
<1>4. CASE GotoStop(w, pc)
  BY <1>1, <1>4 DEF GotoStop, Worker, Only
<1> QED
  BY <1>2, <1>3, <1>4

LEMMA Rested ==
  ASSUME TInv, NEW w \in Workers, Rest(w)
  PROVE  /\ wk'[w].pc = "idle" /\ wk'[w].j = 0 /\ wk'[w].e = 0 /\ wk'[w].seen = "queued"
         /\ Only(w)
<1>1. wk \in [Workers -> Worker] /\ wk'[w] = Resting
  BY DEF TInv, TypeOK, Rest
<1> QED
  BY <1>1 DEF Rest, Resting, Only

(* Bad luck is not undone. *)
Calm == past.crashes + past.lapses = 0

LEMMA LuckStays ==
  ASSUME TInv, NEW kind \in {"pauses", "failures"}, Happens(kind) \/ UNCHANGED past
  PROVE  past'.crashes = past.crashes /\ past'.lapses = past.lapses
BY DEF Happens, TInv, TypeOK, Past

LEMMA BadLuck ==
  ASSUME TInv, Happens("crashes") \/ Happens("lapses")
  PROVE  ~Calm' /\ (past'.lapses = 0 => past.lapses = 0)
<1>1. past.crashes \in Nat /\ past.lapses \in Nat
  BY DEF TInv, TypeOK, Past
<1>2. \/ past'.crashes = past.crashes + 1 /\ past'.lapses = past.lapses
      \/ past'.crashes = past.crashes /\ past'.lapses = past.lapses + 1
  BY DEF Happens, TInv, TypeOK, Past
<1> QED
  BY <1>1, <1>2 DEF Calm
-----------------------------------------------------------------------------
(* A worker is at work on the job of its entry, unless it has created the next
   one; then the entry's job has succeeded.                                 *)
JobPcs == {"flags", "stopEarly", "claim", "createNext", "finalize", "resched", "failRun"}
            \cup Holding

EntryOK(w) ==
  /\ wk[w].pc \notin {"idle", "promote", "reapFlags", "reapSettle"} => wk[w].e \in EntryId
  /\ wk[w].pc \in JobPcs => stream[wk[w].e].job = wk[w].j
  /\ wk[w].pc = "publish" => jobs[stream[wk[w].e].job].state = "succeeded"
  /\ past.lapses = 0 /\ wk[w].pc = "failRun" => jobs[wk[w].j].state = "dead"

EntryInv == \A w \in Workers : EntryOK(w)

StreamKeeps ==
  \A e \in EntryId : stream[e].st # "absent" =>
    stream'[e].st # "absent" /\ stream'[e].job = stream[e].job

LEMMA AckKeeps ==
  ASSUME TInv, OInv, NEW w \in Workers, Ack(w)
  PROVE  /\ StreamKeeps
         /\ \A e \in EntryId : e # wk[w].e => stream'[e] = stream[e]
<1>1. \A e \in EntryId : e # wk[w].e => stream'[e] = stream[e]
  BY DEF Ack, TInv, TypeOK
<1>2. wk[w].e \in EntryId =>
         stream'[wk[w].e].job = stream[wk[w].e].job /\ stream'[wk[w].e].st = "acked"
  BY DEF Ack, TInv, TypeOK, Entry
<1> QED
  BY <1>1, <1>2 DEF StreamKeeps

LEMMA AppendKeeps ==
  ASSUME TInv, NEW j \in JobId, NEW n, Append1(j, n)
  PROVE  /\ StreamKeeps
         /\ \A e \in EntryId : stream[e].st # "absent" => stream'[e] = stream[e]
         /\ \E e \in EntryId : stream[e].st = "absent" /\ stream'[e].job = j
                               /\ stream'[e].st = "new"
<1>1. PICK e \in EntryId :
        /\ stream[e].st = "absent"
        /\ stream' = [stream EXCEPT ![e] = [job |-> j, attempts |-> n, st |-> "new"]]
  BY DEF Append1
<1>2. /\ stream'[e].job = j /\ stream'[e].st = "new"
      /\ \A d \in EntryId : d # e => stream'[d] = stream[d]
  BY <1>1 DEF TInv, TypeOK
<1> QED
  BY <1>1, <1>2 DEF StreamKeeps

LEMMA TakeKeeps ==
  ASSUME TInv, NEW w \in Workers, NEW e \in EntryId, Take(w, e), stream[e].st # "absent"
  PROVE  /\ StreamKeeps /\ Only(w) /\ stream'[e].st = "pending" /\ stream'[e].job = stream[e].job
         /\ wk[w].pc = "idle" /\ wk'[w].pc = "flags" /\ wk'[w].e = e /\ wk'[w].j = stream[e].job
         /\ wk'[w].seen = "queued"
         /\ \A d \in EntryId : d # e => stream'[d] = stream[d]
<1>1. /\ stream'[e].st = "pending" /\ stream'[e].job = stream[e].job
      /\ \A d \in EntryId : d # e => stream'[d] = stream[d]
  BY DEF Take, TInv, TypeOK, Entry
<1>2. /\ wk'[w].pc = "flags" /\ wk'[w].e = e /\ wk'[w].j = stream[e].job /\ wk'[w].seen = "queued"
      /\ Only(w) /\ wk[w].pc = "idle"
  BY DEF Take, TInv, TypeOK, Only, Resting
<1> QED
  BY <1>1, <1>2 DEF StreamKeeps

(* What the others have in hand stays so. *)
LEMMA OthersEntry ==
  ASSUME TInv, OInv, EntryInv, StreamKeeps, SettledStay, past'.lapses = 0 => past.lapses = 0,
         NEW v \in Workers, wk'[v] = wk[v]
  PROVE  EntryOK(v)'
<1>1. wk[v].e \in EntryId => /\ stream[wk[v].e].st # "absent"
                             /\ stream[wk[v].e].job \in JobId
                             /\ stream'[wk[v].e].job = stream[wk[v].e].job
  BY DEF StreamKeeps, OInv, LiveInv, TInv, TypeOK, Entry
<1>2. wk[v].pc # "idle" => wk[v].j \in JobId
  BY DEF TInv, BusyHasJob
<1>3. wk[v].pc \in JobPcs => wk[v].pc \notin {"idle", "promote", "reapFlags", "reapSettle"}
  BY DEF JobPcs, Holding
<1>4. EntryOK(v)
  BY DEF EntryInv
<1> QED
  BY <1>1, <1>2, <1>3, <1>4 DEF EntryOK, SettledStay

LEMMA KeepsEntry ==
  ASSUME TInv, OInv, EntryInv, StreamKeeps, SettledStay, past'.lapses = 0 => past.lapses = 0,
         NEW w \in Workers, Only(w), EntryOK(w)'
  PROVE  EntryInv'
BY OthersEntry DEF EntryInv, Only

(* A worker that goes on with its job. *)
LEMMA EntryGoesOn ==
  ASSUME TInv, OInv, EntryInv, StreamKeeps, NEW w \in Workers,
         wk'[w].j = wk[w].j, wk'[w].e = wk[w].e,
         wk[w].pc \in JobPcs, wk'[w].pc \in (JobPcs \cup {"ack"}) \ {"failRun"}
  PROVE  EntryOK(w)'
<1>1. wk[w].pc \notin {"idle", "promote", "reapFlags", "reapSettle"}
  BY DEF JobPcs, Holding
<1>2. EntryOK(w)
  BY DEF EntryInv
<1>3. wk[w].e \in EntryId /\ stream[wk[w].e].job = wk[w].j
  BY <1>1, <1>2 DEF EntryOK
<1>4. stream'[wk[w].e].job = stream[wk[w].e].job
  BY <1>3 DEF StreamKeeps, OInv, LiveInv
<1>5. wk'[w].pc \notin {"publish", "failRun"}
  BY DEF JobPcs, Holding
<1> QED
  BY <1>3, <1>4, <1>5 DEF EntryOK

(* What a worker does next is about the job of its entry. *)
LEMMA EntryProceed ==
  ASSUME IInv, ClaimInv, OInv, EntryInv, NEW w \in Workers, Proceed(w)
  PROVE  StreamKeeps /\ Only(w) /\ EntryOK(w)' /\ UNCHANGED past
<1> USE DEF IInv, WorkerPc, JobPcs, Holding
<1> DEFINE J == wk[w].j
<1>0. wk[w].pc # "idle" => J \in JobId
  BY DEF TInv, BusyHasJob
<1>s. UNCHANGED stream => StreamKeeps
  BY DEF StreamKeeps
<1>r. ASSUME Rest(w) PROVE Only(w) /\ EntryOK(w)'
  BY <1>r, Rested DEF EntryOK
<1>a. ASSUME AckAndRest(w) PROVE StreamKeeps /\ Only(w) /\ EntryOK(w)'
  BY <1>a, <1>r, AckKeeps DEF AckAndRest
<1>g. ASSUME NEW pc \in (JobPcs \cup {"ack"}) \ {"failRun"}, wk[w].pc \in JobPcs, UNCHANGED stream,
             Goto(w, pc) \/ GotoSeen(w, pc) \/ GotoStop(w, pc)
      PROVE  StreamKeeps /\ Only(w) /\ EntryOK(w)'
  <2>1. pc \in WorkerPc
    OBVIOUS
  <2>2. /\ wk'[w].pc = pc /\ wk'[w].j = wk[w].j /\ wk'[w].e = wk[w].e /\ Only(w)
    BY <1>g, <2>1, Moved
  <2> QED
    BY <1>g, <1>s, <2>2, EntryGoesOn
<1>1. CASE ReadFlags(w)
  <2>1. UNCHANGED past
    BY <1>1 DEF ReadFlags
  <2>2. CASE AckAndRest(w)
    BY <1>a, <2>1, <2>2
  <2>3. CASE ~AckAndRest(w)
    <3>1. wk[w].pc = "flags" /\ UNCHANGED stream
          /\ (GotoStop(w, "stopEarly") \/ GotoSeen(w, "claim"))
      BY <1>1, <2>3 DEF ReadFlags
    <3> QED
      BY <1>g, <2>1, <3>1
  <2> QED
    BY <2>2, <2>3
<1>2. CASE Claim(w)
  <2>1. CASE AckAndRest(w)
    BY <1>2, <1>a, <2>1 DEF Claim
  <2>2. CASE ~AckAndRest(w)
    <3>1. wk[w].pc = "claim" /\ UNCHANGED <<stream, past>>
          /\ wk' = [wk EXCEPT ![w] = [@ EXCEPT !.pc = "enter"]]
      BY <1>2, <2>2 DEF Claim
    <3>2. /\ wk'[w].pc = "enter" /\ wk'[w].j = wk[w].j /\ wk'[w].e = wk[w].e /\ Only(w)
      BY <3>1 DEF TInv, TypeOK, Worker, Only
    <3> QED
      BY <1>s, <3>1, <3>2, EntryGoesOn
  <2> QED
    BY <2>1, <2>2
<1>3. CASE EnterStage(w)
  <2>1. CASE AckAndRest(w)
    BY <1>3, <1>a, <2>1 DEF EnterStage
  <2>2. CASE ~AckAndRest(w)
    <3>1. wk[w].pc = "enter" /\ UNCHANGED <<stream, past>> /\ Goto(w, "check")
      BY <1>3, <2>2 DEF EnterStage
    <3> QED
      BY <1>g, <3>1
  <2> QED
    BY <2>1, <2>2
<1>4. CASE Checkpoint(w)
  <2>1. /\ wk[w].pc = "check" /\ UNCHANGED <<stream, past>>
        /\ GotoStop(w, "stopCheck") \/ Goto(w, "work")
    BY <1>4 DEF Checkpoint
  <2> QED
    BY <1>g, <2>1
<1>5. CASE WorkDone(w)
  BY <1>5, <1>g DEF WorkDone
<1>6. CASE StopRun(w)
  <2>1. /\ wk[w].pc \in {"stopEarly", "stopCheck", "stopWork"} /\ UNCHANGED <<stream, past>>
        /\ Goto(w, "ack") \/ Goto(w, "failJob") \/ Goto(w, "dlq") \/ Rest(w)
    BY <1>6 DEF StopRun, Failed
  <2> QED
    BY <1>g, <1>r, <1>s, <2>1
<1>7. CASE Finish(w)
  <2>1. /\ wk[w].pc = "finish" /\ UNCHANGED <<stream, past>> /\ GotoSeen(w, AfterFinish(J))
    BY <1>7 DEF Finish
  <2>2. AfterFinish(J) \in {"ack", "createNext", "finalize"}
    BY AfterFinishIs
  <2> QED
    BY <1>g, <2>1, <2>2
<1>8. CASE CreateNext(w)
  <2>1. PICK j \in JobId :
          /\ CreateJob(j, NextStage(jobs[J].stage), J)
          /\ wk' = [wk EXCEPT ![w] = [@ EXCEPT !.pc = "publish", !.j = j, !.attempts = 0]]
    BY <1>8 DEF CreateNext
  <2>2. /\ wk'[w].pc = "publish" /\ wk'[w].e = wk[w].e /\ Only(w)
    BY <2>1 DEF TInv, TypeOK, Worker, Only
  <2>3. /\ wk[w].pc = "createNext" /\ J \in JobId /\ UNCHANGED <<stream, past>>
        /\ jobs[J].state = "succeeded" /\ wk[w].e \in EntryId /\ stream[wk[w].e].job = J
    BY <1>0, <1>8 DEF CreateNext, WalkInv, EntryInv, EntryOK
  <2>4. jobs'[J].state = "succeeded"
    BY <2>1, <2>3 DEF CreateJob, TInv, TypeOK
  <2> QED
    BY <1>s, <2>2, <2>3, <2>4 DEF EntryOK
<1>9. CASE Publish(w)
  <2>1. /\ wk[w].pc = "publish" /\ J \in JobId /\ Append1(J, 0) /\ Goto(w, "ack") /\ UNCHANGED past
    BY <1>0, <1>9 DEF Publish
  <2>2. wk'[w].pc = "ack" /\ wk'[w].e = wk[w].e /\ Only(w)
    BY <2>1, Moved
  <2>3. wk[w].e \in EntryId
    BY <2>1 DEF EntryInv, EntryOK
  <2> QED
    BY <2>1, <2>2, <2>3, AppendKeeps DEF EntryOK
<1>10. CASE Finalize(w) \/ FailRun(w) \/ Reschedule(w)
  <2>1. wk[w].pc \in JobPcs /\ UNCHANGED <<stream, past>> /\ Goto(w, "ack")
    BY <1>10 DEF Finalize, FailRun, Reschedule
  <2> QED
    BY <1>g, <2>1
<1>11. CASE FailJob(w)
  BY <1>11, <1>g DEF FailJob
<1>12. CASE DeadLetter(w)
  BY <1>12, <1>g DEF DeadLetter
<1>13. CASE DeadJob(w)
  <2>1. /\ wk[w].pc = "deadJob" /\ UNCHANGED <<stream, past>> /\ GotoSeen(w, "failRun")
        /\ jobs' = Settled(J, "dead") /\ J \in JobId
    BY <1>0, <1>13 DEF DeadJob
  <2>2. wk'[w].pc = "failRun" /\ wk'[w].j = J /\ wk'[w].e = wk[w].e /\ Only(w)
    BY <2>1, Moved
  <2>3. past.lapses = 0 => jobs[J].state = "running"
    BY <2>1 DEF ClaimInv, Held
  <2>4. past.lapses = 0 => jobs'[J].state = "dead"
    BY <2>1, <2>3, SettledType DEF TInv, TypeOK, JobState
  <2>5. wk[w].e \in EntryId /\ stream[wk[w].e].job = J
    BY <2>1 DEF EntryInv, EntryOK
  <2> QED
    BY <1>s, <2>1, <2>2, <2>4, <2>5 DEF EntryOK
<1>14. CASE AckDone(w)
  BY <1>14, <1>a DEF AckDone
<1>15. CASE Promote(w)
  <2>1. wk[w].pc = "promote" /\ J \in JobId /\ Append1(J, wk[w].attempts) /\ Rest(w) /\ UNCHANGED past
    BY <1>0, <1>15 DEF Promote
  <2> QED
    BY <1>r, <2>1, AppendKeeps
<1>16. CASE ReapFlags(w)
  <2>1. CASE Rest(w)
    BY <1>16, <1>r, <1>s, <2>1 DEF ReapFlags
  <2>2. CASE ~Rest(w)
    <3>1. wk'[w].pc = "reapSettle" /\ Only(w) /\ UNCHANGED <<stream, past>>
      BY <1>16, <2>2 DEF ReapFlags, Only, TInv, TypeOK, Worker
    <3> QED
      BY <1>s, <3>1 DEF EntryOK
  <2> QED
    BY <2>1, <2>2
<1>17. CASE ReapSettle(w)
  BY <1>17, <1>r, <1>s DEF ReapSettle
<1> QED
  BY <1>1, <1>2, <1>3, <1>4, <1>5, <1>6, <1>7, <1>8, <1>9, <1>10, <1>11, <1>12, <1>13,
     <1>14, <1>15, <1>16, <1>17 DEF Proceed

LEMMA NextEntry ==
  ASSUME IInv, ClaimInv, OInv, EntryInv, [Next]_vars
  PROVE  EntryInv'
<1> USE DEF IInv
<1>0. TInv /\ SettledStay
  BY NextSettled
<1>s. UNCHANGED stream => StreamKeeps
  BY DEF StreamKeeps
<1>w. ASSUME UNCHANGED wk, StreamKeeps, past'.lapses = 0 => past.lapses = 0 PROVE EntryInv'
  BY <1>0, <1>w, OthersEntry DEF EntryInv
<1>l. ASSUME NEW kind \in {"pauses", "failures"}, Happens(kind) \/ UNCHANGED past
      PROVE  past'.lapses = 0 => past.lapses = 0
  BY <1>0, <1>l, LuckStays
<1>1. ASSUME NEW w \in Workers, Proceed(w) PROVE EntryInv'
  BY <1>0, <1>1, EntryProceed, KeepsEntry
<1>2. ASSUME NEW w \in Workers, NEW e \in EntryId, Reclaim(w, e) \/ Deliver(w, e) PROVE EntryInv'
  <2>1. Take(w, e) /\ stream[e].st # "absent" /\ UNCHANGED past
    BY <1>2 DEF Reclaim, Deliver, Take
  <2>2. StreamKeeps /\ Only(w) /\ EntryOK(w)'
    BY <1>0, <2>1, TakeKeeps DEF EntryOK
  <2> QED
    BY <1>0, <2>1, <2>2, KeepsEntry
<1>3. ASSUME NEW w \in Workers, NEW m \in scheduled, TakeDue(w, m) PROVE EntryInv'
  <2>1. wk'[w].pc = "promote" /\ Only(w) /\ UNCHANGED <<stream, past>>
    BY <1>0, <1>3 DEF TakeDue, Only, TInv, TypeOK, Resting
  <2> QED
    BY <1>0, <1>s, <2>1, KeepsEntry DEF EntryOK, JobPcs, Holding
<1>4. ASSUME NEW w \in Workers, NEW j \in JobId, ReapJob(w, j) PROVE EntryInv'
  <2>1. wk'[w].pc = "reapFlags" /\ Only(w) /\ UNCHANGED <<stream, past>>
    BY <1>0, <1>4 DEF ReapJob, Only, TInv, TypeOK, Resting
  <2> QED
    BY <1>0, <1>s, <2>1, KeepsEntry DEF EntryOK, JobPcs, Holding
<1>5. ASSUME NEW w \in Workers, MidWork(w) PROVE EntryInv'
  <2>1. wk[w].pc = "work" /\ UNCHANGED <<stream, past>> /\ (GotoStop(w, "stopWork") \/ UNCHANGED wk)
    BY <1>5 DEF MidWork
  <2>2. CASE UNCHANGED wk
    BY <1>s, <1>w, <2>1, <2>2
  <2>3. CASE GotoStop(w, "stopWork")
    <3>1. /\ wk'[w].pc = "stopWork" /\ wk'[w].j = wk[w].j /\ wk'[w].e = wk[w].e /\ Only(w)
      BY <1>0, <2>3, Moved DEF WorkerPc
    <3>2. EntryOK(w)'
      BY <1>0, <1>s, <2>1, <3>1, EntryGoesOn DEF JobPcs, Holding
    <3> QED
      BY <1>0, <1>s, <2>1, <3>1, <3>2, KeepsEntry
  <2> QED
    BY <2>1, <2>2, <2>3
<1>6. ASSUME NEW w \in Workers, WorkFails(w) PROVE EntryInv'
  <2>1. /\ wk[w].pc \in {"check", "work"} /\ Happens("failures") /\ UNCHANGED stream
        /\ Goto(w, "failJob") \/ Goto(w, "dlq")
    BY <1>6 DEF WorkFails, Failed
  <2>2. /\ wk'[w].pc \in {"failJob", "dlq"} /\ wk'[w].j = wk[w].j /\ wk'[w].e = wk[w].e /\ Only(w)
    BY <1>0, <2>1, Moved DEF WorkerPc
  <2>3. EntryOK(w)'
    BY <1>0, <1>s, <2>1, <2>2, EntryGoesOn DEF JobPcs, Holding
  <2> QED
    BY <1>0, <1>l, <1>s, <2>1, <2>2, <2>3, KeepsEntry
<1>7. ASSUME NEW w \in Workers, WorkerCrash(w) PROVE EntryInv'
  <2>1. Rest(w) /\ Happens("crashes") /\ UNCHANGED stream
    BY <1>7 DEF WorkerCrash
  <2> QED
    BY <1>0, <1>s, <2>1, Rested, BadLuck, KeepsEntry DEF EntryOK, JobPcs, Holding
<1>8. ASSUME NEW a \in Apis, Resume(a) \/ ApiStep(a) \/ ApiCrash(a) PROVE EntryInv'
  <2>1. UNCHANGED wk
    BY <1>8 DEF Resume, ApiStep, ApiCreate, ApiPublish, ApiCrash
  <2>2. StreamKeeps
    <3>1. CASE ApiPublish(a)
      <4>1. api[a].job \in JobId /\ Append1(api[a].job, 0)
        BY <1>0, <3>1 DEF ApiPublish, TInv, BusyHasJob
      <4> QED
        BY <1>0, <4>1, AppendKeeps
    <3> QED
      BY <1>8, <1>s, <3>1 DEF Resume, ApiStep, ApiCreate, ApiCrash
  <2>3. past'.lapses = 0 => past.lapses = 0
    BY <1>0, <1>8, BadLuck DEF Resume, ApiStep, ApiCreate, ApiPublish, ApiCrash
  <2> QED
    BY <1>w, <2>1, <2>2, <2>3
<1>9. CASE RequestPause \/ RequestCancel
  <2>1. UNCHANGED <<wk, stream>> /\ (Happens("pauses") \/ UNCHANGED past)
    BY <1>9 DEF RequestPause, RequestCancel
  <2> QED
    BY <1>l, <1>s, <1>w, <2>1
<1>10. ASSUME NEW j \in JobId, LeaseLapses(j) PROVE EntryInv'
  <2>1. UNCHANGED <<wk, stream>> /\ (Happens("lapses") \/ UNCHANGED past)
    BY <1>10 DEF LeaseLapses
  <2> QED
    BY <1>0, <1>s, <1>w, <2>1, BadLuck
<1>11. CASE UNCHANGED vars
  BY <1>11, <1>s, <1>w DEF vars
<1> QED
  BY <1>1, <1>2, <1>3, <1>4, <1>5, <1>6, <1>7, <1>8, <1>9, <1>10, <1>11
     DEF Next, WorkerStep, Serve
-----------------------------------------------------------------------------
(* While the run is queued its first stage is all there is, and a job that is
   running is about to enter it: it cannot be refused, nor reaped.          *)
Fresh ==
  /\ ~run.pause /\ ~run.cancel /\ scheduled = {}
  /\ \A w \in Workers : wk[w].pc \in {"idle", "flags", "claim", "enter"} /\ wk[w].seen = "queued"
  /\ \A j \in JobId : /\ jobs[j].stage = FirstStage
                      /\ jobs[j].state = "running" => \E w \in Workers : Holds(w, j)
  /\ \A a \in Apis : api[a].stage = FirstStage

FreshInv == Calm /\ run.state = "queued" => Fresh

LEMMA CalmBefore ==
  ASSUME TInv, [Next]_vars, Calm'
  PROVE  Calm /\ past.lapses = 0 /\ ~Happens("crashes") /\ ~Happens("lapses")
<1>1. past.crashes \in Nat /\ past.lapses \in Nat
  BY DEF TInv, TypeOK, Past
<1>2. ~Happens("crashes") /\ ~Happens("lapses")
  BY BadLuck
<1>3. Happens("pauses") \/ Happens("failures") \/ UNCHANGED past
  <2>1. ASSUME NEW w \in Workers, Proceed(w) PROVE UNCHANGED past
    BY <2>1 DEF Proceed, ReadFlags, Claim, EnterStage, Checkpoint, WorkDone, StopRun, Finish,
       CreateNext, Publish, Finalize, FailJob, Reschedule, DeadLetter, DeadJob, FailRun, AckDone,
       Promote, ReapFlags, ReapSettle
  <2>2. ASSUME NEW w \in Workers, Serve(w) \/ MidWork(w) PROVE UNCHANGED past
    BY <2>2 DEF Serve, ReapJob, TakeDue, Reclaim, Deliver, Take, MidWork
  <2>3. ASSUME NEW w \in Workers, WorkFails(w) \/ WorkerCrash(w) PROVE Happens("failures")
    BY <1>2, <2>3 DEF WorkFails, WorkerCrash
  <2>4. ASSUME NEW a \in Apis, Resume(a) \/ ApiStep(a) \/ ApiCrash(a) PROVE UNCHANGED past
    BY <1>2, <2>4 DEF Resume, ApiStep, ApiCreate, ApiPublish, ApiCrash
  <2>5. ASSUME NEW j \in JobId, LeaseLapses(j) PROVE UNCHANGED past
    BY <1>2, <2>5 DEF LeaseLapses
  <2>6. RequestPause \/ RequestCancel => Happens("pauses") \/ UNCHANGED past
    BY DEF RequestPause, RequestCancel
  <2> QED
    BY <2>1, <2>2, <2>3, <2>4, <2>5, <2>6 DEF Next, WorkerStep, vars
<1>4. past'.crashes = past.crashes /\ past'.lapses = past.lapses
  BY <1>3, LuckStays
<1> QED
  BY <1>1, <1>2, <1>4 DEF Calm

(* A worker's step that leaves it where the run's first job is picked up. *)
LEMMA FreshStays ==
  ASSUME Fresh, NEW w \in Workers, Only(w),
         wk'[w].pc \in {"idle", "flags", "claim", "enter"}, wk'[w].seen = "queued",
         UNCHANGED <<run, api, scheduled>>,
         \A j \in JobId : jobs'[j].stage = jobs[j].stage,
         \A j \in JobId : jobs'[j].state = "running" => \E v \in Workers : Holds(v, j)'
  PROVE  Fresh'
BY DEF Fresh, Only

LEMMA NextFresh ==
  ASSUME IInv, ClaimInv, OInv, FreshInv, [Next]_vars
  PROVE  FreshInv'
<1> USE DEF IInv
<1> SUFFICES ASSUME Calm', run'.state = "queued" PROVE Fresh'
  BY DEF FreshInv
<1>0. TInv /\ Calm /\ past.lapses = 0 /\ ~Happens("crashes") /\ ~Happens("lapses")
  BY CalmBefore
<1>1. run.state = "queued"
  BY NextGoesOn, StageOrderAssumption DEF RunGoesOn
<1>2. Fresh
  BY <1>0, <1>1 DEF FreshInv
<1>3. ASSUME NEW j \in JobId, jobs[j].state = "running" PROVE jobs[j].leased
  <2>1. PICK w \in Workers : Holds(w, j)
    BY <1>2, <1>3 DEF Fresh
  <2> QED
    BY <1>0, <2>1 DEF Holds, ClaimInv, Held
<1>s. FirstStage # "queued" /\ CanTransition("queued", FirstStage)
  BY FirstStageIsStage, StageOrderAssumption DEF CanTransition, Allowed, Onward
<1>h. ASSUME NEW w \in Workers, wk[w].pc \notin Holding, Only(w), UNCHANGED jobs
      PROVE  \A j \in JobId : jobs'[j].state = "running" => \E v \in Workers : Holds(v, j)'
  <2> SUFFICES ASSUME NEW j \in JobId, jobs[j].state = "running" PROVE \E v \in Workers : Holds(v, j)'
    BY <1>h
  <2>1. PICK v \in Workers : Holds(v, j)
    BY <1>2 DEF Fresh
  <2> QED
    BY <1>h, <2>1 DEF Holds, Only
<1>4. ASSUME NEW w \in Workers, Proceed(w) PROVE Fresh'
  <2>1. wk[w].pc \in {"idle", "flags", "claim", "enter"} /\ wk[w].seen = "queued"
    BY <1>2 DEF Fresh
  <2>2. CASE ReadFlags(w)
    <3>1. GotoSeen(w, "claim") /\ wk[w].pc = "flags" /\ UNCHANGED <<run, jobs, api, scheduled>>
      BY <1>1, <1>2, <2>2, StageOrderAssumption DEF ReadFlags, Fresh, Terminal
    <3>2. wk'[w].pc = "claim" /\ wk'[w].seen = "queued" /\ Only(w)
      BY <1>0, <1>1, <3>1, Moved DEF WorkerPc
    <3> QED
      BY <1>2, <1>h, <3>1, <3>2, FreshStays DEF Holding
  <2>3. CASE Claim(w)
    <3>1. CASE AckAndRest(w) /\ UNCHANGED jobs
      <4>1. /\ wk'[w].pc = "idle" /\ wk'[w].seen = "queued" /\ Only(w) /\ wk[w].pc = "claim"
            /\ UNCHANGED <<run, api, scheduled>>
        BY <1>0, <2>3, <3>1, Rested DEF AckAndRest, Claim
      <4> QED
        BY <1>2, <1>h, <3>1, <4>1, FreshStays DEF Holding
    <3>2. CASE ~(AckAndRest(w) /\ UNCHANGED jobs)
      <4>1. /\ jobs' = [jobs EXCEPT ![wk[w].j] = [@ EXCEPT !.state = "running", !.leased = TRUE]]
            /\ wk' = [wk EXCEPT ![w] = [@ EXCEPT !.pc = "enter"]]
            /\ UNCHANGED <<run, api, scheduled>> /\ wk[w].pc = "claim"
        BY <2>3, <3>2 DEF Claim
      <4>2. /\ wk'[w].pc = "enter" /\ wk'[w].seen = "queued" /\ wk'[w].j = wk[w].j /\ Only(w)
        BY <1>0, <2>1, <4>1 DEF TInv, TypeOK, Worker, Only
      <4>3. /\ jobs'[wk[w].j].stage = jobs[wk[w].j].stage
            /\ \A i \in JobId : i # wk[w].j => jobs'[i] = jobs[i]
        BY <1>0, <4>1, ClaimedType DEF TInv, TypeOK, BusyHasJob
      <4>4. ASSUME NEW j \in JobId, jobs'[j].state = "running" PROVE \E v \in Workers : Holds(v, j)'
        <5>1. CASE j = wk[w].j
          BY <4>2, <5>1 DEF Holds, Holding
        <5>2. CASE j # wk[w].j
          <6>1. PICK v \in Workers : Holds(v, j)
            BY <1>2, <4>3, <4>4, <5>2 DEF Fresh
          <6> QED
            BY <4>1, <4>2, <6>1 DEF Holds, Only, Holding
        <5> QED
          BY <5>1, <5>2
      <4> QED
        BY <1>2, <4>1, <4>2, <4>3, <4>4, FreshStays
    <3> QED
      BY <3>1, <3>2
  <2>4. CASE EnterStage(w)
    <3>1. wk[w].pc = "enter" /\ wk[w].j \in JobId
      BY <1>0, <2>4 DEF EnterStage, TInv, BusyHasJob
    <3>2. jobs[wk[w].j].stage = FirstStage /\ wk[w].seen # FirstStage
      BY <1>2, <1>s, <2>1, <3>1 DEF Fresh
    <3>3. ~Refused(w, FirstStage)
      BY <1>1, <1>s, <2>1 DEF Refused
    <3>4. MoveRun(FirstStage, run.from, run.pause)
      BY <2>4, <3>2, <3>3 DEF EnterStage
    <3> QED
      BY <1>0, <1>s, <3>4, MoveRunIs DEF TInv, TypeOK
  <2> QED
    BY <1>4, <2>1, <2>2, <2>3, <2>4
       DEF Proceed, Checkpoint, WorkDone, StopRun, Finish, CreateNext, Publish, Finalize, FailJob,
           Reschedule, DeadLetter, DeadJob, FailRun, AckDone, Promote, ReapFlags, ReapSettle
<1>5. ASSUME NEW w \in Workers, Serve(w) PROVE Fresh'
  <2>1. PICK e \in EntryId : Take(w, e) /\ stream[e].st # "absent"
    BY <1>2, <1>3, <1>5 DEF Serve, ReapJob, TakeDue, Reclaim, Deliver, Fresh
  <2>2. /\ wk'[w].pc = "flags" /\ wk'[w].seen = "queued" /\ Only(w) /\ wk[w].pc = "idle"
    BY <1>0, <2>1, TakeKeeps
  <2> QED
    BY <1>2, <1>h, <2>1, <2>2, FreshStays DEF Take, Holding
<1>6. ASSUME NEW w \in Workers, MidWork(w) \/ WorkFails(w) \/ WorkerCrash(w) PROVE Fresh'
  BY <1>0, <1>2, <1>6 DEF Fresh, MidWork, WorkFails, WorkerCrash
<1>7. ASSUME UNCHANGED <<run, jobs, scheduled, wk>>, \A a \in Apis : api'[a].stage = FirstStage
      PROVE  Fresh'
  BY <1>2, <1>7 DEF Fresh, Holds
<1>8. ASSUME NEW a \in Apis, Resume(a) \/ ApiStep(a) \/ ApiCrash(a) PROVE Fresh'
  <2>1. CASE ApiCreate(a)
    <3>1. PICK j \in JobId : /\ CreateJob(j, api[a].stage, 0)
                             /\ api' = [api EXCEPT ![a] = [@ EXCEPT !.pc = "publish", !.job = j]]
      BY <2>1 DEF ApiCreate
    <3>2. /\ api[a].stage = FirstStage /\ UNCHANGED <<run, scheduled, wk>>
      BY <1>2, <2>1 DEF Fresh, ApiCreate
    <3>3. /\ jobs'[j].stage = FirstStage /\ jobs'[j].state = "queued"
          /\ \A i \in JobId : i # j => jobs'[i] = jobs[i]
      BY <1>0, <3>1, <3>2, FirstStageIsStage, CreateJobType DEF TInv, TypeOK
    <3>4. \A b \in Apis : api'[b].stage = FirstStage
      BY <1>0, <1>2, <3>1 DEF Fresh, TInv, TypeOK, Api
    <3> QED
      BY <1>2, <3>2, <3>3, <3>4 DEF Fresh, Holds
  <2>2. CASE ApiPublish(a)
    <3>1. \A b \in Apis : api'[b].stage = FirstStage
      BY <1>0, <1>2, <2>2 DEF ApiPublish, ApiResting, Fresh, TInv, TypeOK
    <3> QED
      BY <1>7, <2>2, <3>1 DEF ApiPublish
  <2> QED
    BY <1>0, <1>1, <1>8, <2>1, <2>2 DEF Resume, ApiStep, ApiCrash
<1>9. CASE RequestPause \/ RequestCancel
  BY <1>0, <1>1, <1>9, MoveRunIs DEF RequestPause, RequestCancel, TInv, TypeOK, RunRow
<1>10. ASSUME NEW j \in JobId, LeaseLapses(j) PROVE Fresh'
  BY <1>0, <1>2, <1>10 DEF LeaseLapses, Fresh
<1>11. CASE UNCHANGED vars
  BY <1>2, <1>7, <1>11 DEF vars, Fresh
<1> QED
  BY <1>4, <1>5, <1>6, <1>8, <1>9, <1>10, <1>11 DEF Next, WorkerStep
-----------------------------------------------------------------------------
(* What carries a run on. *)

Active == run.state \notin Terminal \cup {"paused"}

\* The program points at which a worker has entered the job's stage.
Inside == Holding \ {"enter"}

\* An entry that is delivered, or will be, and not merely to be acknowledged.
Waiting(e) == /\ stream[e].st \in {"new", "pending"}
              /\ \A w \in Workers : wk[w].pc = "ack" => wk[w].e # e

AtMessage == {"publish", "resched", "promote"}

Messaged(j) ==
  \/ \E e \in EntryId : stream[e].job = j /\ Waiting(e)
  \/ \E m \in scheduled : m.job = j
  \/ \E w \in Workers : wk[w].pc \in AtMessage /\ wk[w].j = j
  \/ \E a \in Apis : api[a].pc = "publish" /\ api[a].job = j

(* The end of the job is not lost on the run: there is a next stage, or the run
   is at this one, or the job has yet to enter it, which moves the run or is
   refused.                                                                 *)
Fit(j) ==
  \/ HasNext(jobs[j].stage)
  \/ run.state = jobs[j].stage
  \/ \A w \in Workers : wk[w].j = j =>
       /\ wk[w].pc \notin Inside
       /\ wk[w].pc \in {"claim", "enter"} => wk[w].seen # jobs[j].stage

Moves(j) == /\ Fit(j)
            /\ \/ jobs[j].state = "running"
               \/ jobs[j].state \in {"queued", "failed"} /\ Messaged(j)

\* The run has not moved since a worker read it, in order to end it.
Settles(w) ==
  \/ wk[w].pc \in {"createNext", "reapFlags"}
  \/ wk[w].pc \in {"failRun", "reapSettle"} /\ wk[w].seen = run.state
  \/ wk[w].pc = "finalize" /\ wk[w].seen = run.state /\ run.state = jobs[wk[w].j].stage

Carried ==
  \/ \E a \in Apis : api[a].pc = "create"
  \/ \E j \in JobId : Moves(j)
  \/ \E w \in Workers : Settles(w)

CarryInv == Calm /\ Active => Carried

(* A job is as fit as before where the run stays and the worker enters nothing
   it had not claimed under this state.                                     *)
LEMMA FitStays ==
  ASSUME NEW j \in JobId, Fit(j), run'.state = run.state, jobs'[j].stage = jobs[j].stage,
         NEW w \in Workers, Only(w),
         wk'[w].j = j /\ wk'[w].pc \in Inside =>
           wk[w].j = j /\ (wk[w].pc \in Inside \/ (wk[w].pc = "enter" /\ wk[w].seen = jobs[j].stage)),
         wk'[w].j = j /\ wk'[w].pc \in {"claim", "enter"} =>
           \/ wk'[w].seen = run.state
           \/ wk[w].j = j /\ wk[w].pc \in {"claim", "enter"} /\ wk'[w].seen = wk[w].seen
  PROVE  Fit(j)'
<1>1. CASE HasNext(jobs[j].stage)
  BY <1>1 DEF Fit
<1>2. CASE run.state = jobs[j].stage
  BY <1>2 DEF Fit
<1>3. CASE /\ run.state # jobs[j].stage
           /\ \A v \in Workers : wk[v].j = j =>
                /\ wk[v].pc \notin Inside
                /\ wk[v].pc \in {"claim", "enter"} => wk[v].seen # jobs[j].stage
  BY <1>3 DEF Fit, Only
<1> QED
  BY <1>1, <1>2, <1>3 DEF Fit

(* What others are about to settle stays so. *)
LEMMA SettlesStays ==
  ASSUME TInv, OInv, NEW v \in Workers, wk'[v] = wk[v], run'.state = run.state, RowsGrow, Settles(v)
  PROVE  Settles(v)'
<1>1. wk[v].pc # "idle" => wk[v].j \in JobId /\ LiveIn(jobs, wk[v].j)
  BY DEF TInv, BusyHasJob, OInv, LiveInv
<1> QED
  BY <1>1 DEF Settles, RowsGrow

(* A message stays where it is, or the worker that has it goes on with it. *)
LEMMA MessagedStays ==
  ASSUME NEW j \in JobId, Messaged(j), NEW w \in Workers, Only(w), UNCHANGED api,
         \A e \in EntryId : stream[e].job = j /\ Waiting(e) =>
           /\ stream'[e].job = j /\ stream'[e].st \in {"new", "pending"}
           /\ wk'[w].pc = "ack" => wk'[w].e # e,
         \A m \in scheduled : m.job = j => m \in scheduled' \/ Messaged(j)',
         wk[w].pc \in AtMessage /\ wk[w].j = j => Messaged(j)'
  PROVE  Messaged(j)'
<1>1. ASSUME NEW e \in EntryId, stream[e].job = j, Waiting(e) PROVE Messaged(j)'
  <2>1. Waiting(e)' /\ stream'[e].job = j
    BY <1>1 DEF Waiting, Only
  <2> QED
    BY <2>1 DEF Messaged
<1>2. ASSUME NEW m \in scheduled, m.job = j PROVE Messaged(j)'
  BY <1>2 DEF Messaged
<1>3. ASSUME NEW v \in Workers, wk[v].pc \in AtMessage, wk[v].j = j PROVE Messaged(j)'
  BY <1>3 DEF Messaged, Only
<1>4. ASSUME NEW a \in Apis, api[a].pc = "publish", api[a].job = j PROVE Messaged(j)'
  BY <1>4 DEF Messaged
<1> QED
  BY <1>1, <1>2, <1>3, <1>4 DEF Messaged

LEMMA NextGrows ==
  ASSUME IInv, OInv, [Next]_vars
  PROVE  RowsGrow
<1>1. CASE \E w \in Workers : Finish(w)
  BY <1>1, SettledType DEF Finish, RowsGrow, LiveIn, IInv, TInv, TypeOK, BusyHasJob, JobState
<1> QED
  BY <1>1, NextOrder DEF RowsKept

\* The step brings its worker into no stage under a state the run has left.
EntersFit(w) ==
  /\ wk'[w].pc \in Inside =>
       /\ wk'[w].j = wk[w].j
       /\ wk[w].pc \in Inside \/ (wk[w].pc = "enter" /\ wk[w].seen = jobs[wk[w].j].stage)
  /\ wk'[w].pc \in {"claim", "enter"} =>
       \/ wk'[w].seen = run.state
       \/ /\ wk'[w].j = wk[w].j /\ wk'[w].seen = wk[w].seen
          /\ wk[w].pc \in {"claim", "enter"}

\* Its worker acknowledges no message that is needed.
OwnSettled(w) ==
  wk[w].pc = "ack" \/ jobs[stream[wk[w].e].job].state \notin {"queued", "failed"}

\* No message that is needed is lost.
MessagesStay ==
  \A j \in JobId : jobs[j].state \in {"queued", "failed"} /\ Messaged(j) => Messaged(j)'

LEMMA QuietMessages ==
  ASSUME NEW w \in Workers, Only(w), UNCHANGED <<stream, scheduled, api>>, wk[w].pc \notin AtMessage,
         wk'[w].pc = "ack" => wk'[w].e = wk[w].e /\ OwnSettled(w)
  PROVE  MessagesStay
<1> SUFFICES ASSUME NEW j \in JobId, jobs[j].state \in {"queued", "failed"}, Messaged(j)
             PROVE  Messaged(j)'
  BY DEF MessagesStay
<1>1. ASSUME NEW e \in EntryId, stream[e].job = j, Waiting(e), wk'[w].pc = "ack" PROVE wk'[w].e # e
  BY <1>1 DEF OwnSettled, Waiting
<1> QED
  BY <1>1, MessagedStays DEF Waiting

LEMMA AckMessages ==
  ASSUME TInv, OInv, NEW w \in Workers, AckAndRest(w), OwnSettled(w), UNCHANGED <<scheduled, api>>,
         wk[w].pc \notin AtMessage
  PROVE  MessagesStay
<1> SUFFICES ASSUME NEW j \in JobId, jobs[j].state \in {"queued", "failed"}, Messaged(j)
             PROVE  Messaged(j)'
  BY DEF MessagesStay
<1>0. Only(w) /\ wk'[w].pc = "idle" /\ \A e \in EntryId : e # wk[w].e => stream'[e] = stream[e]
  BY Rested, AckKeeps DEF AckAndRest
<1>1. ASSUME NEW e \in EntryId, stream[e].job = j, Waiting(e) PROVE wk[w].e # e
  BY <1>1 DEF OwnSettled, Waiting
<1> QED
  BY <1>0, <1>1, MessagedStays DEF Waiting

(* A step that carries the run on, in whatever way, or leaves it to what
   carried it before.                                                       *)
LEMMA StepCarries ==
  ASSUME TInv, OInv, Carried, NEW w \in Workers, Only(w), run'.state = run.state, RowsGrow,
         UNCHANGED api, EntersFit(w), MessagesStay, Settles(w) => Carried',
         \A j \in JobId : Moves(j) /\ jobs[j].state = "running" =>
           jobs'[j].state = "running" \/ Carried' \/ (jobs'[j].state = "failed" /\ Messaged(j)'),
         \A j \in JobId : jobs[j].state \in {"queued", "failed"} =>
           jobs'[j].state = jobs[j].state \/ jobs'[j].state = "running"
  PROVE  Carried'
<1>1. ASSUME NEW a \in Apis, api[a].pc = "create" PROVE Carried'
  BY <1>1 DEF Carried
<1>2. ASSUME NEW v \in Workers, Settles(v) PROVE Carried'
  <2>1. CASE v = w
    BY <1>2, <2>1
  <2>2. CASE v # w
    <3>1. Settles(v)'
      BY <1>2, <2>2, SettlesStays DEF Only
    <3> QED
      BY <3>1 DEF Carried
  <2> QED
    BY <2>1, <2>2
<1>3. ASSUME NEW j \in JobId, Moves(j) PROVE Carried'
  <2>1. jobs'[j].stage = jobs[j].stage
    BY <1>3 DEF Moves, RowsGrow, LiveIn
  <2>2. Fit(j)'
    BY <1>3, <2>1, FitStays DEF Moves, EntersFit
  <2>3. Carried' \/ Moves(j)'
    BY <1>3, <2>2 DEF Moves, MessagesStay
  <2> QED
    BY <2>3 DEF Carried
<1> QED
  BY <1>1, <1>2, <1>3 DEF Carried

\* What the step of a worker may start from, where the luck holds.
Onwards ==
  /\ IInv /\ ClaimInv /\ OInv /\ EntryInv /\ FreshInv /\ RowsGrow
  /\ Calm /\ past.lapses = 0 /\ Active'

(* An active run can be held or ended. *)
LEMMA CanEnd ==
  ASSUME TInv, Active, run.state # "queued"
  PROVE  /\ run.state \in Stages
         /\ \A to \in {"paused", "failed", "cancelled", "partial"} : CanTransition(run.state, to)
         /\ ~HasNext(run.state) => CanTransition(run.state, "done")
<1>1. run.state \in Stages
  BY DEF Active, TInv, TypeOK, RunRow, RunState
<1>2. run.state \notin Terminal \cup {"queued", "paused"}
  BY <1>1, StageOrderAssumption
<1> QED
  BY <1>1, <1>2 DEF CanTransition, Allowed, Onward

(* A worker that is past the entry of its stage has moved the run. *)
LEMMA PastEntry ==
  ASSUME Onwards, Active, NEW w \in Workers, wk[w].pc \notin {"idle", "flags", "claim", "enter"}
  PROVE  run.state # "queued" /\ run.state \in Stages
BY CanEnd DEF Onwards, FreshInv, Fresh, IInv

(* A step that changes no job, and loses no message, carries on. *)
LEMMA JobsStill ==
  ASSUME Onwards, Carried, NEW w \in Workers, Only(w), run'.state = run.state,
         UNCHANGED <<jobs, api>>, EntersFit(w), MessagesStay, Settles(w) => Carried'
  PROVE  Carried'
BY StepCarries DEF Onwards, IInv

\* A worker goes on, leaving the rest as it is.
LEMMA GoesOnQuietly ==
  ASSUME Onwards, Carried, NEW w \in Workers, NEW pc \in WorkerPc, run'.state = run.state,
         Goto(w, pc) \/ GotoSeen(w, pc) \/ GotoStop(w, pc),
         UNCHANGED <<jobs, stream, scheduled, api>>,
         pc \in Inside => wk[w].pc \in Inside \/ (wk[w].pc = "enter" /\ wk[w].seen = jobs[wk[w].j].stage),
         pc \in {"claim", "enter"} => GotoSeen(w, pc) \/ GotoStop(w, pc),
         pc = "ack" => OwnSettled(w), wk[w].pc \notin AtMessage, Settles(w) => Carried'
  PROVE  Carried'
<1>1. TInv
  BY DEF Onwards, IInv
<1>2. /\ wk'[w].pc = pc /\ wk'[w].j = wk[w].j /\ wk'[w].e = wk[w].e /\ Only(w)
      /\ GotoSeen(w, pc) \/ GotoStop(w, pc) => wk'[w].seen = run.state
  BY <1>1, Moved
<1>3. EntersFit(w)
  BY <1>2 DEF EntersFit
<1>4. MessagesStay
  BY <1>2, QuietMessages
<1> QED
  BY <1>2, <1>3, <1>4, JobsStill

LEMMA RestsQuietly ==
  ASSUME Onwards, Carried, NEW w \in Workers, run'.state = run.state, Rest(w),
         UNCHANGED <<jobs, stream, scheduled, api>>, wk[w].pc \notin AtMessage, ~Settles(w)
  PROVE  Carried'
<1>1. wk'[w].pc = "idle" /\ Only(w)
  BY Rested DEF Onwards, IInv
<1>2. EntersFit(w)
  BY <1>1 DEF EntersFit, Inside, Holding
<1>3. MessagesStay
  BY <1>1, QuietMessages
<1> QED
  BY <1>1, <1>2, <1>3, JobsStill

LEMMA AcksQuietly ==
  ASSUME Onwards, Carried, NEW w \in Workers, run'.state = run.state, AckAndRest(w),
         UNCHANGED <<jobs, scheduled, api>>, wk[w].pc \notin AtMessage, ~Settles(w), OwnSettled(w)
  PROVE  Carried'
<1>1. wk'[w].pc = "idle" /\ Only(w)
  BY Rested DEF Onwards, IInv, AckAndRest
<1>2. EntersFit(w)
  BY <1>1 DEF EntersFit, Inside, Holding
<1>3. MessagesStay
  BY AckMessages DEF Onwards, IInv
<1> QED
  BY <1>1, <1>2, <1>3, JobsStill

(* The job of a worker's entry, where it has one. *)
LEMMA OwnJob ==
  ASSUME Onwards, NEW w \in Workers, wk[w].pc \in JobPcs
  PROVE  /\ wk[w].j \in JobId /\ wk[w].e \in EntryId /\ stream[wk[w].e].job = wk[w].j
         /\ wk[w].pc \in Holding => jobs[wk[w].j].state = "running"
         /\ wk[w].pc = "failRun" => jobs[wk[w].j].state = "dead"
<1>1. wk[w].pc \notin {"idle", "promote", "reapFlags", "reapSettle"}
  BY DEF JobPcs, Holding
<1> QED
  BY <1>1 DEF Onwards, IInv, TInv, BusyHasJob, EntryInv, EntryOK, ClaimInv, Held
-----------------------------------------------------------------------------
(* Up to the work. *)
LEMMA PickUpCarries ==
  ASSUME Onwards, Active => Carried, NEW w \in Workers, ReadFlags(w) \/ Claim(w) \/ EnterStage(w)
  PROVE  Carried'
<1> USE DEF Onwards, IInv
<1> DEFINE J == wk[w].j
<1>0. UNCHANGED <<scheduled, api>>
  BY DEF ReadFlags, Claim, EnterStage
<1>1. CASE ReadFlags(w)
  <2>1. run' = run /\ UNCHANGED jobs /\ Active /\ Carried /\ wk[w].pc = "flags"
    BY <1>1 DEF ReadFlags, Active
  <2>2. UNCHANGED stream /\ (GotoStop(w, "stopEarly") \/ GotoSeen(w, "claim"))
    BY <1>1, <2>1 DEF ReadFlags, Active
  <2> HIDE DEF Onwards, IInv
  <2> QED
    BY <1>0, <2>1, <2>2, GoesOnQuietly DEF WorkerPc, Inside, Holding, AtMessage, Settles
<1>2. CASE Claim(w)
  <2>1. run' = run /\ Active /\ Carried /\ wk[w].pc = "claim"
    BY <1>2 DEF Claim, Active
  <2>2. /\ J \in JobId /\ wk[w].e \in EntryId /\ stream[wk[w].e].job = J
    BY <2>1, OwnJob DEF JobPcs
  <2>3. CASE Claimable(J)
    <3>1. /\ UNCHANGED stream
          /\ jobs' = [jobs EXCEPT ![J] = [@ EXCEPT !.state = "running", !.leased = TRUE]]
          /\ wk' = [wk EXCEPT ![w] = [@ EXCEPT !.pc = "enter"]]
      BY <1>2, <2>3 DEF Claim
    <3>2. /\ wk'[w].pc = "enter" /\ wk'[w].j = J /\ wk'[w].seen = wk[w].seen /\ Only(w)
      BY <3>1 DEF TInv, TypeOK, Worker, Only
    <3>3. /\ jobs'[J].state = "running"
          /\ \A i \in JobId : i # J => jobs'[i] = jobs[i]
      BY <2>2, <3>1 DEF TInv, TypeOK
    <3>4. EntersFit(w)
      BY <2>1, <3>2 DEF EntersFit, Inside, Holding
    <3>5. MessagesStay
      BY <1>0, <2>1, <3>1, <3>2, QuietMessages DEF AtMessage
    <3>6. ~Settles(w)
      BY <2>1 DEF Settles
    <3>7. \A j \in JobId : jobs[j].state = jobs'[j].state \/ jobs'[j].state = "running"
      BY <3>3
    <3> QED
      BY <1>0, <2>1, <3>2, <3>4, <3>5, <3>6, <3>7, StepCarries
  <2>4. CASE ~Claimable(J)
    <3>1. AckAndRest(w) /\ UNCHANGED jobs
      BY <1>2, <2>4 DEF Claim
    <3>2. OwnSettled(w)
      BY <2>2, <2>4 DEF Claimable, OwnSettled
    <3> HIDE DEF Onwards, IInv
    <3> QED
      BY <1>0, <2>1, <3>1, <3>2, AcksQuietly DEF AtMessage, Settles
  <2> QED
    BY <2>3, <2>4
<1>3. CASE EnterStage(w)
  <2>1. UNCHANGED jobs /\ wk[w].pc = "enter"
    BY <1>3 DEF EnterStage
  <2>2. /\ J \in JobId /\ stream[wk[w].e].job = J /\ jobs[J].state = "running"
    BY <2>1, OwnJob DEF JobPcs, Holding
  <2>3. CASE MoveRun(jobs[J].stage, run.from, run.pause)
    <3>1. PICK j \in JobId : j = J
      BY <2>2
    <3>2. run'.state = jobs'[j].stage /\ jobs'[j].state = "running"
      BY <2>1, <2>2, <2>3, <3>1, MoveRunIs DEF TInv, TypeOK
    <3>3. Moves(j)'
      BY <3>2 DEF Moves, Fit
    <3> QED
      BY <3>3 DEF Carried
  <2>4. CASE ~MoveRun(jobs[J].stage, run.from, run.pause)
    <3>1. run' = run /\ Active /\ Carried
      BY <1>3, <2>4 DEF EnterStage, Active
    <3>2. CASE AckAndRest(w)
      <4>1. OwnSettled(w)
        BY <2>2 DEF OwnSettled
      <4> HIDE DEF Onwards, IInv
      <4> QED
        BY <1>0, <2>1, <3>1, <3>2, <4>1, AcksQuietly DEF AtMessage, Settles
    <3>3. CASE ~AckAndRest(w)
      <4>1. wk[w].seen = jobs[J].stage /\ Goto(w, "check") /\ UNCHANGED stream
        BY <1>3, <2>4, <3>3 DEF EnterStage
      <4> HIDE DEF Onwards, IInv
      <4> QED
        BY <1>0, <2>1, <3>1, <4>1, GoesOnQuietly DEF WorkerPc, Inside, Holding, AtMessage, Settles
    <3> QED
      BY <3>2, <3>3
  <2> QED
    BY <2>3, <2>4
<1> QED
  BY <1>1, <1>2, <1>3

(* The beats, and what becomes of an attempt. *)
LEMMA BeatCarries ==
  ASSUME Onwards, Carried, NEW w \in Workers, wk[w].pc \in {"check", "work"},
         jobs' = Beaten(wk[w].j), Goto(w, "work") \/ UNCHANGED wk,
         UNCHANGED <<run, stream, scheduled, api>>
  PROVE  Carried'
<1> USE DEF Onwards, IInv
<1>1. wk[w].j \in JobId /\ jobs \in [JobId -> JobRow]
  BY DEF TInv, TypeOK, BusyHasJob
<1>2. \A j \in JobId : jobs'[j].state = jobs[j].state
  BY <1>1, BeatenType
<1>3. /\ wk'[w].pc = "work" \/ wk'[w] = wk[w]
      /\ wk'[w].j = wk[w].j /\ Only(w)
  BY Moved DEF WorkerPc, Only
<1>4. EntersFit(w)
  <2>1. wk[w].pc \in Inside /\ wk'[w].pc \in {"check", "work"}
    BY <1>3 DEF Inside, Holding
  <2> QED
    BY <1>3, <2>1 DEF EntersFit
<1>5. MessagesStay
  BY <1>3, QuietMessages DEF AtMessage
<1>6. ~Settles(w)
  BY DEF Settles
<1> HIDE DEF Onwards
<1> QED
  BY <1>2, <1>3, <1>4, <1>5, <1>6, StepCarries DEF Onwards

LEMMA WorkCarries ==
  ASSUME Onwards, Active => Carried, NEW w \in Workers,
         Checkpoint(w) \/ MidWork(w) \/ WorkDone(w) \/ WorkFails(w) \/ StopRun(w) \/ DeadLetter(w)
  PROVE  Carried'
<1>0. UNCHANGED <<stream, scheduled, api>>
  BY DEF Checkpoint, MidWork, WorkDone, WorkFails, StopRun, DeadLetter
<1>g. ASSUME NEW pc \in {"stopCheck", "work", "stopWork", "finish", "failJob", "dlq", "deadJob"},
             wk[w].pc \in Inside, Goto(w, pc) \/ GotoStop(w, pc), UNCHANGED <<run, jobs>>
      PROVE  Carried'
  <2>1. Active /\ Carried /\ run'.state = run.state
    BY <1>g DEF Active, Onwards
  <2>2. pc \in WorkerPc /\ pc \notin {"claim", "enter", "ack"}
        /\ wk[w].pc \notin AtMessage /\ ~Settles(w)
    BY <1>g DEF WorkerPc, Inside, Holding, AtMessage, Settles
  <2> QED
    BY <1>0, <1>g, <2>1, <2>2, GoesOnQuietly, ZenonT(40)
<1>b. ASSUME wk[w].pc \in {"check", "work"}, jobs' = Beaten(wk[w].j), UNCHANGED run,
             Goto(w, "work") \/ UNCHANGED wk
      PROVE  Carried'
  BY <1>0, <1>b, BeatCarries DEF Active, Onwards
<1>1. CASE Checkpoint(w)
  BY <1>1, <1>g, <1>b DEF Checkpoint, Inside, Holding
<1>2. CASE MidWork(w)
  BY <1>2, <1>g, <1>b DEF MidWork, Inside, Holding
<1>3. CASE WorkDone(w)
  BY <1>3, <1>g DEF WorkDone, Inside, Holding
<1>4. CASE WorkFails(w)
  BY <1>4, <1>g DEF WorkFails, Failed, Inside, Holding
<1>5. CASE DeadLetter(w)
  BY <1>5, <1>g DEF DeadLetter, Inside, Holding
<1>6. CASE StopRun(w)
  <2>1. wk[w].pc \in {"stopEarly", "stopCheck", "stopWork"} /\ UNCHANGED jobs
    BY <1>6 DEF StopRun
  <2>2. wk[w].to \in {"paused", "cancelled", "failed"}
    BY <2>1 DEF Onwards, OInv, StopInv, StopAt
  <2>3. run'.state # wk[w].to
    BY <2>2 DEF Onwards, Active, Terminal
  <2>4. UNCHANGED run /\ (IF wk[w].pc = "stopCheck" THEN Failed(w, FALSE) ELSE Rest(w))
    BY <1>6, <2>3, MoveRunIs DEF StopRun, Onwards, IInv, TInv, TypeOK
  <2>5. CASE wk[w].pc = "stopCheck"
    BY <1>g, <2>1, <2>4, <2>5 DEF Failed, Inside, Holding
  <2>6. CASE wk[w].pc # "stopCheck"
    <3>1. Carried
      BY <2>4 DEF Active, Onwards
    <3> QED
      BY <1>0, <2>1, <2>4, <2>6, <3>1, RestsQuietly DEF AtMessage, Settles
  <2> QED
    BY <2>5, <2>6
<1> QED
  BY <1>1, <1>2, <1>3, <1>4, <1>5, <1>6

(* A job that is settled passes the run on to the worker that settled it. *)
LEMMA SettlingCarries ==
  ASSUME Onwards, Active => Carried, NEW w \in Workers,
         Finish(w) \/ FailJob(w) \/ DeadJob(w) \/ ReapFlags(w)
  PROVE  Carried'
<1> USE DEF Onwards, IInv
<1> DEFINE J == wk[w].j
<1>0. /\ run' = run /\ Active /\ Carried /\ UNCHANGED <<stream, scheduled, api>>
      /\ jobs \in [JobId -> JobRow]
  BY DEF Finish, FailJob, DeadJob, ReapFlags, Active, TInv, TypeOK
<1>1. CASE ReapFlags(w)
  <2>1. /\ wk' = [wk EXCEPT ![w] = [@ EXCEPT !.pc = "reapSettle", !.seen = run.state, !.to = ReapFor]]
    BY <1>0, <1>1 DEF ReapFlags, Active
  <2>2. wk'[w].pc = "reapSettle" /\ wk'[w].seen = run'.state
    BY <1>0, <2>1 DEF TInv, TypeOK, Worker
  <2> QED
    BY <2>2 DEF Carried, Settles
<1>2. CASE DeadJob(w)
  <2>1. wk'[w].pc = "failRun" /\ wk'[w].seen = run'.state
    BY <1>0, <1>2, Moved DEF DeadJob, WorkerPc
  <2> QED
    BY <2>1 DEF Carried, Settles
<1>3. CASE FailJob(w)
  <2>1. /\ wk[w].pc = "failJob" /\ Goto(w, "resched") /\ jobs' = Settled(J, "failed")
    BY <1>3 DEF FailJob
  <2>2. J \in JobId /\ wk'[w].pc = "resched" /\ wk'[w].j = J /\ Only(w)
    BY <2>1, Moved DEF WorkerPc, TInv, BusyHasJob
  <2>3. \A j \in JobId : jobs'[j].state = IF j = J /\ jobs[J].state = "running" THEN "failed"
                                          ELSE jobs[j].state
    BY <1>0, <2>1, <2>2, SettledType DEF JobState
  <2>4. \A j \in JobId : j = J => Messaged(j)'
    BY <2>2 DEF Messaged, AtMessage
  <2>5. EntersFit(w)
    BY <2>2 DEF EntersFit, Inside, Holding
  <2>6. MessagesStay
    BY <1>0, <2>1, <2>2, QuietMessages DEF AtMessage
  <2>7. ~Settles(w)
    BY <2>1 DEF Settles
  <2> HIDE DEF Onwards
  <2> QED
    BY <1>0, <2>2, <2>3, <2>4, <2>5, <2>6, <2>7, StepCarries DEF Onwards
<1>4. CASE Finish(w)
  <2>1. wk[w].pc = "finish" /\ jobs' = Settled(J, "succeeded") /\ GotoSeen(w, AfterFinish(J))
    BY <1>4 DEF Finish
  <2>2. J \in JobId /\ jobs[J].state = "running"
    BY <2>1, OwnJob DEF JobPcs, Holding
  <2>3. /\ AfterFinish(J) = IF HasNext(jobs[J].stage) THEN "createNext" ELSE "finalize"
        /\ AfterFinish(J) \in {"createNext", "finalize"}
    BY <2>2 DEF AfterFinish
  <2>4. /\ wk'[w].pc = AfterFinish(J) /\ wk'[w].j = J /\ wk'[w].e = wk[w].e
        /\ wk'[w].seen = run'.state /\ Only(w)
    BY <1>0, <2>1, <2>3, Moved DEF WorkerPc
  <2>5. /\ jobs'[J].stage = jobs[J].stage
        /\ \A j \in JobId : j # J => jobs'[j].state = jobs[j].state
    BY <1>0, <2>1, <2>2, SettledType DEF JobState
  <2>6. CASE HasNext(jobs[J].stage) \/ run.state = jobs[J].stage
    <3>1. Settles(w)'
      BY <1>0, <2>3, <2>4, <2>5, <2>6 DEF Settles
    <3> QED
      BY <3>1 DEF Carried
  <2>7. CASE ~HasNext(jobs[J].stage) /\ run.state # jobs[J].stage
    <3>1. ~Moves(J)
      BY <2>1, <2>7 DEF Moves, Fit, Inside, Holding
    <3>2. EntersFit(w) /\ ~Settles(w)
      BY <2>1, <2>3, <2>4 DEF EntersFit, Settles, Inside, Holding
    <3>3. MessagesStay
      BY <1>0, <2>1, <2>3, <2>4, QuietMessages DEF AtMessage
    <3>4. \A j \in JobId : Moves(j) \/ jobs[j].state \in {"queued", "failed"} =>
             jobs'[j].state = jobs[j].state
      BY <2>2, <2>5, <3>1
    <3> HIDE DEF Onwards
    <3> QED
      BY <1>0, <2>4, <3>2, <3>3, <3>4, StepCarries DEF Onwards
  <2> QED
    BY <2>6, <2>7
<1> QED
  BY <1>1, <1>2, <1>3, <1>4

(* What a worker settles of the run, it settles, unless the run has moved. *)
LEMMA EndingCarries ==
  ASSUME Onwards, Active => Carried, NEW w \in Workers,
         Finalize(w) \/ FailRun(w) \/ ReapSettle(w)
  PROVE  Carried'
<1> DEFINE J == wk[w].j
<1>0. UNCHANGED <<jobs, stream, scheduled, api>> /\ TInv /\ run \in RunRow
  BY DEF Finalize, FailRun, ReapSettle, Onwards, IInv, TInv, TypeOK
<1>m. ASSUME NEW to \in Terminal \cup {"paused"}, NEW from, NEW pause, MoveRun(to, from, pause)
      PROVE  FALSE
  BY <1>0, <1>m, MoveRunIs DEF Onwards, Active
<1>2. CASE Finalize(w)
  <2>1. /\ wk[w].pc = "finalize" /\ Goto(w, "ack") /\ UNCHANGED run
        /\ \E to \in {"done", "partial"} : Refused(w, to)
    BY <1>2, <1>m DEF Finalize, Terminal
  <2>2. Active /\ Carried
    BY <2>1 DEF Onwards, Active
  <2>3. /\ J \in JobId /\ stream[wk[w].e].job = J
        /\ jobs[J].state = "succeeded" /\ ~HasNext(jobs[J].stage)
    BY <2>1, OwnJob DEF JobPcs, Onwards, OInv, StopInv
  <2>4. ~Settles(w)
    <3>1. SUFFICES ASSUME wk[w].seen = run.state, run.state = jobs[J].stage PROVE FALSE
      BY <2>1 DEF Settles
    <3>2. run.state # "queued"
      BY <2>1, <2>2, PastEntry
    <3>3. CanTransition(run.state, "done") /\ CanTransition(run.state, "partial")
      BY <1>0, <2>2, <2>3, <3>1, <3>2, CanEnd
    <3> QED
      BY <2>1, <3>1, <3>3 DEF Refused
  <2>5. OwnSettled(w)
    BY <2>3 DEF OwnSettled
  <2> QED
    BY <1>0, <2>1, <2>2, <2>4, <2>5, GoesOnQuietly DEF WorkerPc, Inside, Holding, AtMessage
<1>3. CASE FailRun(w)
  <2>1. wk[w].pc = "failRun" /\ Goto(w, "ack") /\ UNCHANGED run /\ Refused(w, "failed")
    BY <1>3, <1>m DEF FailRun, Terminal
  <2>2. Active /\ Carried
    BY <2>1 DEF Onwards, Active
  <2>3. ~Settles(w)
    <3>1. run.state # "queued"
      BY <2>1, <2>2, PastEntry
    <3>2. CanTransition(run.state, "failed")
      BY <1>0, <2>2, <3>1, CanEnd
    <3> QED
      BY <2>1, <3>2 DEF Refused, Settles
  <2>4. OwnSettled(w)
    BY <2>1, OwnJob DEF OwnSettled, JobPcs
  <2> QED
    BY <1>0, <2>1, <2>2, <2>3, <2>4, GoesOnQuietly DEF WorkerPc, Inside, Holding, AtMessage
<1>4. CASE ReapSettle(w)
  <2>1. wk[w].pc = "reapSettle"
    BY <1>4 DEF ReapSettle
  <2>2. wk[w].to \in {"paused", "cancelled", "failed"}
    BY <2>1 DEF Onwards, OInv, StopInv, StopAt
  <2>3. Rest(w) /\ UNCHANGED run /\ Refused(w, wk[w].to)
    BY <1>4, <1>m, <2>2 DEF ReapSettle, Terminal
  <2>4. Active /\ Carried
    BY <2>3 DEF Onwards, Active
  <2>5. ~Settles(w)
    <3>1. run.state # "queued"
      BY <2>1, <2>4, PastEntry
    <3>2. CanTransition(run.state, wk[w].to)
      BY <1>0, <2>2, <2>4, <3>1, CanEnd
    <3> QED
      BY <2>1, <2>3, <3>2 DEF Refused, Settles
  <2> QED
    BY <1>0, <2>1, <2>3, <2>4, <2>5, RestsQuietly DEF AtMessage
<1> QED
  BY <1>2, <1>3, <1>4

(* The messages: published, put off, promoted, acknowledged. *)
LEMMA MessageCarries ==
  ASSUME Onwards, Active => Carried, NEW w \in Workers,
         Publish(w) \/ Reschedule(w) \/ Promote(w) \/ AckDone(w)
  PROVE  Carried'
<1> DEFINE J == wk[w].j
<1>0. UNCHANGED <<run, jobs, api>> /\ TInv /\ OInv
  BY DEF Publish, Reschedule, Promote, AckDone, Onwards, IInv
<1>1. Active /\ Carried /\ ~Settles(w)
  BY <1>0 DEF Onwards, Active, Settles, Publish, Reschedule, Promote, AckDone
<1>2. CASE AckDone(w)
  <2>1. wk[w].pc = "ack" /\ AckAndRest(w) /\ UNCHANGED scheduled
    BY <1>2 DEF AckDone
  <2>2. OwnSettled(w)
    BY <2>1 DEF OwnSettled
  <2> QED
    BY <1>0, <1>1, <2>1, <2>2, AcksQuietly DEF AtMessage
<1>a. ASSUME Append1(J, wk[w].attempts) \/ Append1(J, 0), UNCHANGED scheduled, Only(w),
             wk[w].pc \in {"publish", "promote"}, wk'[w].pc \in {"ack", "idle"},
             wk'[w].pc = "ack" => wk[w].pc = "publish" /\ wk'[w].e = wk[w].e
      PROVE  Carried'
  <2>1. J \in JobId
    BY <1>0, <1>a DEF TInv, BusyHasJob
  <2>2. /\ \A e \in EntryId : stream[e].st # "absent" => stream'[e] = stream[e]
        /\ \E e \in EntryId : stream[e].st = "absent" /\ stream'[e].job = J /\ stream'[e].st = "new"
    BY <1>0, <1>a, <2>1, AppendKeeps
  <2>3. \A v \in Workers : wk'[v].pc = "ack" =>
           wk'[v].e \in EntryId /\ wk'[v].e = wk[v].e /\ stream[wk[v].e].st # "absent"
    <3>1. \A v \in Workers : wk[v].pc \in {"ack", "publish"} =>
             wk[v].e \in EntryId /\ stream[wk[v].e].st # "absent"
      BY DEF Onwards, EntryInv, EntryOK, OInv, LiveInv
    <3> QED
      BY <1>a, <3>1 DEF Only
  <2>4. PICK d \in EntryId : stream'[d].job = J /\ Waiting(d)'
    BY <2>2, <2>3 DEF Waiting
  <2>5. MessagesStay
    <3> SUFFICES ASSUME NEW j \in JobId, jobs[j].state \in {"queued", "failed"}, Messaged(j)
                 PROVE  Messaged(j)'
      BY DEF MessagesStay
    <3>1. CASE j = J
      BY <2>4, <3>1 DEF Messaged
    <3>2. CASE j # J
      <4>1. ASSUME NEW e \in EntryId, stream[e].job = j, Waiting(e)
            PROVE  stream'[e] = stream[e] /\ (wk'[w].pc = "ack" => wk'[w].e # e)
        <5>1. wk[w].pc = "publish" => jobs[stream[wk[w].e].job].state = "succeeded"
          BY DEF Onwards, EntryInv, EntryOK
        <5> QED
          BY <1>a, <2>2, <4>1, <5>1 DEF Waiting
      <4> QED
        BY <1>0, <1>a, <3>2, <4>1, MessagedStays DEF Waiting
    <3> QED
      BY <3>1, <3>2
  <2>6. EntersFit(w)
    BY <1>a DEF EntersFit, Inside, Holding
  <2> QED
    BY <1>0, <1>1, <1>a, <2>5, <2>6, JobsStill
<1>3. CASE Publish(w)
  <2>1. Append1(J, 0) /\ UNCHANGED scheduled /\ wk[w].pc = "publish" /\ Goto(w, "ack")
    BY <1>3 DEF Publish
  <2>2. Only(w) /\ wk'[w].pc = "ack" /\ wk'[w].e = wk[w].e
    BY <1>0, <2>1, Moved DEF WorkerPc
  <2> QED
    BY <1>a, <2>1, <2>2
<1>4. CASE Promote(w)
  <2>1. Append1(J, wk[w].attempts) /\ UNCHANGED scheduled /\ wk[w].pc = "promote" /\ Rest(w)
    BY <1>4 DEF Promote
  <2>2. Only(w) /\ wk'[w].pc = "idle"
    BY <1>0, <2>1, Rested
  <2> QED
    BY <1>a, <2>1, <2>2
<1>5. CASE Reschedule(w)
  <2>1. /\ wk[w].pc = "resched" /\ Goto(w, "ack") /\ UNCHANGED stream
        /\ scheduled' = scheduled \cup {[job |-> J, attempts |-> wk[w].attempts + 1]}
    BY <1>5 DEF Reschedule
  <2>2. Only(w) /\ wk'[w].pc = "ack" /\ wk'[w].e = wk[w].e
    BY <1>0, <2>1, Moved DEF WorkerPc
  <2>3. stream[wk[w].e].job = J
    BY <2>1, OwnJob DEF JobPcs
  <2>4. MessagesStay
    <3> SUFFICES ASSUME NEW j \in JobId, Messaged(j) PROVE Messaged(j)'
      BY DEF MessagesStay
    <3>1. CASE j = J
      <4> DEFINE m == [job |-> J, attempts |-> wk[w].attempts + 1]
      <4>1. m \in scheduled' /\ m.job = j
        BY <2>1, <3>1
      <4> HIDE DEF m
      <4> QED
        BY <4>1 DEF Messaged
    <3>2. CASE j # J
      BY <1>0, <2>1, <2>2, <2>3, <3>2, MessagedStays DEF Waiting
    <3> QED
      BY <3>1, <3>2
  <2>5. EntersFit(w)
    BY <2>2 DEF EntersFit, Inside, Holding
  <2> QED
    BY <1>0, <1>1, <2>2, <2>4, <2>5, JobsStill
<1> QED
  BY <1>2, <1>3, <1>4, <1>5

(* The next stage's job is new, so nobody is at work on it. *)
LEMMA NewJobMoves ==
  ASSUME TInv, OInv, NEW j \in JobId, jobs[j].state = "absent", jobs'[j].state = "queued", Messaged(j)',
         \A v \in Workers : wk'[v] = wk[v] \/ wk'[v].pc = "publish"
  PROVE  Carried'
<1>1. \A v \in Workers : wk[v].pc # "idle" => wk[v].j # j
  BY DEF OInv, LiveInv, LiveIn
<1>2. \A v \in Workers : wk'[v].j = j => wk'[v].pc \in {"idle", "publish"}
  BY <1>1
<1>3. Fit(j)'
  BY <1>2 DEF Fit, Inside, Holding
<1> QED
  BY <1>3 DEF Carried, Moves

LEMMA CreateNextCarries ==
  ASSUME Onwards, NEW w \in Workers, CreateNext(w)
  PROVE  Carried'
<1>0. TInv /\ OInv /\ wk[w].pc = "createNext" /\ wk \in [Workers -> Worker]
  BY DEF Onwards, IInv, CreateNext, TInv, TypeOK
<1>1. PICK j \in JobId :
        /\ CreateJob(j, NextStage(jobs[wk[w].j].stage), wk[w].j)
        /\ wk' = [wk EXCEPT ![w] = [@ EXCEPT !.pc = "publish", !.j = j, !.attempts = 0]]
  BY DEF CreateNext
<1>2. wk'[w].pc = "publish" /\ wk'[w].j = j /\ \A v \in Workers : v # w => wk'[v] = wk[v]
  BY <1>0, <1>1 DEF Worker
<1>3. jobs[j].state = "absent" /\ jobs'[j].state = "queued"
  BY <1>0, <1>1 DEF CreateJob, TInv, TypeOK
<1>4. Messaged(j)'
  BY <1>2 DEF Messaged, AtMessage
<1> QED
  BY <1>0, <1>2, <1>3, <1>4, NewJobMoves

LEMMA ServeCarries ==
  ASSUME Onwards, Active => Carried, NEW w \in Workers, Serve(w)
  PROVE  Carried'
<1>0. /\ UNCHANGED <<run, api>> /\ wk[w].pc = "idle"
      /\ TInv /\ OInv /\ wk \in [Workers -> Worker]
  BY DEF Serve, ReapJob, TakeDue, Reclaim, Deliver, Take, Onwards, IInv, TInv, TypeOK
<1>1. Active /\ Carried /\ ~Settles(w)
  BY <1>0 DEF Onwards, Active, Settles
<1>2. ASSUME NEW j \in JobId, ReapJob(w, j) PROVE Carried'
  <2>1. wk'[w].pc = "reapFlags"
    BY <1>0, <1>2 DEF ReapJob, Resting
  <2> QED
    BY <2>1 DEF Carried, Settles
<1>3. ASSUME NEW m \in scheduled, TakeDue(w, m) PROVE Carried'
  <2>1. UNCHANGED <<jobs, stream>> /\ scheduled' = scheduled \ {m}
    BY <1>3 DEF TakeDue
  <2>2. wk'[w].pc = "promote" /\ wk'[w].j = m.job /\ Only(w)
    BY <1>0, <1>3 DEF TakeDue, Resting, Only
  <2>3. ASSUME NEW j \in JobId, Messaged(j) PROVE Messaged(j)'
    <3>1. CASE j = m.job
      BY <2>2, <3>1 DEF Messaged, AtMessage
    <3>2. CASE j # m.job
      BY <1>0, <2>1, <2>2, <2>3, <3>2, MessagedStays DEF Waiting, AtMessage
    <3> QED
      BY <3>1, <3>2
  <2>4. MessagesStay
    BY <2>3 DEF MessagesStay
  <2>5. EntersFit(w)
    BY <2>2 DEF EntersFit, Inside, Holding
  <2> QED
    BY <1>0, <1>1, <2>1, <2>2, <2>4, <2>5, JobsStill
<1>4. ASSUME NEW e \in EntryId, Reclaim(w, e) \/ Deliver(w, e) PROVE Carried'
  <2>1. Take(w, e) /\ stream[e].st # "absent" /\ UNCHANGED <<jobs, scheduled>>
    BY <1>4 DEF Reclaim, Deliver, Take
  <2>2. /\ Only(w) /\ stream'[e].st = "pending" /\ stream'[e].job = stream[e].job
        /\ wk'[w].pc = "flags" /\ \A d \in EntryId : d # e => stream'[d] = stream[d]
    BY <1>0, <2>1, TakeKeeps
  <2>3. MessagesStay
    <3> SUFFICES ASSUME NEW j \in JobId, Messaged(j) PROVE Messaged(j)'
      BY DEF MessagesStay
    <3> QED
      BY <1>0, <2>1, <2>2, MessagedStays DEF Waiting, AtMessage
  <2>4. EntersFit(w)
    BY <2>2 DEF EntersFit, Inside, Holding
  <2> QED
    BY <1>0, <1>1, <2>1, <2>2, <2>3, <2>4, JobsStill
<1> QED
  BY <1>2, <1>3, <1>4 DEF Serve

(* The API and the passage of time. *)
LEMMA SameCarries ==
  ASSUME TInv, Carried, run'.state = run.state, UNCHANGED <<stream, scheduled, wk, api>>,
         \A j \in JobId : jobs'[j].state = jobs[j].state /\ jobs'[j].stage = jobs[j].stage
  PROVE  Carried'
<1>1. ASSUME NEW j \in JobId, Moves(j) PROVE Moves(j)'
  <2>1. Fit(j)'
    BY <1>1 DEF Moves, Fit
  <2>2. Messaged(j) => Messaged(j)'
    BY DEF Messaged, Waiting
  <2> QED
    BY <1>1, <2>1, <2>2 DEF Moves
<1>2. ASSUME NEW w \in Workers, Settles(w) PROVE Settles(w)'
  BY <1>2 DEF Settles, TInv, BusyHasJob
<1> QED
  BY <1>1, <1>2 DEF Carried

LEMMA ApiCarries ==
  ASSUME Onwards, Active => Carried, NEW a \in Apis, Resume(a) \/ ApiStep(a)
  PROVE  Carried'
<1>0. TInv /\ OInv /\ api \in [Apis -> Api]
  BY DEF Onwards, IInv, TInv, TypeOK
<1>1. CASE Resume(a)
  <2>1. api'[a].pc = "create"
    BY <1>0, <1>1 DEF Resume
  <2> QED
    BY <2>1 DEF Carried
<1>2. CASE ApiCreate(a)
  <2>1. PICK j \in JobId :
          /\ CreateJob(j, api[a].stage, 0)
          /\ api' = [api EXCEPT ![a] = [@ EXCEPT !.pc = "publish", !.job = j]]
    BY <1>2 DEF ApiCreate
  <2>2. api'[a].pc = "publish" /\ api'[a].job = j /\ UNCHANGED wk
    BY <1>0, <1>2, <2>1 DEF ApiCreate, Api
  <2>3. jobs[j].state = "absent" /\ jobs'[j].state = "queued"
    BY <1>0, <2>1 DEF CreateJob, TInv, TypeOK
  <2>4. Messaged(j)'
    BY <2>2 DEF Messaged
  <2> QED
    BY <1>0, <2>2, <2>3, <2>4, NewJobMoves
<1>3. CASE ApiPublish(a)
  <2> DEFINE K == api[a].job
  <2>1. /\ api[a].pc = "publish" /\ K \in JobId /\ Append1(K, 0)
        /\ UNCHANGED <<run, jobs, scheduled, wk>>
        /\ \A b \in Apis : b # a => api'[b] = api[b]
    BY <1>0, <1>3 DEF ApiPublish, TInv, BusyHasJob
  <2>2. Active /\ Carried
    BY <2>1 DEF Onwards, Active
  <2>3. /\ \A e \in EntryId : stream[e].st # "absent" => stream'[e] = stream[e]
        /\ \E e \in EntryId : stream[e].st = "absent" /\ stream'[e].job = K /\ stream'[e].st = "new"
    BY <1>0, <2>1, AppendKeeps
  <2>4. \A v \in Workers : wk[v].pc = "ack" =>
           wk[v].e \in EntryId /\ stream[wk[v].e].st # "absent"
    BY DEF Onwards, EntryInv, EntryOK, OInv, LiveInv
  <2>5. PICK d \in EntryId : stream'[d].job = K /\ Waiting(d)'
    BY <2>1, <2>3, <2>4 DEF Waiting
  <2>6. ASSUME NEW j \in JobId, Messaged(j) PROVE Messaged(j)'
    <3>1. ASSUME NEW e \in EntryId, stream[e].job = j, Waiting(e) PROVE Messaged(j)'
      <4>1. Waiting(e)' /\ stream'[e].job = j
        BY <2>1, <2>3, <3>1 DEF Waiting
      <4> QED
        BY <4>1 DEF Messaged
    <3>2. ASSUME NEW b \in Apis, api[b].pc = "publish", api[b].job = j PROVE Messaged(j)'
      <4>1. CASE b = a
        BY <2>5, <3>2, <4>1 DEF Messaged
      <4>2. CASE b # a
        BY <2>1, <3>2, <4>2 DEF Messaged
      <4> QED
        BY <4>1, <4>2
    <3> QED
      BY <2>1, <2>6, <3>1, <3>2 DEF Messaged
  <2>7. ASSUME NEW j \in JobId, Moves(j) PROVE Moves(j)'
    BY <2>1, <2>6, <2>7 DEF Moves, Fit
  <2>8. ASSUME NEW w \in Workers, Settles(w) PROVE Settles(w)'
    BY <2>1, <2>8 DEF Settles
  <2>9. ASSUME NEW b \in Apis, api[b].pc = "create" PROVE api'[b].pc = "create"
    BY <2>1, <2>9
  <2> QED
    BY <2>2, <2>7, <2>8, <2>9 DEF Carried
<1> QED
  BY <1>1, <1>2, <1>3 DEF ApiStep

(* Whatever happens short of a crash, or of a lease lapsing in live hands, an
   active run is carried on.                                                 *)
LEMMA NextCarry ==
  ASSUME IInv, ClaimInv, OInv, EntryInv, FreshInv, CarryInv, [Next]_vars
  PROVE  CarryInv'
<1> SUFFICES ASSUME Calm', Active' PROVE Carried'
  BY DEF CarryInv
<1>0. TInv /\ run \in RunRow /\ Calm /\ past.lapses = 0 /\ ~Happens("crashes") /\ ~Happens("lapses")
  BY CalmBefore DEF IInv, TInv, TypeOK
<1>1. Onwards
  BY <1>0, NextGrows DEF Onwards
<1>2. Active => Carried
  BY <1>0 DEF CarryInv
<1>3. ASSUME NEW w \in Workers, Proceed(w) PROVE Carried'
  BY <1>1, <1>2, <1>3, PickUpCarries, WorkCarries, SettlingCarries, EndingCarries,
     MessageCarries, CreateNextCarries DEF Proceed
<1>4. ASSUME NEW w \in Workers, Serve(w) \/ MidWork(w) \/ WorkFails(w) PROVE Carried'
  BY <1>1, <1>2, <1>4, ServeCarries, WorkCarries
<1>5. ASSUME NEW a \in Apis, Resume(a) \/ ApiStep(a) PROVE Carried'
  BY <1>1, <1>2, <1>5, ApiCarries
<1>6. CASE RequestPause \/ RequestCancel
  <2>1. /\ UNCHANGED <<jobs, stream, scheduled, wk, api>>
        /\ run.state \notin Terminal
    BY <1>6 DEF RequestPause, RequestCancel
  <2>2. run'.state = run.state /\ run.state # "paused"
    <3>1. CASE RequestPause
      BY <1>0, <3>1, MoveRunIs DEF RequestPause, Active, RunRow
    <3>2. CASE RequestCancel
      BY <1>0, <3>2 DEF RequestCancel, Active, RunRow, Terminal
    <3> QED
      BY <1>6, <3>1, <3>2
  <2>3. Carried
    BY <1>2, <2>1, <2>2 DEF Active
  <2> QED
    BY <1>0, <2>1, <2>2, <2>3, SameCarries
<1>7. ASSUME NEW j \in JobId, LeaseLapses(j) PROVE Carried'
  <2>1. UNCHANGED <<run, stream, scheduled, wk, api>>
    BY <1>7 DEF LeaseLapses
  <2>2. \A i \in JobId : jobs'[i].state = jobs[i].state /\ jobs'[i].stage = jobs[i].stage
    BY <1>0, <1>7 DEF LeaseLapses, TInv, TypeOK, JobRow
  <2> QED
    BY <1>0, <1>2, <2>1, <2>2, SameCarries DEF Active
<1>8. CASE UNCHANGED vars
  BY <1>0, <1>2, <1>8, SameCarries DEF vars, Active
<1> QED
  BY <1>0, <1>3, <1>4, <1>5, <1>6, <1>7, <1>8 DEF Next, WorkerStep, WorkerCrash, ApiCrash

LEMMA InitCarry ==
  ASSUME Init
  PROVE  EntryInv /\ FreshInv /\ CarryInv
<1>1. /\ \A w \in Workers : wk[w].pc = "idle" /\ wk[w].seen = "queued"
      /\ \A j \in JobId : jobs[j].stage = FirstStage /\ jobs[j].state = "absent"
      /\ \A a \in Apis : api[a].stage = FirstStage
      /\ \E a \in Apis : api[a].pc = "create"
      /\ scheduled = {} /\ ~run.pause /\ ~run.cancel
  BY DEF Init, Resting, ApiResting
<1>2. EntryInv
  BY <1>1 DEF EntryInv, EntryOK, JobPcs, Holding
<1>3. FreshInv
  BY <1>1 DEF FreshInv, Fresh
<1>4. CarryInv
  BY <1>1 DEF CarryInv, Carried
<1> QED
  BY <1>2, <1>3, <1>4

(* While no process dies and no beat is late, an active or queued run always
   has something that will move it on, whatever is paused, resumed, cancelled,
   retried, redelivered or refused: for every number of workers and of API
   processes (process_message, reap_orphaned_jobs, promote_due, advance).    *)
THEOREM NeverLeftStranded == Spec => []NeverStranded
<1> DEFINE MInv == EntryInv /\ FreshInv /\ CarryInv
<1>1. Init => MInv
  BY InitCarry
<1>2. IInv /\ ClaimInv /\ OInv /\ MInv /\ [Next]_vars => MInv'
  BY NextEntry, NextFresh, NextCarry
<1>3. MInv => NeverStranded
  <2> SUFFICES ASSUME CarryInv, Calm, Active PROVE DrivenBy
    BY DEF NeverStranded, Calm, Active
  <2>1. CASE \E a \in Apis : api[a].pc = "create"
    BY <2>1 DEF DrivenBy
  <2>2. ASSUME NEW j \in JobId, Moves(j) PROVE DrivenBy
    BY <2>2 DEF Moves, Messaged, Waiting, AtMessage, DrivenBy
  <2>3. ASSUME NEW w \in Workers, Settles(w) PROVE DrivenBy
    BY <2>3 DEF Settles, DrivenBy
  <2> QED
    BY <2>1, <2>2, <2>3 DEF CarryInv, Carried
<1> HIDE DEF MInv
<1> QED
  BY <1>1, <1>2, <1>3, Inductive, ClaimInductive, OrderInductive, PTL DEF Spec
=============================================================================
