----------------------------- MODULE RunPipeline -----------------------------
(***************************************************************************)
(* One run driven through its stages: the API (runs/service.py and the     *)
(* start and resume paths of runs/coordinator.py), the job rows and their  *)
(* leases (progress/heartbeat.py), the broker (queue/streams.py), and the  *)
(* workers with their reaper (worker/main.py).                             *)
(*                                                                         *)
(* An action is what happens up to one commit to Postgres or one command   *)
(* to Redis, so a crash or another process can come between any two.  A    *)
(* transition re-reads the run and updates it under a guard on the state   *)
(* read; here it is one step, refused when it is illegal, and perhaps when    *)
(* the run has moved since the worker's previous step.                     *)
(*                                                                         *)
(* Time is abstracted: a lease may lapse and a pending message may become  *)
(* idle enough to be reclaimed at any moment the code does not prevent it. *)
(***************************************************************************)
EXTENDS RunStates

CONSTANTS
  Workers,       \* worker processes
  Apis,          \* API processes that start and resume the run
  MaxJobs,       \* bound: job rows
  MaxEntries,    \* bound: stream entries
  MaxAttempts,   \* retry_max_attempts
  Envelope,      \* bound: what the environment may do, by numbers of each kind
  CrashAt        \* the program points at which a process may die

JobId == 1 .. MaxJobs
EntryId == 1 .. MaxEntries

Queue(stage) == CASE stage = "discovering" -> "discover"
                  [] stage = "fetching"    -> "fetch"
                  [] OTHER                 -> "analyze"

ASSUME BoundsAssumption ==
  /\ MaxJobs \in Nat \ {0}
  /\ MaxEntries \in Nat \ {0}
  /\ MaxAttempts \in Nat \ {0}
  /\ Envelope \subseteq [pauses : Nat, failures : Nat, crashes : Nat, lapses : Nat]

WorkerPc == {"idle", "flags", "stopEarly", "claim", "enter", "check",
             "stopCheck", "work", "stopWork", "finish", "createNext",
             "publish", "finalize", "failJob", "resched", "dlq", "deadJob",
             "failRun", "ack", "promote", "reapFlags", "reapSettle"}

ApiPc == {"idle", "create", "publish"}

\* The program points between winning the claim and settling the job.
Holding == {"enter", "check", "stopCheck", "work", "stopWork", "finish",
            "failJob", "dlq", "deadJob"}

VARIABLES
  run,        \* the Run row
  jobs,       \* the Job rows; "absent" is a row not yet inserted
  stream,     \* the entries of the queue streams, in the order they were added
  scheduled,  \* the ZSETs of messages waiting out their backoff
  dlq,        \* the jobs with an entry on a dead-letter stream
  wk,         \* each worker: program point, entry, job, and what it has read
  api,        \* each API process: program point, stage and job
  past        \* what the environment has done: pauses asked for, attempts that
              \* raised, processes that died, leases that lapsed in live hands

vars == <<run, jobs, stream, scheduled, dlq, wk, api, past>>

RunRow == [state : RunState, pause : BOOLEAN, cancel : BOOLEAN,
           from : Stages \cup {"none"}]
JobRow == [stage : Stages, state : JobState \cup {"absent"},
           leased : BOOLEAN, parent : JobId \cup {0}]
Message == [job : JobId, attempts : Nat]
Entry == [job : JobId, attempts : Nat,
          st : {"absent", "new", "pending", "acked"}]
Worker == [pc : WorkerPc, e : EntryId \cup {0}, j : JobId \cup {0},
           seen : RunState, to : RunState, attempts : Nat]
Api == [pc : ApiPc, stage : Stages, job : JobId \cup {0}]
Past == [pauses : Nat, failures : Nat, crashes : Nat, lapses : Nat]

TypeOK ==
  /\ run \in RunRow
  /\ jobs \in [JobId -> JobRow]
  /\ stream \in [EntryId -> Entry]
  /\ scheduled \subseteq Message
  /\ dlq \subseteq JobId
  /\ wk \in [Workers -> Worker]
  /\ api \in [Apis -> Api]
  /\ past \in Past

Resting == [pc |-> "idle", e |-> 0, j |-> 0, seen |-> "queued",
            to |-> "queued", attempts |-> 0]
ApiResting == [pc |-> "idle", stage |-> FirstStage, job |-> 0]

\* create_run has committed; some API process is about to enqueue the first stage.
Init ==
  /\ run = [state |-> "queued", pause |-> FALSE, cancel |-> FALSE,
            from |-> "none"]
  /\ jobs = [j \in JobId |-> [stage |-> FirstStage, state |-> "absent",
                              leased |-> FALSE, parent |-> 0]]
  /\ stream = [e \in EntryId |-> [job |-> 1, attempts |-> 0, st |-> "absent"]]
  /\ scheduled = {}
  /\ dlq = {}
  /\ wk = [w \in Workers |-> Resting]
  /\ \E a \in Apis :
       api = [b \in Apis |-> IF b = a THEN [ApiResting EXCEPT !.pc = "create"]
                                      ELSE ApiResting]
  /\ past = [pauses |-> 0, failures |-> 0, crashes |-> 0, lapses |-> 0]

\* The environment acts, within its bounds.
Happens(kind) == /\ past' = [past EXCEPT ![kind] = @ + 1]
                 /\ past' \in Envelope
-----------------------------------------------------------------------------
(* The run row. *)

\* _apply_transition: the state moves along a legal edge, with extra values.
MoveRun(to, from, pause) ==
  /\ CanTransition(run.state, to)
  /\ run' = [run EXCEPT !.state = to, !.from = from, !.pause = pause]

\* TransitionConflict, or InvalidTransition, for a worker's transition.
Refused(w, to) == ~CanTransition(run.state, to) \/ run.state # wk[w].seen

\* request_pause: a queued run is held at once, any other at a checkpoint.
RequestPause ==
  /\ run.state \notin Terminal
  /\ Happens("pauses")
  /\ IF run.state = "queued" THEN MoveRun("paused", run.from, TRUE)
                             ELSE run' = [run EXCEPT !.pause = TRUE]
  /\ UNCHANGED <<jobs, stream, scheduled, dlq, wk, api>>

\* request_cancel: nothing holds a queued or a paused run, so it ends at once.
RequestCancel ==
  /\ run.state \notin Terminal
  /\ run' = [run EXCEPT !.cancel = TRUE,
                        !.state = IF @ \in {"queued", "paused"}
                                  THEN "cancelled" ELSE @]
  /\ UNCHANGED <<jobs, stream, scheduled, dlq, wk, api, past>>

\* resume: back to the stage that was left, the pause request withdrawn.
Resume(a) ==
  /\ api[a].pc = "idle"
  /\ run.state = "paused"
  /\ LET stage == IF run.from = "none" THEN FirstStage ELSE run.from
     IN  /\ MoveRun(stage, run.from, FALSE)
         /\ api' = [api EXCEPT ![a] = [pc |-> "create", stage |-> stage,
                                       job |-> 0]]
  /\ UNCHANGED <<jobs, stream, scheduled, dlq, wk, past>>
-----------------------------------------------------------------------------
(* Jobs and messages. *)

\* create_stage_job: rows are inserted in the order of created_at.
CreateJob(j, stage, parent) ==
  /\ jobs[j].state = "absent"
  /\ \A i \in 1 .. j - 1 : jobs[i].state # "absent"
  /\ jobs' = [jobs EXCEPT ![j] = [stage |-> stage, state |-> "queued",
                                  leased |-> FALSE, parent |-> parent]]

\* XADD.
Append1(j, attempts) ==
  \E e \in EntryId :
    /\ stream[e].st = "absent"
    /\ \A d \in 1 .. e - 1 : stream[d].st # "absent"
    /\ stream' = [stream EXCEPT ![e] = [job |-> j, attempts |-> attempts,
                                        st |-> "new"]]

\* The job row and its message are two steps of enqueue_stage.
ApiCreate(a) ==
  /\ api[a].pc = "create"
  /\ \E j \in JobId :
       /\ CreateJob(j, api[a].stage, 0)
       /\ api' = [api EXCEPT ![a] = [@ EXCEPT !.pc = "publish", !.job = j]]
  /\ UNCHANGED <<run, stream, scheduled, dlq, wk, past>>

ApiPublish(a) ==
  /\ api[a].pc = "publish"
  /\ Append1(api[a].job, 0)
  /\ api' = [api EXCEPT ![a] = ApiResting]
  /\ UNCHANGED <<run, jobs, scheduled, dlq, wk, past>>

\* Mutant: the claim does not look at the lease.
ClaimableOnLease(j) == jobs[j].state \in {"queued", "failed", "running"}

\* claim_job: fresh, awaiting a retry, or running on a lapsed lease.
Claimable(j) == \/ jobs[j].state \in {"queued", "failed"}
                \/ jobs[j].state = "running" /\ ~jobs[j].leased

\* finish_job: only a running job is settled, whoever set it running.
Settled(j, to) ==
  IF jobs[j].state = "running"
  THEN [jobs EXCEPT ![j] = [@ EXCEPT !.state = to, !.leased = FALSE]]
  ELSE jobs

\* beat: whoever has the job, the lease is renewed; it matters while it runs.
Beaten(j) == IF jobs[j].state = "running"
             THEN [jobs EXCEPT ![j] = [@ EXCEPT !.leased = TRUE]]
             ELSE jobs
-----------------------------------------------------------------------------
(* A worker. *)

\* What a step has read is forgotten unless a later step uses it.
Goto(w, pc) ==
  wk' = [wk EXCEPT ![w] = [@ EXCEPT !.pc = pc, !.seen = "queued",
                                    !.to = "queued"]]
GotoSeen(w, pc) ==
  wk' = [wk EXCEPT ![w] = [@ EXCEPT !.pc = pc, !.seen = run.state]]
\* A cancel request goes before a pause request.
StopFor == IF run.cancel THEN "cancelled" ELSE "paused"
GotoStop(w, pc) ==
  wk' = [wk EXCEPT ![w] = [@ EXCEPT !.pc = pc, !.seen = run.state,
                                    !.to = StopFor]]
Rest(w) == wk' = [wk EXCEPT ![w] = Resting]

Ack(w) == stream' = [stream EXCEPT ![wk[w].e] = [@ EXCEPT !.st = "acked"]]
AckAndRest(w) == Ack(w) /\ Rest(w)

Take(w, e) ==
  /\ wk[w].pc = "idle"
  /\ stream' = [stream EXCEPT ![e] = [@ EXCEPT !.st = "pending"]]
  /\ wk' = [wk EXCEPT ![w] = [Resting EXCEPT !.pc = "flags", !.e = e,
                                !.j = stream[e].job,
                                !.attempts = stream[e].attempts]]
  /\ UNCHANGED <<run, jobs, scheduled, dlq, api, past>>

\* XREADGROUP: a queue hands out its entries in order.
Deliver(w, e) ==
  /\ stream[e].st = "new"
  /\ \A d \in 1 .. e - 1 :
       stream[d].st = "new" =>
         Queue(jobs[stream[d].job].stage) # Queue(jobs[stream[e].job].stage)
  /\ Take(w, e)

\* XAUTOCLAIM: idle time runs from delivery, so it may be a live peer's entry.
Reclaim(w, e) ==
  /\ stream[e].st = "pending"
  /\ Take(w, e)

\* process_message up to the claim: one read of the control flags.
ReadFlags(w) ==
  /\ wk[w].pc = "flags"
  /\ \/ /\ run.state \in Terminal \cup {"paused"}
        /\ AckAndRest(w)
     \/ /\ run.state \notin Terminal \cup {"paused"}
        /\ UNCHANGED stream
        /\ IF run.cancel \/ run.pause THEN GotoStop(w, "stopEarly")
                                      ELSE GotoSeen(w, "claim")
  /\ UNCHANGED <<run, jobs, scheduled, dlq, api, past>>

Claim(w) ==
  /\ wk[w].pc = "claim"
  /\ IF Claimable(wk[w].j)
     THEN /\ jobs' = [jobs EXCEPT ![wk[w].j] =
                        [@ EXCEPT !.state = "running", !.leased = TRUE]]
          /\ wk' = [wk EXCEPT ![w] = [@ EXCEPT !.pc = "enter"]]
          /\ UNCHANGED stream
     ELSE AckAndRest(w) /\ UNCHANGED jobs
  /\ UNCHANGED <<run, scheduled, dlq, api, past>>

\* _enter_stage: refused, the message is dropped and the job is left running.
EnterStage(w) ==
  /\ wk[w].pc = "enter"
  /\ LET stage == jobs[wk[w].j].stage
     IN  \/ /\ wk[w].seen = stage
            /\ Goto(w, "check")
            /\ UNCHANGED <<run, stream>>
         \/ /\ wk[w].seen # stage
            /\ MoveRun(stage, run.from, run.pause)
            /\ Goto(w, "check")
            /\ UNCHANGED stream
         \/ /\ wk[w].seen # stage
            /\ Refused(w, stage)
            /\ AckAndRest(w)
            /\ UNCHANGED run
  /\ UNCHANGED <<jobs, scheduled, dlq, api, past>>

\* A checkpoint of the loop before the work: read the flags, else beat.
Checkpoint(w) ==
  /\ wk[w].pc = "check"
  /\ IF run.cancel \/ run.pause
     THEN GotoStop(w, "stopCheck") /\ UNCHANGED jobs
     ELSE /\ Goto(w, "work")
          /\ jobs' = Beaten(wk[w].j)
  /\ UNCHANGED <<run, stream, scheduled, dlq, api, past>>

\* Inside a long stage: a beat, or a ControlInterrupt.
MidWork(w) ==
  /\ wk[w].pc = "work"
  /\ \/ /\ run.cancel \/ run.pause
        /\ GotoStop(w, "stopWork")
        /\ UNCHANGED jobs
     \/ /\ jobs' = Beaten(wk[w].j)
        /\ UNCHANGED wk
  /\ UNCHANGED <<run, stream, scheduled, dlq, api, past>>

\* _handle_failure decides from the message's own attempt count.
Failed(w, fatal) ==
  Goto(w, IF ~fatal /\ wk[w].attempts + 1 < MaxAttempts THEN "failJob" ELSE "dlq")

WorkDone(w) ==
  /\ wk[w].pc = "work"
  /\ Goto(w, "finish")
  /\ UNCHANGED <<run, jobs, stream, scheduled, dlq, api, past>>

WorkFails(w) ==
  /\ wk[w].pc \in {"check", "work"}
  /\ Happens("failures")
  /\ \E fatal \in BOOLEAN : Failed(w, fatal)
  /\ UNCHANGED <<run, jobs, stream, scheduled, dlq, api>>

(* _to_paused and _to_cancelled.  Refused, the exception leaves the message
   pending, except in the checkpoint loop, where the stage's own handler
   catches it and routes it to a retry.                                    *)
StopRun(w) ==
  /\ wk[w].pc \in {"stopEarly", "stopCheck", "stopWork"}
  /\ \/ /\ MoveRun(wk[w].to,
                   IF wk[w].to = "paused" THEN jobs[wk[w].j].stage ELSE run.from,
                   run.pause)
        /\ Goto(w, "ack")
     \/ /\ Refused(w, wk[w].to)
        /\ UNCHANGED run
        /\ IF wk[w].pc = "stopCheck" THEN Failed(w, FALSE) ELSE Rest(w)
  /\ UNCHANGED <<jobs, stream, scheduled, dlq, api, past>>

\* Mutant: a worker whose finish was not counted advances the run as well.
FinishAlwaysAdvances(w) ==
  /\ wk[w].pc = "finish"
  /\ jobs' = Settled(wk[w].j, "succeeded")
  /\ GotoSeen(w, IF HasNext(jobs[wk[w].j].stage) THEN "createNext"
                                                 ELSE "finalize")
  /\ UNCHANGED <<run, stream, scheduled, dlq, api, past>>

\* finish_job(SUCCEEDED): the winner advances the run.
AfterFinish(j) == IF jobs[j].state # "running" THEN "ack"
                  ELSE IF HasNext(jobs[j].stage) THEN "createNext"
                  ELSE "finalize"
Finish(w) ==
  /\ wk[w].pc = "finish"
  /\ jobs' = Settled(wk[w].j, "succeeded")
  /\ GotoSeen(w, AfterFinish(wk[w].j))
  /\ UNCHANGED <<run, stream, scheduled, dlq, api, past>>

\* advance: the next stage's job, then its message.
CreateNext(w) ==
  /\ wk[w].pc = "createNext"
  /\ \E j \in JobId :
       /\ CreateJob(j, NextStage(jobs[wk[w].j].stage), wk[w].j)
       /\ wk' = [wk EXCEPT ![w] = [@ EXCEPT !.pc = "publish", !.j = j,
                                            !.attempts = 0]]
  /\ UNCHANGED <<run, stream, scheduled, dlq, api, past>>

Publish(w) ==
  /\ wk[w].pc = "publish"
  /\ Append1(wk[w].j, 0)
  /\ Goto(w, "ack")
  /\ UNCHANGED <<run, jobs, scheduled, dlq, api, past>>

\* advance after the last stage: done or partial, by the assets' statuses.
Finalize(w) ==
  /\ wk[w].pc = "finalize"
  /\ \E to \in {"done", "partial"} :
       \/ MoveRun(to, run.from, run.pause)
       \/ Refused(w, to) /\ UNCHANGED run
  /\ Goto(w, "ack")
  /\ UNCHANGED <<jobs, stream, scheduled, dlq, api, past>>

FailJob(w) ==
  /\ wk[w].pc = "failJob"
  /\ jobs' = Settled(wk[w].j, "failed")
  /\ Goto(w, "resched")
  /\ UNCHANGED <<run, stream, scheduled, dlq, api, past>>

\* Mutant: the job is failed and its message never scheduled.
RescheduleForgotten(w) ==
  /\ wk[w].pc = "resched"
  /\ Goto(w, "ack")
  /\ UNCHANGED <<run, jobs, stream, scheduled, dlq, api, past>>

\* reschedule: the message waits in the ZSET, which keeps one of equal members.
Reschedule(w) ==
  /\ wk[w].pc = "resched"
  /\ scheduled' = scheduled \cup
                    {[job |-> wk[w].j, attempts |-> wk[w].attempts + 1]}
  /\ Goto(w, "ack")
  /\ UNCHANGED <<run, jobs, stream, dlq, api, past>>

DeadLetter(w) ==
  /\ wk[w].pc = "dlq"
  /\ dlq' = dlq \cup {wk[w].j}
  /\ Goto(w, "deadJob")
  /\ UNCHANGED <<run, jobs, stream, scheduled, api, past>>

\* finish_job(DEAD), whose answer is not looked at, then the run's failure.
DeadJob(w) ==
  /\ wk[w].pc = "deadJob"
  /\ jobs' = Settled(wk[w].j, "dead")
  /\ GotoSeen(w, "failRun")
  /\ UNCHANGED <<run, stream, scheduled, dlq, api, past>>

FailRun(w) ==
  /\ wk[w].pc = "failRun"
  /\ \/ MoveRun("failed", run.from, run.pause)
     \/ Refused(w, "failed") /\ UNCHANGED run
  /\ Goto(w, "ack")
  /\ UNCHANGED <<jobs, stream, scheduled, dlq, api, past>>

AckDone(w) ==
  /\ wk[w].pc = "ack"
  /\ AckAndRest(w)
  /\ UNCHANGED <<run, jobs, scheduled, dlq, api, past>>
-----------------------------------------------------------------------------
(* The rest of a worker's loop: promoting due messages and reaping jobs. *)

\* promote_due: out of the ZSET, then onto the stream.
TakeDue(w, m) ==
  /\ wk[w].pc = "idle"
  /\ m \in scheduled
  /\ scheduled' = scheduled \ {m}
  /\ wk' = [wk EXCEPT ![w] = [Resting EXCEPT !.pc = "promote", !.j = m.job,
                                             !.attempts = m.attempts]]
  /\ UNCHANGED <<run, jobs, stream, dlq, api, past>>

Promote(w) ==
  /\ wk[w].pc = "promote"
  /\ Append1(wk[w].j, wk[w].attempts)
  /\ Rest(w)
  /\ UNCHANGED <<run, jobs, scheduled, dlq, api, past>>

\* _mark_job_dead: a running job whose lease has lapsed.
ReapJob(w, j) ==
  /\ wk[w].pc = "idle"
  /\ jobs[j].state = "running"
  /\ ~jobs[j].leased
  /\ jobs' = Settled(j, "dead")
  /\ wk' = [wk EXCEPT ![w] = [Resting EXCEPT !.pc = "reapFlags", !.j = j]]
  /\ UNCHANGED <<run, stream, scheduled, dlq, api, past>>

\* Mutant: the job is dead and the run is left to wait.
ReapFlagsIgnored(w) ==
  /\ wk[w].pc = "reapFlags"
  /\ Rest(w)
  /\ UNCHANGED <<run, jobs, stream, scheduled, dlq, api, past>>

\* reap_orphaned_jobs: what to make of the run, by its flags.
ReapFor == IF run.cancel \/ run.pause THEN StopFor ELSE "failed"
ReapFlags(w) ==
  /\ wk[w].pc = "reapFlags"
  /\ IF run.state \in Terminal
     THEN Rest(w)
     ELSE wk' = [wk EXCEPT ![w] =
                   [@ EXCEPT !.pc = "reapSettle", !.seen = run.state,
                      !.to = ReapFor]]
  /\ UNCHANGED <<run, jobs, stream, scheduled, dlq, api, past>>

ReapSettle(w) ==
  /\ wk[w].pc = "reapSettle"
  /\ \/ MoveRun(wk[w].to,
                IF wk[w].to = "paused" THEN jobs[wk[w].j].stage ELSE run.from,
                run.pause)
     \/ Refused(w, wk[w].to) /\ UNCHANGED run
  /\ Rest(w)
  /\ UNCHANGED <<jobs, stream, scheduled, dlq, api, past>>
-----------------------------------------------------------------------------
(* Time and crashes. *)

Holds(w, j) == wk[w].j = j /\ wk[w].pc \in Holding

\* A lease nobody has renewed for the stall threshold; a holder may be that late.
LeaseLapses(j) ==
  /\ jobs[j].state = "running"
  /\ jobs[j].leased
  /\ jobs' = [jobs EXCEPT ![j] = [@ EXCEPT !.leased = FALSE]]
  /\ \/ (\E w \in Workers : Holds(w, j)) /\ Happens("lapses")
     \/ (\A w \in Workers : ~Holds(w, j)) /\ UNCHANGED past
  /\ UNCHANGED <<run, stream, scheduled, dlq, wk, api>>

\* A worker dies and is restarted; what it had read is gone, its PEL entry is not.
WorkerCrash(w) ==
  /\ wk[w].pc \in CrashAt
  /\ Happens("crashes")
  /\ Rest(w)
  /\ UNCHANGED <<run, jobs, stream, scheduled, dlq, api>>

ApiCrash(a) ==
  /\ api[a].pc \in CrashAt
  /\ Happens("crashes")
  /\ api' = [api EXCEPT ![a] = ApiResting]
  /\ UNCHANGED <<run, jobs, stream, scheduled, dlq, wk>>
-----------------------------------------------------------------------------
\* An idle worker's pass: reap, promote, reclaim, read.
Serve(w) == \/ \E j \in JobId : ReapJob(w, j)
            \/ \E m \in scheduled : TakeDue(w, m)
            \/ \E e \in EntryId : Reclaim(w, e) \/ Deliver(w, e)

\* A busy worker's next step towards its acknowledgement.
Proceed(w) ==
  \/ ReadFlags(w) \/ Claim(w) \/ EnterStage(w) \/ Checkpoint(w)
  \/ WorkDone(w) \/ StopRun(w) \/ Finish(w) \/ CreateNext(w) \/ Publish(w)
  \/ Finalize(w) \/ FailJob(w) \/ Reschedule(w) \/ DeadLetter(w)
  \/ DeadJob(w) \/ FailRun(w) \/ AckDone(w) \/ Promote(w) \/ ReapFlags(w)
  \/ ReapSettle(w)

WorkerStep(w) == Serve(w) \/ Proceed(w) \/ MidWork(w) \/ WorkFails(w)
                 \/ WorkerCrash(w)

ApiStep(a) == ApiCreate(a) \/ ApiPublish(a)

Next == \/ RequestPause \/ RequestCancel
        \/ \E a \in Apis : Resume(a) \/ ApiStep(a) \/ ApiCrash(a)
        \/ \E w \in Workers : WorkerStep(w)
        \/ \E j \in JobId : LeaseLapses(j)

Spec == Init /\ [][Next]_vars

(* Workers poll for ever and a stage ends; an API process that has begun to
   enqueue carries on; a lease nobody renews lapses.  Nobody has to pause,
   resume or cancel, and nothing has to fail.                              *)
Fairness ==
  /\ \A w \in Workers : WF_vars(Serve(w)) /\ WF_vars(Proceed(w))
  /\ \A a \in Apis : WF_vars(ApiStep(a))
  /\ \A j \in JobId :
       WF_vars(LeaseLapses(j) /\ \A w \in Workers : ~Holds(w, j))

FairSpec == Spec /\ Fairness
-----------------------------------------------------------------------------
(* Safety. *)

\* The stages some job of the run has completed.
Completed == {jobs[j].stage : j \in {i \in JobId : jobs[i].state = "succeeded"}}

(* The pipeline implements the lifecycle the run service promises: however
   often messages are redelivered, jobs reclaimed and stages resumed, the run
   moves along the table, enters a stage only when every earlier one has been
   completed, and is finalized only when all have (process_message, advance). *)
Lifecycle == INSTANCE RunLifecycle WITH state <- run.state, completed <- Completed
ImplementsLifecycle == Lifecycle!Spec

(* The claim and finish gates: however many workers process the same job, at
   most one of them advances the run past it (ADR-0001, "a run can't
   double-advance").                                                        *)
AdvancesOnce ==
  \A i, k \in JobId :
    /\ jobs[i].parent # 0
    /\ jobs[i].parent = jobs[k].parent
    => i = k

(* A job that has succeeded or is dead stays so: no late worker, retry or
   reaper brings it back (claim_job, finish_job, _mark_job_dead).           *)
SettledJobsStay ==
  [][\A j \in JobId : jobs[j].state \in {"succeeded", "dead"}
                        => jobs'[j].state = jobs[j].state]_vars

(* While no process dies and no beat is late, a run that is active or queued
   has something that will move it on: an API request still enqueueing, a
   message waiting, scheduled or being handled, or a running job whose lease
   will lapse into the reaper's hands.                                      *)
DrivenBy ==
  \/ \E a \in Apis : api[a].pc # "idle"
  \/ scheduled # {}
  \/ \E e \in EntryId : stream[e].st \in {"new", "pending"}
  \/ \E w \in Workers : wk[w].pc # "idle"
  \/ \E j \in JobId : jobs[j].state = "running"

NeverStranded ==
  past.crashes + past.lapses = 0 /\ run.state \notin Terminal \cup {"paused"} => DrivenBy

(* While beats are timely, the claim is exclusive: two workers never work on
   the same job (process_message, "exactly one worker may hold a job").     *)
ExclusiveClaim ==
  past.lapses = 0 =>
    \A v, w \in Workers : \A j \in JobId :
      Holds(v, j) /\ Holds(w, j) => v = w
-----------------------------------------------------------------------------
(* Liveness. *)

(* Every run is settled or held in the end: nothing in the queue, the retries
   or the reaper goes round for ever, and nothing waits for ever.           *)
RunSettles == <>[](run.state \in Terminal \cup {"paused"})
=============================================================================
