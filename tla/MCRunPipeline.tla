---------------------------- MODULE MCRunPipeline ----------------------------
(***************************************************************************)
(* Instances of RunPipeline for TLC.                                       *)
(***************************************************************************)
EXTENDS RunPipelineClaims, TLC

CONSTANTS w1, w2, a1

\* The pipeline cut to its first and last stage.
TwoStages == <<"discovering", "correlating">>

EnterPoint == {"enter"}

\* Every program point of a worker and of an API process.
AnyPoint == (WorkerPc \cup ApiPc) \ {"idle"}

(* The points at which a crash is made up for by redelivery or by the reaper.
   The others lie between two commits nothing reconciles: a claim and the
   stage's entry, a settled job and what should follow from it, a job row and
   its message, a ZSET member taken out and the stream entry it becomes.     *)
CoveredPoint == AnyPoint \ {"enter", "createNext", "create", "publish",
                            "finalize", "resched", "failRun", "promote",
                            "reapFlags", "reapSettle"}

\* At most these numbers of pauses, failures, crashes and late lapses, and in all.
UpTo(p, f, c, l, total) ==
  {v \in [pauses : 0 .. p, failures : 0 .. f, crashes : 0 .. c, lapses : 0 .. l] :
     v.pauses + v.failures + v.crashes + v.lapses <= total}

OneCrash == UpTo(0, 0, 1, 0, 1)
CrashAndFailure == UpTo(0, 1, 1, 0, 2)
AnyTwo == UpTo(1, 1, 1, 1, 2)

WorkerSymmetry == Permutations({w1, w2})
=============================================================================
