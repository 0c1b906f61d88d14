---------------------------- MODULE RunLifecycle ----------------------------
(***************************************************************************)
(* What the run service promises about one run, with no queue, no job and  *)
(* no worker: the state moves only along the table of legal transitions, a *)
(* stage is entered only when every earlier stage has been completed, and  *)
(* the run is finalized only when all of them have.                        *)
(***************************************************************************)
EXTENDS RunStates

VARIABLES state,      \* runs.state
          completed   \* the stages some job of the run has completed

vars == <<state, completed>>

LifecycleTypeOK == /\ state \in RunState
                   /\ completed \subseteq Stages

Init == /\ state = "queued"
        /\ completed = {}

\* A job of the stage finishes; the earlier stages are complete by then.
Complete(stage) ==
  /\ Before(stage) \subseteq completed
  /\ completed' = completed \cup {stage}
  /\ UNCHANGED state

\* The run enters a stage: onward, or back in from a pause.
Enter(stage) ==
  /\ CanTransition(state, stage)
  /\ Before(stage) \subseteq completed
  /\ state' = stage
  /\ UNCHANGED completed

\* The last stage is complete: the run becomes done or partial.
Finalize(to) ==
  /\ to \in {"done", "partial"}
  /\ CanTransition(state, to)
  /\ Stages \subseteq completed
  /\ state' = to
  /\ UNCHANGED completed

\* The run is held, or stopped for good, from wherever it is.
Stop(to) ==
  /\ to \in {"paused", "cancelled", "failed"}
  /\ CanTransition(state, to)
  /\ state' = to
  /\ UNCHANGED completed

Next == \/ \E stage \in Stages : Complete(stage) \/ Enter(stage)
        \/ \E to \in RunState : Finalize(to) \/ Stop(to)

Spec == Init /\ [][Next]_vars
=============================================================================
