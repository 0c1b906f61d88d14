------------------------------ MODULE RunStates ------------------------------
(***************************************************************************)
(* The run state machine of recon/runs/state_machine.py over the enums of  *)
(* recon/domain.py: the ordered stages, the control and terminal states,   *)
(* and the table of legal transitions.  Nothing here has state.            *)
(***************************************************************************)
EXTENDS Naturals, Sequences

CONSTANT StageOrder   \* STAGE_ORDER: the active stages, in execution order

Stages == {StageOrder[i] : i \in DOMAIN StageOrder}

\* TERMINAL_STATES.
Terminal == {"done", "partial", "failed", "cancelled"}

\* RunState: while a run is active its state is the current stage.
RunState == Stages \cup Terminal \cup {"queued", "paused"}

JobState == {"queued", "running", "succeeded", "failed", "dead"}

(* There is at least one stage, no stage appears twice, and a stage is not a
   control or terminal state: the members of two disjoint parts of an enum.  *)
ASSUME StageOrderAssumption ==
  /\ Len(StageOrder) \in Nat \ {0}
  /\ DOMAIN StageOrder = 1 .. Len(StageOrder)
  /\ \A i, k \in DOMAIN StageOrder : StageOrder[i] = StageOrder[k] => i = k
  /\ Stages \cap (Terminal \cup {"queued", "paused", "none"}) = {}

FirstStage == StageOrder[1]

IndexOf(stage) == CHOOSE i \in DOMAIN StageOrder : StageOrder[i] = stage

\* Mutant: the last stage is taken for the end of the order.
HasNextOffByOne(stage) == IndexOf(stage) + 1 < Len(StageOrder)

\* next_stage: None past the end is the absence of a next stage here.
HasNext(stage) == IndexOf(stage) < Len(StageOrder)
NextStage(stage) == StageOrder[IndexOf(stage) + 1]

\* The stages that come before a stage in the order.
Before(stage) == {s \in Stages : IndexOf(s) < IndexOf(stage)}

\* The edges of the linear walk.
Onward(frm) ==
  CASE frm = "queued"  -> {FirstStage}
    [] frm \in Stages  -> IF HasNext(frm) THEN {NextStage(frm)}
                                          ELSE {"done", "partial"}
    [] OTHER           -> {}

\* ALLOWED: the walk, plus the ways a run leaves it.
Allowed(frm) ==
  Onward(frm) \cup
  CASE frm \in Stages  -> {"paused", "failed", "cancelled", "partial"}
    [] frm = "queued"  -> {"paused", "cancelled"}
    [] frm = "paused"  -> Stages \cup {"cancelled", "failed"}
    [] OTHER           -> {}

CanTransition(frm, to) == to \in Allowed(frm)
=============================================================================
