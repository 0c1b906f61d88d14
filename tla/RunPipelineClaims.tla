-------------------------- MODULE RunPipelineClaims --------------------------
(***************************************************************************)
(* What the repository's documents and comments say of a run's pipeline    *)
(* and the code does not do.  Each formula is the claim; the run that      *)
(* checks it shows the behaviour that breaks it.                           *)
(***************************************************************************)
EXTENDS RunPipeline

(* reap_orphaned_jobs: "Settles cancel/pause/failure in <=one run_once cycle
   instead of waiting forever" for a run whose worker died.                 *)
DeadWorkersRunSettles == <>[](run.state \in Terminal \cup {"paused"})
=============================================================================
