----------------------------- MODULE MCFetchStage -----------------------------
(***************************************************************************)
(* An instance of FetchStage for TLC: an asset that names a chunk that     *)
(* names another, and one with a source map and a webpack runtime.         *)
(***************************************************************************)
EXTENDS FetchStage

CONSTANTS a1, a2, c1, c2

MCUrl == {a1, a2, c1, c2}

MCImports ==
  [u \in MCUrl |-> CASE u = a1 -> {c1} [] u \in {a2, c1} -> {c2} [] OTHER -> {}]

Mishaps(c, l, p) == [crashes |-> c, lapses |-> l, pauses |-> p]

\* A lapsed lease, or a crash and a pause.
LapseOrBoth == {Mishaps(0, 1, 0), Mishaps(1, 0, 1)}
=============================================================================
