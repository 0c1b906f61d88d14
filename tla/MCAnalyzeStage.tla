---------------------------- MODULE MCAnalyzeStage ----------------------------
(***************************************************************************)
(* Instances of AnalyzeStage for TLC: two assets that share a finding, one *)
(* with a finding of its own, one with a sighting only the wrapper shows.  *)
(***************************************************************************)
EXTENDS AnalyzeStage, FiniteSetsExt

CONSTANTS a1, a2, f1, f2, api

MCUrl == {a1, a2}

MCNative == [u \in MCUrl |-> IF u = a1 THEN {f1} ELSE {f1, f2}]

MCTaught == [u \in MCUrl |-> IF u = a1 THEN {f1} ELSE {}]

MCBad == {{}, {a2}}

Kinds == {"crashes", "lapses", "pauses", "outages", "faults", "lessons"}

\* One of each kind in the set, none of another.
Just(kinds) == [k \in Kinds |-> IF k \in kinds THEN 1 ELSE 0]

\* Any two; three writers at once are too many.
AnyTwo == {Just(kinds) : kinds \in kSubset(2, Kinds) \ {{"lessons", "lapses"}}}
=============================================================================
