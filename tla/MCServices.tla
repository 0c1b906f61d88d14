------------------------------ MODULE MCServices ------------------------------
(***************************************************************************)
(* Instances for TLC of the services that share no state with one another. *)
(***************************************************************************)
EXTENDS Services, TLC

\* At most one of the accidents named, and the pairs of them that interact.
Only(names, all) == [n \in all |-> IF n \in names THEN 1 ELSE 0]
OneOf(sets, all) == {Only(names, all) : names \in sets}

\* Two bundles: the first can never be read, the second has a source map.
TwoBundles == <<"x", "y">>
SomeTrouble == OneOf({{"crashes", "outages"}, {"lapses", "deletes"}, {"outages", "lapses"}},
                     {"crashes", "outages", "lapses", "deletes"})

SomeFailures == OneOf({{"restarts"}, {"slow"}, {"writes"}, {"deletes"}},
                      {"restarts", "slow", "writes", "deletes"})

ThreeStates == <<"queued", "analyzing", "done">>
(* A pause, which doubles the events; one accident of each of two kinds; or
   three broken connections.                                               *)
AllHitches == {"lost", "broken", "requests", "restarts", "pauses"}
SomeHitches ==
  OneOf({{"pauses"}, {"lost", "broken"}, {"lost", "requests"}, {"broken", "restarts"}},
        AllHitches)
  \cup {[Only({}, AllHitches) EXCEPT !["broken"] = 3]}
=============================================================================
