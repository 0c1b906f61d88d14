---------------------------- MODULE MCCaptureIngest ----------------------------
(***************************************************************************)
(* An instance of CaptureIngest for TLC.  Both uploads carry more versions *)
(* of u than the cap leaves room for, one of them repeats a file and       *)
(* carries one too large, and two requests to analyze race them.           *)
(***************************************************************************)
EXTENDS CaptureIngest, TLC

CONSTANTS u, w, c1, c2, c3, c4, big, b1, b2, s1, s2

Capture(url, bytes, map) == [url |-> url, bytes |-> bytes, map |-> map]

MCFiles == (b1 :> <<Capture(u, c1, "held"), Capture(u, c2, "none"), Capture(u, c3, "none")>>)
  @@ (b2 :> <<Capture(u, c4, "none"), Capture(u, c2, "none"), Capture(u, c4, "none"),
              Capture(w, c1, "oversized"), Capture(u, big, "none")>>)

MCBind == (b1 :> "known") @@ (b2 :> "unknown")

\* One crash, one storage failure or one deleted session.
OneMishap == {v \in [crashes : 0 .. 1, outages : 0 .. 1, deletes : 0 .. 1] :
                v.crashes + v.outages + v.deletes = 1}
=============================================================================
