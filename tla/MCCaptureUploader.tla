-------------------------- MODULE MCCaptureUploader --------------------------
(***************************************************************************)
(* Instances of CaptureUploader for TLC.                                   *)
(***************************************************************************)
EXTENDS CaptureUploader

CONSTANTS c1, c2, tA, tB

\* At most these numbers of teardowns, failures, failed reads of the outbox,
\* rejects and expiries, and in all.
UpTo(t, f, o, r, x, total) ==
  {v \in [teardowns : 0 .. t, failures : 0 .. f, reads : 0 .. o, rejects : 0 .. r, expiries : 0 .. x] :
     v.teardowns + v.failures + v.reads + v.rejects + v.expiries <= total}

Calm == UpTo(0, 0, 0, 0, 0, 0)
AnyOne == UpTo(1, 1, 1, 1, 1, 1)
\* Any one; a teardown whose successor fails to read the outbox; a teardown and
\* an expiry, in either order.
AroundTeardown == AnyOne \cup UpTo(1, 0, 1, 0, 0, 2) \cup UpTo(1, 0, 0, 0, 1, 2)

(* The tenants are alike: no action and no property tells one from the other,
   and nobody has to sign in for the fairness.  So the first to sign in may be
   called tA, and the behaviours left out are the same with the names swapped. *)
FirstIsA == logins # <<>> => logins[1] = tA

=============================================================================
