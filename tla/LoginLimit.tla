------------------------------ MODULE LoginLimit ------------------------------
(***************************************************************************)
(* The throttle of failed logins (auth/login_rate_limit.py) around the     *)
(* password check (api/auth_router.py, auth/service.py): a counter of each *)
(* username and one of all, read before the check and raised after it.     *)
(***************************************************************************)
EXTENDS Integers, FiniteSets

CONSTANTS
  Users,        \* usernames, normalized
  Known,        \* those exactly one account has
  Callers,      \* login requests at a time
  MaxAttempts,  \* login_ratelimit_max_attempts
  MaxOfAll,     \* login_ratelimit_global_max_attempts
  RedisOutages  \* bound: calls to Redis that fail

ConstantsOK ==
  /\ Known \subseteq Users
  /\ MaxAttempts \in Int /\ MaxOfAll \in Int /\ RedisOutages \in Nat

VARIABLES
  count,   \* the counter of each username
  ofAll,   \* the counter of all
  login,   \* each request: [pc, user]
  guesses, \* history: failed checks since the username's counter was last cleared
  outages  \* what is left of the bound

lvars == <<count, ofAll, login, guesses, outages>>

Nobody == [pc |-> "idle", user |-> "nobody"]

Init ==
  /\ count = [u \in Users |-> 0] /\ ofAll = 0
  /\ login = [c \in Callers |-> Nobody]
  /\ guesses = [u \in Users |-> 0] /\ outages = 0

RedisFails == outages < RedisOutages /\ outages' = outages + 1

\* Mutant: the attempt that reaches the limit is still let through.
HoldsOffLate(n, limit) == limit > 0 /\ n > limit

\* A limit of zero or less turns its gate off.
HoldsOff(n, limit) == limit > 0 /\ n >= limit

\* retry_after_seconds: the counters are only read; an error lets it pass.
CheckLimit(c, u) ==
  /\ login[c].pc = "idle"
  /\ \/ /\ IF MaxAttempts > 0 /\ (HoldsOff(count[u], MaxAttempts) \/ HoldsOff(ofAll, MaxOfAll))
             THEN UNCHANGED login
             ELSE login' = [login EXCEPT ![c] = [pc |-> "verify", user |-> u]]
        /\ UNCHANGED outages
     \/ /\ RedisFails
        /\ login' = [login EXCEPT ![c] = [pc |-> "verify", user |-> u]]
  /\ UNCHANGED <<count, ofAll, guesses>>

\* authenticate: an unknown or ambiguous username always fails, in the time
\* of a password check.
VerifyPassword(c) ==
  /\ login[c].pc = "verify"
  /\ \/ /\ login[c].user \in Known
        /\ login' = [login EXCEPT ![c].pc = "clear"]
        /\ UNCHANGED guesses
     \/ /\ login' = [login EXCEPT ![c].pc = "record"]
        /\ guesses' = [guesses EXCEPT ![login[c].user] = @ + 1]
  /\ UNCHANGED <<count, ofAll, outages>>

\* record_failure: both counters are raised, and their windows start anew.
RecordFailure(c) ==
  /\ login[c].pc = "record"
  /\ \/ /\ count' = [count EXCEPT ![login[c].user] = @ + 1]
        /\ ofAll' = IF MaxOfAll > 0 THEN ofAll + 1 ELSE ofAll
        /\ UNCHANGED outages
     \/ RedisFails /\ UNCHANGED <<count, ofAll>>
  /\ login' = [login EXCEPT ![c] = Nobody]
  /\ UNCHANGED guesses

\* clear: the username's counter only.
ClearFailures(c) ==
  /\ login[c].pc = "clear"
  /\ \/ /\ count' = [count EXCEPT ![login[c].user] = 0]
        /\ guesses' = [guesses EXCEPT ![login[c].user] = 0]
        /\ UNCHANGED outages
     \/ RedisFails /\ UNCHANGED <<count, guesses>>
  /\ login' = [login EXCEPT ![c] = Nobody]
  /\ UNCHANGED ofAll

\* A whole window passes without a failure for this username, or for all.
UserWindowPasses(u) ==
  /\ count[u] > 0
  /\ count' = [count EXCEPT ![u] = 0] /\ guesses' = [guesses EXCEPT ![u] = 0]
  /\ UNCHANGED <<ofAll, login, outages>>

WindowOfAllPasses ==
  /\ ofAll > 0 /\ ofAll' = 0
  /\ UNCHANGED <<count, login, guesses, outages>>

Next ==
  \/ \E c \in Callers :
       \/ \E u \in Users : CheckLimit(c, u)
       \/ VerifyPassword(c) \/ RecordFailure(c) \/ ClearFailures(c)
  \/ \E u \in Users : UserWindowPasses(u)
  \/ WindowOfAllPasses

Spec == Init /\ [][Next]_lvars
-----------------------------------------------------------------------------
\* Between two times its counter is cleared, the passwords tried against a
\* username exceed the limit by no more than the requests that were at work
\* at the same time and the calls to Redis that failed (the limitation the
\* limiter states).
GuessesBounded == \A u \in Users :
  MaxAttempts > 0 => guesses[u] <= MaxAttempts + Cardinality(Callers) - 1 + outages
=============================================================================
