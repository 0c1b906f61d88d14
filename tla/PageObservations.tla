---------------------------- MODULE PageObservations ----------------------------
(***************************************************************************)
(* The API calls a page makes, as the extension's service worker observes  *)
(* them (background.js: captureRequestBody, recordObservation,             *)
(* handleResponseBody), and the hook that reads response bodies in the     *)
(* page, which is registered on the hosts in scope (syncResponseBodyHook,  *)
(* modules/hook-matches.js).                                               *)
(***************************************************************************)
EXTENDS Integers, Sequences, FiniteSets

CONSTANTS
  Requests,     \* the requests pages make
  KeyOf,        \* the method and URL of each
  Large,        \* the bytes of each body, at most
  BodyTotalCap, ObservationCap, EagerEvery,
  Syncs,        \* the applications of the hook's settings that may be at work
  Settings,     \* [hosts, bodies]: the scope, and captureResponseBodies
  Sessions,     \* 1 .. bound of session ids
  Bounds        \* of changes, requests, teardowns and failures of chrome.scripting

ObservationConstants ==
  /\ DOMAIN KeyOf = Requests /\ Large \in Nat \ {0} /\ EagerEvery \in Nat \ {0}
  /\ \A s \in Settings : s.bodies \in BOOLEAN

VARIABLES
  settings,   \* the worker's settings
  kept,       \* those in chrome.storage
  updates,    \* values on their way to chrome.storage
  hook,       \* the hosts the hook is registered on; none, it is not registered
  waiting,    \* syncs that wait for the one before
  sync,       \* each sync at work: [pc, wants, sees]
  failed,     \* the last sync failed
  sid,        \* the session
  request,    \* each request: new, sent, done
  pending,    \* bodies that wait for their request: from requests to sessions
  seen,       \* observations: from keys to [sent, answered], bytes of the bodies
  saved,      \* the keys in chrome.storage
  used,       \* bodyBytesUsed
  due,        \* the timer that saves them
  left        \* what is left of Bounds

ovars == <<settings, kept, updates, hook, waiting, sync, failed,
           sid, request, pending, seen, saved, used, due, left>>
hookVars == <<hook, waiting, sync, failed>>
pageVars == <<sid, request, pending, seen, saved, used, due>>

NoSync == [pc |-> "none", wants |-> {}, sees |-> {}]
Nothing == << >>

\* initialize awaits the first sync.
Init ==
  /\ settings \in Settings /\ kept = settings /\ updates = << >>
  /\ hook = {} /\ waiting = 1 /\ sync = [a \in Syncs |-> NoSync] /\ failed = FALSE
  /\ sid = 1 /\ request = [r \in Requests |-> "new"] /\ pending = Nothing
  /\ seen = Nothing /\ saved = {} /\ used = 0 /\ due = FALSE
  /\ left \in Bounds
-----------------------------------------------------------------------------
Idle == \A a \in Syncs : sync[a].pc = "none"

\* hookMatchPatterns
Patterns(s) == IF s.bodies THEN s.hosts ELSE {}

\* updateSettings: the worker's settings change at once, and are written.
UpdateSettings(s) ==
  /\ left.changes > 0 /\ left' = [left EXCEPT !.changes = @ - 1]
  /\ settings' = s /\ updates' = Append(updates, s)
  /\ UNCHANGED <<kept, hookVars, pageVars>>

\* _clear: no body waits across a rotation.
Clear ==
  /\ sid' = sid + 1 /\ pending' = Nothing
  /\ seen' = Nothing /\ saved' = {} /\ used' = 0 /\ due' = FALSE
  /\ UNCHANGED request

\* newSession: the id and the settings change in one turn (onRotated).
NewSession(s) ==
  /\ left.changes > 0 /\ left' = [left EXCEPT !.changes = @ - 1]
  /\ sid + 1 \in Sessions /\ Clear
  /\ settings' = s /\ updates' = Append(updates, s)
  /\ UNCHANGED <<kept, hookVars>>

\* chrome.storage has the value, and a sync is asked for.
Stored ==
  /\ updates # << >>
  /\ kept' = Head(updates) /\ updates' = Tail(updates)
  /\ waiting' = waiting + 1
  /\ UNCHANGED <<settings, hook, sync, failed, pageVars, left>>

\* Mutant: a sync starts when it is asked for.
AnyTurn(a) == TRUE

\* The chain of hookSync: one at a time.
MyTurn(a) == Idle

\* applyResponseBodyHook: what it wants is computed now, from the settings of now.
StartSync(a) ==
  /\ waiting > 0 /\ waiting' = waiting - 1
  /\ sync[a].pc = "none" /\ MyTurn(a)
  /\ sync' = [sync EXCEPT ![a] = [pc |-> "read", wants |-> Patterns(settings), sees |-> {}]]
  /\ UNCHANGED <<settings, kept, updates, hook, failed, pageVars, left>>

ReadHook(a) ==
  /\ sync[a].pc = "read"
  /\ sync' = [sync EXCEPT ![a] = IF hook = sync[a].wants THEN NoSync
                                 ELSE [@ EXCEPT !.pc = "write", !.sees = hook]]
  /\ failed' = IF hook = sync[a].wants THEN FALSE ELSE failed
  /\ UNCHANGED <<settings, kept, updates, hook, waiting, pageVars, left>>

\* Register, update or unregister, by what was read: each throws when the hook
\* is not as it was read, which is logged and changes nothing.
WriteHook(a) ==
  /\ sync[a].pc = "write"
  /\ hook' = IF sync[a].sees = {} <=> hook = {} THEN sync[a].wants ELSE hook
  /\ failed' = FALSE
  /\ sync' = [sync EXCEPT ![a] = NoSync]
  /\ UNCHANGED <<settings, kept, updates, waiting, pageVars, left>>

\* chrome.scripting refuses.
SyncFails(a) ==
  /\ sync[a].pc # "none"
  /\ left.failures > 0 /\ left' = [left EXCEPT !.failures = @ - 1]
  /\ failed' = TRUE /\ sync' = [sync EXCEPT ![a] = NoSync]
  /\ UNCHANGED <<settings, kept, updates, hook, waiting, pageVars>>
-----------------------------------------------------------------------------
InScope(key) == key[1] \in settings.hosts
Budget == used < BodyTotalCap

\* captureRequestBody, when a request is sent: with a body or without.
SendRequest(r) ==
  /\ request[r] = "new" /\ request' = [request EXCEPT ![r] = "sent"]
  /\ left.requests > 0 /\ left' = [left EXCEPT !.requests = @ - 1]
  /\ \/ /\ InScope(KeyOf[r]) /\ Budget
        /\ pending' = [q \in DOMAIN pending \cup {r} |-> IF q = r THEN sid ELSE pending[q]]
     \/ UNCHANGED pending
  /\ UNCHANGED <<settings, kept, updates, hookVars, sid, seen, saved, used, due>>

Without(r) == [q \in DOMAIN pending \ {r} |-> pending[q]]
\* A request's body is that of a session, a response's is 1; 0 is none.
Observed(key, field, from) ==
  [k \in DOMAIN seen \cup {key} |->
    IF k = key
      THEN [(IF k \in DOMAIN seen THEN seen[k] ELSE [sent |-> 0, answered |-> 0])
              EXCEPT ![field] = from]
      ELSE seen[k]]
New(key) == key \notin DOMAIN seen /\ Cardinality(DOMAIN seen) < ObservationCap

\* A body is attached while the budget lasts.
Attach(r) == r \in DOMAIN pending /\ Budget

\* schedulePersistObservations, or at once at every so many.
Persist(n) ==
  IF n % EagerEvery = 0 THEN saved' = DOMAIN seen' /\ UNCHANGED due
  ELSE due' = TRUE /\ UNCHANGED saved

\* recordObservation, when it is answered: its body is taken from those that
\* wait, whatever else is decided.
RecordObservation(r) ==
  LET key == KeyOf[r] IN
  /\ request[r] = "sent" /\ request' = [request EXCEPT ![r] = "done"]
  /\ pending' = Without(r)
  /\ IF InScope(key) /\ New(key)
       THEN /\ seen' = Observed(key, "sent", IF Attach(r) THEN pending[r] ELSE 0)
            /\ used' = IF Attach(r) THEN used + Large ELSE used
            /\ Persist(Cardinality(DOMAIN seen) + 1)
       ELSE UNCHANGED <<seen, used, saved, due>>
  /\ UNCHANGED <<settings, kept, updates, hookVars, sid, left>>

\* handleResponseBody: the first body of a key, from a page where the hook is.
HandleResponseBody(r) ==
  LET key == KeyOf[r] IN
  /\ request[r] # "new"
  /\ settings.bodies /\ InScope(key) /\ Budget
  /\ key \in DOMAIN seen \/ New(key)
  /\ key \in DOMAIN seen => seen[key].answered = 0
  /\ seen' = Observed(key, "answered", 1)
  /\ used' = used + Large /\ due' = TRUE
  /\ UNCHANGED <<settings, kept, updates, hookVars, sid, request, pending, saved, left>>

\* stopCapture: the bodies that wait go.
StopCapture ==
  /\ pending # Nothing /\ pending' = Nothing
  /\ UNCHANGED <<settings, kept, updates, hookVars, sid, request, seen, saved, used, due, left>>

Save ==
  /\ due /\ due' = FALSE /\ saved' = DOMAIN seen
  /\ UNCHANGED <<settings, kept, updates, hookVars, sid, request, pending, seen, used, left>>

\* A teardown: the next life restores what was stored, bodies were not, and
\* syncs again.
Respawn ==
  /\ left.deaths > 0 /\ left' = [left EXCEPT !.deaths = @ - 1]
  /\ settings' = kept /\ updates' = << >>
  /\ waiting' = 1 /\ sync' = [a \in Syncs |-> NoSync] /\ failed' = FALSE
  /\ pending' = Nothing /\ used' = 0 /\ due' = FALSE
  /\ seen' = [k \in saved |-> [sent |-> 0, answered |-> 0]]
  /\ UNCHANGED <<kept, hook, sid, request, saved>>
-----------------------------------------------------------------------------
Next ==
  \/ \E s \in Settings : UpdateSettings(s) \/ NewSession(s)
  \/ Stored
  \/ \E a \in Syncs : StartSync(a) \/ ReadHook(a) \/ WriteHook(a) \/ SyncFails(a)
  \/ \E r \in Requests : SendRequest(r) \/ RecordObservation(r) \/ HandleResponseBody(r)
  \/ StopCapture \/ Save \/ Respawn

Spec == Init /\ [][Next]_ovars
-----------------------------------------------------------------------------
\* When every change was stored and synced, the hook runs where the capture
\* would, unless the browser refused the last sync (syncResponseBodyHook).
HookFollowsScope ==
  updates = << >> /\ waiting = 0 /\ Idle /\ ~failed => hook = Patterns(settings)
=============================================================================
