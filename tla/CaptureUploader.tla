--------------------------- MODULE CaptureUploader ---------------------------
(***************************************************************************)
(* The capture extension's delivery of captured files to the workspace:    *)
(* the outbox and its uploads (modules/batch-uploader.js), the session     *)
(* transitions and logins that go on beside them (modules/                 *)
(* capture-session.js, background.js), and save-files' answer.             *)
(*                                                                         *)
(* The service worker runs one callback at a time, so an action is what    *)
(* happens from one await to the next.  The browser may tear the worker    *)
(* down at any await: memory is lost, IndexedDB and chrome.storage stay.   *)
(* The workspace has login configured, so an upload without a valid token  *)
(* is refused.                                                             *)
(***************************************************************************)
EXTENDS Naturals, Sequences, SequencesExt

CONSTANTS
  Contents,      \* what scripts contain
  Tenants,       \* the operators' tenants
  BatchSize,     \* files in one upload
  MaxSessions,   \* bound: capture sessions
  MaxLogins,     \* bound: logins
  Envelope       \* bound: what the environment may do, by numbers of each kind

Session == 1 .. MaxSessions
Token == 0 .. MaxLogins          \* 0 is no token; a login's token is its number
File == [session : Session, content : Contents]

ASSUME UploaderAssumption ==
  /\ BatchSize \in Nat \ {0}
  /\ MaxSessions \in Nat \ {0}
  /\ MaxLogins \in Nat \ {0}
  /\ "none" \notin Tenants
  /\ Envelope \subseteq [teardowns : Nat, failures : Nat, reads : Nat, rejects : Nat, expiries : Nat]

VARIABLES
  awake,      \* the service worker is running
  queue,      \* pendingQueue
  flight,     \* the batch spliced out by processBatch: what became of it, its
              \* files, and the epoch and token it left under
  timer,      \* uploadTimer: no handle, a running timer, or the handle of one
              \* that has fired
  paused,     \* authPaused
  epoch,      \* epoch
  flush,      \* flushAll: under way, and the queue's length when it last sent
  enq,        \* captures inside processFile: the outbox put, then the dedup put
  mem,        \* session id, capturedHashes, settings.authTenantId, authToken
  op,         \* the login, logout or new session under way
  store,      \* durable: the outbox
  dedup,      \* durable: the dedup set
  saved,      \* durable: session id, tenant and token
  alarm,      \* durable: the flushOutbox alarm
  logins,     \* the workspace's logins: whose each token is
  expired,    \* tokens no longer accepted
  received,   \* what save-files stored: file, session and tenant
  rejected,   \* files refused for good
  kept,       \* files whose last capture has been in the outbox
  cleared,    \* files dropped at a tenant switch and not captured again since,
              \* and whose they were
  late,       \* the pause is from a 401 for another token than the current one
  stranded,   \* files in the outbox that this worker does not have: its read of
              \* the outbox failed, or the delete of what was delivered
  past        \* what the environment has done

memory == <<awake, queue, flight, timer, paused, epoch, flush, enq, mem, op>>
durable == <<store, dedup, saved, alarm>>
workspace == <<logins, expired, received, rejected>>
history == <<cleared, kept, late, stranded, past>>
vars == <<memory, durable, workspace, history>>

NoFlight == [st |-> "none", files |-> <<>>, epoch |-> 0, token |-> 0]
NoOp == [pc |-> "none", kind |-> "none", token |-> 0, wipe |-> {}]
NoFlush == [on |-> FALSE, before |-> 0]
Fresh(s, t, k, hs) == [session |-> s, tenant |-> t, token |-> k, seen |-> hs]

OpPc == {"none", "forget", "flush", "rotate", "rotated", "clear", "wipe",
         "install", "token"}

UploadsOK ==
  /\ queue \in Seq(File)
  /\ flight \in [st : {"none", "sent", "ok", "rejected", "auth", "transient", "forget"},
                 files : Seq(File), epoch : Nat, token : Token]
  /\ timer \in {"none", "running", "fired"}
  /\ paused \in BOOLEAN
  /\ epoch \in Nat
  /\ flush \in [on : BOOLEAN, before : Nat]

SettingsOK ==
  /\ mem \in [session : Session, tenant : Tenants \cup {"none"}, token : Token,
              seen : SUBSET Contents]
  /\ op \in [pc : OpPc, kind : {"none", "new", "logout", "switch", "login"},
             token : Token, wipe : SUBSET File]
  /\ saved \in [session : Session, tenant : Tenants \cup {"none"}, token : Token]

FilesOK ==
  /\ enq \subseteq [file : File, at : {"outbox", "dedup"}]
  /\ store \subseteq File
  /\ dedup \subseteq Contents
  /\ kept \subseteq File /\ stranded \subseteq File
  /\ cleared \subseteq [file : File, tenant : Tenants]

WorkspaceOK ==
  /\ logins \in Seq(Tenants)
  /\ expired \subseteq Token
  /\ received \subseteq [file : File, under : Session, tenant : Tenants]
  /\ rejected \subseteq File

TypeOK ==
  /\ awake \in BOOLEAN /\ alarm \in BOOLEAN /\ late \in BOOLEAN
  /\ UploadsOK /\ SettingsOK /\ FilesOK /\ WorkspaceOK

\* A first start of the extension, before anybody has signed in.
Init ==
  /\ awake = TRUE /\ queue = <<>> /\ flight = NoFlight /\ timer = "none"
  /\ paused = FALSE /\ epoch = 0 /\ flush = NoFlush /\ enq = {} /\ op = NoOp
  /\ mem = Fresh(1, "none", 0, {})
  /\ store = {} /\ dedup = {} /\ alarm = FALSE
  /\ saved = [session |-> 1, tenant |-> "none", token |-> 0]
  /\ logins = <<>> /\ expired = {} /\ received = {} /\ rejected = {}
  /\ cleared = {} /\ kept = {} /\ late = FALSE /\ stranded = {}
  /\ past = [teardowns |-> 0, failures |-> 0, reads |-> 0, rejects |-> 0, expiries |-> 0]

Happens(kind) == /\ past' = [past EXCEPT ![kind] = @ + 1]
                 /\ past' \in Envelope

Valid(k) == k # 0 /\ k \notin expired
-----------------------------------------------------------------------------
(* Uploads. *)

(* processBatch with the given queue: the first files leave with the current
   token, unless a batch is out, nothing waits or the drain is paused; then
   the timer stays what it was.                                            *)
ProcessBatch(q, idle) ==
  IF flight.st = "none" /\ q # <<>> /\ ~paused
  THEN LET n == IF Len(q) < BatchSize THEN Len(q) ELSE BatchSize
       IN  /\ flight' = [st |-> "sent", files |-> SubSeq(q, 1, n),
                         epoch |-> epoch, token |-> mem.token]
           /\ queue' = SubSeq(q, n + 1, Len(q))
           /\ timer' = "none"
  ELSE UNCHANGED flight /\ queue' = q /\ timer' = idle

TimerFires ==
  /\ awake /\ timer = "running"
  /\ ProcessBatch(queue, "fired")
  /\ UNCHANGED <<awake, paused, epoch, flush, enq, mem, op, durable, workspace, history>>

\* The alarm, or a timer whose handle was overwritten while it was running.
AlarmFires ==
  /\ awake /\ alarm
  /\ ProcessBatch(queue, timer)
  /\ UNCHANGED <<awake, paused, epoch, flush, enq, mem, op, durable, workspace, history>>

\* processBatch's finally, with the queue and the pause its catch has left.
Finally(q, p) ==
  /\ flight' = NoFlight
  /\ queue' = q
  /\ paused' = p
  /\ timer' = IF q # <<>> /\ ~flush.on /\ ~p THEN "running" ELSE timer
  /\ alarm' = (alarm /\ q # <<>>)

(* save-files: a batch is stored under the session of its first file, in the
   tenant of its token.                                                    *)
Stored == {[file |-> flight.files[i], under |-> flight.files[1].session,
            tenant |-> logins[flight.token]] : i \in 1 .. Len(flight.files)}

Answer(st) == flight' = [flight EXCEPT !.st = st]

SaveFiles ==
  /\ flight.st = "sent"
  /\ \/ /\ Valid(flight.token)
        /\ received' = received \cup Stored
        /\ \/ Answer("ok") /\ UNCHANGED past
           \/ Answer("transient") /\ Happens("failures")
        /\ UNCHANGED rejected
     \/ /\ Valid(flight.token)
        /\ Happens("rejects")
        /\ Answer("rejected")
        /\ rejected' = rejected \cup ToSet(flight.files)
        /\ UNCHANGED received
     \/ /\ Happens("failures")
        /\ Answer("transient")
        /\ UNCHANGED <<received, rejected>>
     \/ /\ ~Valid(flight.token)
        /\ Answer("auth")
        /\ UNCHANGED <<received, rejected, past>>
  /\ UNCHANGED <<awake, queue, timer, paused, epoch, flush, enq, mem, op, durable,
                 logins, expired, cleared, kept, late, stranded>>

\* Mutant: a failed batch goes back to the queue whatever happened meanwhile.
AnsweredAnyEpoch ==
  /\ flight.st \in {"ok", "rejected", "auth", "transient"}
  /\ CASE flight.st \in {"ok", "rejected"} ->
            /\ Answer("forget")
            /\ UNCHANGED <<queue, paused, timer, alarm, late>>
       [] flight.st = "auth" ->
            /\ Finally(flight.files \o queue, TRUE)
            /\ late' = (flight.token # mem.token)
       [] OTHER ->
            /\ Finally(flight.files \o queue, paused)
            /\ UNCHANGED late
  /\ UNCHANGED <<awake, epoch, flush, enq, mem, op, store, dedup, saved,
                 workspace, cleared, kept, stranded, past>>

\* Mutant: a batch refused for want of a login is dropped (the D41 bug).
AnsweredAuthDropped ==
  /\ flight.st \in {"ok", "rejected", "auth", "transient"}
  /\ IF flight.st \in {"ok", "rejected", "auth"} \/ flight.epoch # epoch
     THEN /\ Answer("forget")
          /\ UNCHANGED <<queue, paused, timer, alarm>>
     ELSE Finally(flight.files \o queue, paused)
  /\ UNCHANGED <<awake, epoch, flush, enq, mem, op, store, dedup, saved, late,
                 workspace, cleared, kept, stranded, past>>

(* The answer reaches processBatch: delivered or refused for good, the batch
   is forgotten; failed after a clear, it is dropped; else it goes back to
   the front, and a 401 pauses the drain.                                  *)
Answered ==
  /\ flight.st \in {"ok", "rejected", "auth", "transient"}
  /\ CASE flight.st \in {"ok", "rejected"} \/ flight.epoch # epoch ->
            /\ Answer("forget")
            /\ UNCHANGED <<queue, paused, timer, alarm, late>>
       [] flight.st = "auth" /\ flight.epoch = epoch ->
            /\ Finally(flight.files \o queue, TRUE)
            /\ late' = (flight.token # mem.token)
       [] OTHER ->
            /\ Finally(flight.files \o queue, paused)
            /\ UNCHANGED late
  /\ UNCHANGED <<awake, epoch, flush, enq, mem, op, store, dedup, saved,
                 workspace, cleared, kept, stranded, past>>

\* IndexedDB takes the puts, deletes and clears in the order they were asked for.
Putting(f) == [file |-> f, at |-> "outbox"] \in enq
Puts == {e.file : e \in {d \in enq : d.at = "outbox"}}
BeforeTheClear(f) == op.pc = "wipe" => f \in op.wipe

\* What a clear drops; a batch that left before an earlier clear was dropped there.
Leaving == IF flight.epoch = epoch THEN ToSet(flight.files) ELSE {}
Unsent == store \cup Puts \cup ToSet(queue) \cup Leaving

\* store.delete: a failure is swallowed, and the entry stays.
DeleteOutcome(f) ==
  \/ store' = store \ {f} /\ UNCHANGED <<stranded, past>>
  \/ Happens("failures") /\ stranded' = stranded \cup ({f} \cap store) /\ UNCHANGED store

\* forget: one delete at a time; after the last, the finally.
Forget ==
  /\ flight.st = "forget"
  /\ IF flight.files # <<>>
     THEN /\ ~Putting(Head(flight.files))
          /\ DeleteOutcome(Head(flight.files))
          /\ flight' = [flight EXCEPT !.files = Tail(@)]
          /\ UNCHANGED <<queue, paused, timer, alarm>>
     ELSE Finally(queue, paused) /\ UNCHANGED <<store, stranded, past>>
  /\ UNCHANGED <<awake, epoch, flush, enq, mem, op, dedup, saved, workspace,
                 cleared, kept, late>>

\* flushAll, from "stop", "analyze" or a new session.
FlushStart(o) ==
  /\ awake /\ ~flush.on
  /\ flush' = [on |-> TRUE, before |-> 0]
  /\ timer' = "none"
  /\ op' = o
  /\ UNCHANGED <<awake, queue, flight, paused, epoch, enq, mem, durable, workspace, history>>

Flush == FlushStart(op)

\* Its loop, when no batch is out: stop on an empty or a growing queue.
FlushTurn ==
  /\ flush.on
  /\ flight.st = "none"
  /\ IF queue = <<>> \/ (flush.before # 0 /\ Len(queue) >= flush.before)
     THEN /\ flush' = NoFlush
          /\ timer' = IF queue # <<>> /\ ~paused THEN "running" ELSE timer
          /\ op' = IF op.pc = "flush" THEN [op EXCEPT !.pc = "rotate"] ELSE op
          /\ UNCHANGED <<queue, flight>>
     ELSE /\ flush' = [flush EXCEPT !.before = Len(queue)]
          /\ ProcessBatch(queue, timer)
          /\ UNCHANGED op
  /\ UNCHANGED <<awake, paused, epoch, enq, mem, durable, workspace, history>>
-----------------------------------------------------------------------------
(* Captures. *)

\* processFile up to enqueue's await: a new content, stamped with the session.  (A
\* script whose content changes, and which is then forgotten, is left out.)
Capture(c) ==
  LET f == [session |-> mem.session, content |-> c]
  IN  /\ awake
      /\ c \notin mem.seen
      /\ mem' = [mem EXCEPT !.seen = @ \cup {c}]
      /\ queue' = Append(queue, f)
      /\ enq' = enq \cup {[file |-> f, at |-> "outbox"]}
      /\ kept' = kept \ {f}
      /\ cleared' = {d \in cleared : d.file # f}
      /\ stranded' = stranded \ {f}
      /\ UNCHANGED <<awake, flight, timer, paused, epoch, flush, op, durable,
                     workspace, late, past>>

\* store.put: a failure is swallowed, and the file is in memory only.
PutOutcome(f) ==
  \/ store' = store \cup {f} /\ kept' = kept \cup {f} /\ UNCHANGED past
  \/ Happens("failures") /\ UNCHANGED <<store, kept>>

\* The put is over, well or badly: the rest of enqueue, and the alarm is armed.
Persist(f) ==
  /\ Putting(f)
  /\ BeforeTheClear(f)
  /\ PutOutcome(f)
  /\ enq' = (enq \ {[file |-> f, at |-> "outbox"]}) \cup {[file |-> f, at |-> "dedup"]}
  /\ LET armed == IF timer = "none" THEN "running" ELSE timer
     IN  IF Len(queue) >= BatchSize THEN ProcessBatch(queue, armed)
         ELSE timer' = armed /\ UNCHANGED <<queue, flight>>
  /\ alarm' = TRUE
  /\ UNCHANGED <<awake, paused, epoch, flush, mem, op, dedup, saved, workspace,
                 cleared, late, stranded>>

\* The dedup entry, last.
Remember(f) ==
  /\ [file |-> f, at |-> "dedup"] \in enq
  /\ enq' = enq \ {[file |-> f, at |-> "dedup"]}
  /\ dedup' = dedup \cup {f.content}
  /\ UNCHANGED <<awake, queue, flight, timer, paused, epoch, flush, mem, op,
                 store, saved, alarm, workspace, history>>
-----------------------------------------------------------------------------
(* Sessions and logins: one request of the popup at a time. *)

Begin(pc, kind, k) == [NoOp EXCEPT !.pc = pc, !.kind = kind, !.token = k]
Then(pc) == op' = [op EXCEPT !.pc = pc]
MoreSessions == saved.session < MaxSessions

\* startNew: flush under the old id first.
NewSession ==
  /\ op = NoOp /\ MoreSessions
  /\ FlushStart(Begin("flush", "new", 0))

\* logout: the live token first, then the stored one.
Logout ==
  /\ awake /\ op = NoOp /\ mem.token # 0 /\ MoreSessions
  /\ mem' = [mem EXCEPT !.token = 0]
  /\ op' = Begin("forget", "logout", 0)
  /\ UNCHANGED <<awake, queue, flight, timer, paused, epoch, flush, enq, durable,
                 workspace, history>>

ForgetToken ==
  /\ op.pc = "forget"
  /\ saved' = [saved EXCEPT !.token = 0]
  /\ Then("rotate")
  /\ UNCHANGED <<awake, queue, flight, timer, paused, epoch, flush, enq, mem,
                 store, dedup, alarm, workspace, history>>

\* login, answered by the workspace: another tenant's login resets the session first.
Login(t) ==
  /\ awake /\ op = NoOp
  /\ Len(logins) < MaxLogins
  /\ logins' = Append(logins, t)
  /\ IF mem.tenant \notin {"none", t}
     THEN /\ MoreSessions
          /\ mem' = [mem EXCEPT !.token = 0]
          /\ op' = Begin("rotate", "switch", Len(logins) + 1)
     ELSE /\ op' = Begin("install", "login", Len(logins) + 1)
          /\ UNCHANGED mem
  /\ UNCHANGED <<awake, queue, flight, timer, paused, epoch, flush, enq, durable,
                 expired, received, rejected, history>>

\* sessionStore.rotate: the new id is durable before it is used.
Rotate ==
  /\ op.pc = "rotate"
  /\ saved' = [saved EXCEPT !.session = @ + 1]
  /\ Then("rotated")
  /\ UNCHANGED <<awake, queue, flight, timer, paused, epoch, flush, enq, mem,
                 store, dedup, alarm, workspace, history>>

\* The new id, and everything captured under the old one goes.
Rotated ==
  /\ op.pc = "rotated"
  /\ mem' = [mem EXCEPT !.session = saved.session, !.seen = {}]
  /\ dedup' = {}
  /\ IF op.kind = "switch" THEN Then("clear") ELSE op' = NoOp
  /\ UNCHANGED <<awake, queue, flight, timer, paused, epoch, flush, enq,
                 store, saved, alarm, workspace, history>>

\* clearOutbox: memory first; a batch in flight is made stale by the epoch, and
\* the clear is asked for.
ClearQueue ==
  /\ op.pc = "clear"
  /\ epoch' = epoch + 1
  /\ queue' = <<>>
  /\ paused' = FALSE /\ late' = FALSE
  /\ cleared' = cleared \cup {[file |-> f, tenant |-> mem.tenant] : f \in Unsent}
  /\ op' = [op EXCEPT !.pc = "wipe", !.wipe = store \cup Puts]
  /\ UNCHANGED <<awake, flight, timer, flush, enq, mem, durable, workspace, kept,
                 stranded, past>>

ClearStore ==
  /\ op.pc = "wipe"
  /\ \A f \in op.wipe : ~Putting(f)
  /\ store' = {} /\ stranded' = {}
  /\ op' = [op EXCEPT !.pc = "install", !.wipe = {}]
  /\ UNCHANGED <<awake, queue, flight, timer, paused, epoch, flush, enq, mem,
                 dedup, saved, alarm, workspace, cleared, kept, late, past>>

\* The new settings, in memory and then in storage; the uploader has no token yet.
Install ==
  /\ op.pc = "install"
  /\ mem' = [mem EXCEPT !.tenant = logins[op.token]]
  /\ saved' = [saved EXCEPT !.tenant = logins[op.token], !.token = op.token]
  /\ Then("token")
  /\ UNCHANGED <<awake, queue, flight, timer, paused, epoch, flush, enq, store,
                 dedup, alarm, workspace, history>>

\* setAuthToken and resumeUploads.
ResumeUploads ==
  /\ op.pc = "token"
  /\ mem' = [mem EXCEPT !.token = op.token]
  /\ paused' = FALSE /\ late' = FALSE
  /\ timer' = IF queue # <<>> /\ flight.st = "none" THEN "running" ELSE timer
  /\ op' = NoOp
  /\ UNCHANGED <<awake, queue, flight, epoch, flush, enq, durable, workspace,
                 cleared, kept, stranded, past>>
-----------------------------------------------------------------------------
(* The environment. *)

\* The current token expires.
Expire ==
  /\ Valid(mem.token)
  /\ Happens("expiries")
  /\ expired' = expired \cup {mem.token}
  /\ UNCHANGED <<memory, durable, logins, received, rejected, cleared, kept, late,
                 stranded>>

Asleep == /\ awake' = FALSE /\ queue' = <<>> /\ flight' = NoFlight
          /\ timer' = "none" /\ paused' = FALSE /\ epoch' = 0
          /\ flush' = NoFlush /\ enq' = {} /\ op' = NoOp

\* The browser tears the worker down; an upload may have reached the workspace.
Teardown ==
  /\ awake
  /\ Happens("teardowns")
  /\ Asleep
  /\ mem' = Fresh(saved.session, saved.tenant, 0, {})
  /\ late' = FALSE /\ stranded' = {}
  /\ UNCHANGED <<durable, workspace, cleared, kept>>

\* Mutant: the outbox is not read back.
WakeEmpty ==
  /\ ~awake
  /\ awake' = TRUE
  /\ mem' = Fresh(saved.session, saved.tenant, saved.token, dedup)
  /\ paused' = (saved.token \in expired)
  /\ alarm' = FALSE
  /\ UNCHANGED <<queue, timer, flight, epoch, flush, enq, op, store, dedup, saved,
                 workspace, history>>

(* initialize, behind which every handler waits: settings, session and dedup
   set, a pause if the token is known to have expired, and rehydrate, whose
   read of the outbox may fail.                                            *)
Wake ==
  /\ ~awake
  /\ awake' = TRUE
  /\ mem' = Fresh(saved.session, saved.tenant, saved.token, dedup)
  /\ paused' = (saved.token \in expired)
  /\ \/ /\ queue' \in SetToSeqs(store)
        /\ timer' = IF store # {} THEN "running" ELSE "none"
        /\ alarm' = (store # {})
        /\ UNCHANGED <<past, stranded>>
     \/ /\ Happens("reads")
        /\ alarm' = TRUE
        /\ stranded' = store
        /\ UNCHANGED <<queue, timer>>
  /\ UNCHANGED <<flight, epoch, flush, enq, op, store, dedup, saved, workspace,
                 cleared, kept, late>>
-----------------------------------------------------------------------------
\* What the worker's event loop carries on with by itself.
Runs == \/ TimerFires \/ AlarmFires \/ Answered \/ Forget \/ FlushTurn
        \/ \E f \in File : Persist(f) \/ Remember(f)
        \/ ForgetToken \/ Rotate \/ Rotated \/ ClearQueue \/ ClearStore
        \/ Install \/ ResumeUploads

Next == \/ Runs \/ SaveFiles
        \/ \E c \in Contents : Capture(c)
        \/ Flush \/ NewSession \/ Logout
        \/ \E t \in Tenants : Login(t)
        \/ Expire \/ Teardown \/ Wake

Spec == Init /\ [][Next]_vars

(* Timers, alarms and callbacks run; an upload is answered, if only by its
   timeout; the browser goes on being used, which wakes the worker.  Nobody
   has to sign in, and nothing has to be captured.                         *)
Fairness ==
  /\ WF_vars(TimerFires) /\ WF_vars(AlarmFires)
  /\ WF_vars(Answered) /\ WF_vars(Forget) /\ WF_vars(FlushTurn)
  /\ WF_vars(\E f \in File : Persist(f) \/ Remember(f))
  /\ WF_vars(ForgetToken \/ Rotate \/ Rotated \/ ClearQueue \/ ClearStore
             \/ Install \/ ResumeUploads)
  /\ WF_vars(SaveFiles) /\ WF_vars(Wake)

FairSpec == Spec /\ Fairness
-----------------------------------------------------------------------------
Accepted == {r.file : r \in received}
Dropped == {c.file : c \in cleared}

(* "Capture continues; nothing is lost" (handleAuthExpired): once in the
   outbox a file stays there, through teardowns, expired logins and failing
   uploads, until it is stored, refused for good or dropped at a switch.   *)
NothingLost == kept \subseteq store \cup Accepted \cup rejected \cup Dropped

(* "One tenant's unsent captures can never flush under another tenant's token
   after a tenant switch" (clearOutbox): what was in the outbox or in flight
   at the switch is stored in its own tenant or nowhere.                   *)
SentToOwnTenant ==
  \A r \in received, c \in cleared : r.file = c.file => r.tenant = c.tenant

\* Nothing in memory is to be sent, and what is left in the outbox this worker
\* does not have.
Drained == queue = <<>> /\ flight.st = "none" /\ store \subseteq stranded

(* While a login stays valid the outbox empties, whatever failed before
   (resumeUploads "drains the backlog"), except of two things.  An entry the
   worker failed to read back, or to delete once delivered, stays until the
   next worker reads it: the alarm only sends what is in memory.  And a 401
   for an earlier token that comes after a new login pauses the uploads until
   the next login, tenant switch or worker.                                *)
Drains == <>[](awake => Valid(mem.token)) => <>[](Drained \/ late)

(* "Unsent files keep their own old per-file session id" (resetCaptureSession):
   a file is stored in the session it was captured in.                     *)
FilesKeepTheirSession == \A r \in received : r.under = r.file.session
=============================================================================
