------------------------ MODULE CaptureUploaderProofs ------------------------
(***************************************************************************)
(* Theorems about CaptureUploader, for any contents, tenants and batch     *)
(* size, any numbers of sessions and logins, and any teardowns, failures,  *)
(* refusals and expiries.                                                  *)
(***************************************************************************)
EXTENDS CaptureUploader, SequenceTheorems, FiniteSetTheorems, TLAPS

Flying == ToSet(flight.files)

(* What a capture cannot put at hand again while the worker is awake: a file
   of an earlier session, or one whose content is marked as seen.            *)
Known(f) ==
  \/ f.session < mem.session
  \/ f.session = mem.session /\ f.content \in mem.seen

Switching == op.kind = "switch" /\ op.pc \in {"clear", "wipe", "install"}

\* The outbox and the queue without what a clear under way is about to drop.
Recent ==
  IF op.pc = "wipe" THEN ToSet(queue) \cup Leaving \cup (Puts \ op.wipe) ELSE Unsent

(* A login's token is of the tenant it signed in; a switch goes on without a
   token; only a change of tenant clears, and only once the session is new.  *)
OpInv ==
  /\ IF op.pc = "rotated" THEN saved.session = mem.session + 1 ELSE saved.session = mem.session
  /\ op.pc \in {"flush", "forget", "rotate"} => saved.session < MaxSessions
  /\ saved.tenant = mem.tenant
  /\ mem.token # 0 => mem.tenant = logins[mem.token]
  /\ saved.token # 0 => saved.tenant = logins[saved.token]
  /\ op.pc \in {"none", "flush", "forget"} => op.kind # "switch"
  /\ op.pc \in {"clear", "wipe"} => op.kind = "switch"
  /\ op.pc \in {"install", "token"} => op.kind \in {"login", "switch"}
  /\ op.kind \in {"login", "switch"} => op.token # 0
  /\ op.kind = "switch" => mem.token = 0 /\ mem.tenant # "none"
  /\ op.kind = "login" => /\ op.pc \in {"install", "token"}
                          /\ mem.tenant \in {"none", logins[op.token]}
  /\ op.pc = "token" => mem.tenant = logins[op.token]
  /\ ~awake => /\ op = NoOp /\ flight = NoFlight /\ flush = NoFlush
               /\ enq = {} /\ queue = <<>>

Typed ==
  /\ TypeOK
  /\ IsFiniteSet(store)
  /\ mem.token <= Len(logins) /\ saved.token <= Len(logins)
  /\ op.token <= Len(logins) /\ flight.token <= Len(logins)

TInv == Typed /\ OpInv

(* What is about to leave the outbox was delivered, refused or dropped: a
   batch is forgotten after its answer, or because it left before a clear;
   and a clear drops only what was there when it was asked for.              *)
LossInv ==
  /\ \A f \in Unsent \cup Flying : f.session <= mem.session
  /\ flight.epoch <= epoch
  /\ flight.st = "ok" => Flying \subseteq Accepted
  /\ flight.st = "rejected" => Flying \subseteq rejected
  /\ flight.st = "forget" /\ flight.epoch = epoch => Flying \subseteq Accepted \cup rejected
  /\ flight.epoch # epoch => Flying \subseteq Dropped /\ \A f \in Flying : Known(f)
  /\ op.pc = "clear" => \A f \in Unsent \cup Flying : Known(f)
  /\ op.pc = "wipe" => /\ store \subseteq op.wipe
                       /\ op.wipe \subseteq Dropped
                       /\ \A f \in op.wipe : Known(f)

(* Whose a file is: what is at hand was delivered to, and cleared for, the
   present tenant only; a batch of another tenant holds nothing of this one's. *)
OwnerInv ==
  /\ flight.token # 0 =>
       \/ logins[flight.token] = mem.tenant
       \/ \A f \in Flying : f \notin Unsent /\ f.session < mem.session
  /\ flight.token # 0 => \A c \in cleared : c.file \in Flying => c.tenant = logins[flight.token]
  /\ \A c \in cleared : c.file \in Unsent => c.tenant = mem.tenant
  /\ \A r \in received :
       /\ r.file.session <= mem.session
       /\ r.file.session = mem.session => r.tenant = mem.tenant
       /\ r.file \in Unsent => r.tenant = mem.tenant
  /\ Switching =>
       /\ \A r \in received : r.file.session < mem.session
       /\ flight.token # 0 => \A f \in Flying : f.session < mem.session
  /\ op.pc = "wipe" \/ (op.pc = "install" /\ op.kind = "switch") =>
       \A f \in Recent : f.session = mem.session /\ f \notin Dropped
-----------------------------------------------------------------------------
(* Sequences as sets. *)
LEMMA ToSetEmpty == ToSet(<<>>) = {}
BY DEF ToSet

LEMMA ToSetTyped ==
  ASSUME NEW S, NEW q \in Seq(S)
  PROVE  ToSet(q) \subseteq S /\ ToSet(q) = {q[i] : i \in 1 .. Len(q)} /\ Len(q) \in Nat
BY LenProperties, ElementOfSeq DEF ToSet

LEMMA ToSetAppend ==
  ASSUME NEW S, NEW q \in Seq(S), NEW f \in S
  PROVE  Append(q, f) \in Seq(S) /\ ToSet(Append(q, f)) = ToSet(q) \cup {f}
<1>1. Append(q, f) \in Seq(S) /\ Len(Append(q, f)) = Len(q) + 1 /\ Len(q) \in Nat
      /\ \A i \in 1 .. Len(q) : Append(q, f)[i] = q[i]
      /\ Append(q, f)[Len(q) + 1] = f
  BY AppendProperties, LenProperties
<1>2. ToSet(q) = {q[i] : i \in 1 .. Len(q)}
      /\ ToSet(Append(q, f)) = {Append(q, f)[i] : i \in 1 .. Len(q) + 1}
  BY <1>1, ToSetTyped
<1>3. 1 .. Len(q) + 1 = (1 .. Len(q)) \cup {Len(q) + 1}
  BY <1>1
<1> QED
  BY <1>1, <1>2, <1>3

LEMMA ToSetConcat ==
  ASSUME NEW S, NEW p \in Seq(S), NEW q \in Seq(S)
  PROVE  p \o q \in Seq(S) /\ ToSet(p \o q) \subseteq ToSet(p) \cup ToSet(q)
<1>1. /\ p \o q \in Seq(S) /\ Len(p) \in Nat /\ Len(q) \in Nat
      /\ Len(p \o q) = Len(p) + Len(q)
      /\ \A i \in 1 .. Len(p) + Len(q) :
           (p \o q)[i] = IF i <= Len(p) THEN p[i] ELSE q[i - Len(p)]
  BY ConcatProperties, LenProperties
<1>2. ToSet(p) = {p[i] : i \in 1 .. Len(p)} /\ ToSet(q) = {q[i] : i \in 1 .. Len(q)}
      /\ ToSet(p \o q) = {(p \o q)[i] : i \in 1 .. Len(p) + Len(q)}
  BY <1>1, ToSetTyped
<1> SUFFICES ASSUME NEW i \in 1 .. Len(p) + Len(q)
             PROVE  (p \o q)[i] \in ToSet(p) \cup ToSet(q)
  BY <1>1, <1>2
<1>3. CASE i <= Len(p)
  BY <1>1, <1>2, <1>3
<1>4. CASE ~(i <= Len(p))
  <2>1. i - Len(p) \in 1 .. Len(q)
    BY <1>1, <1>4
  <2> QED  BY <1>1, <1>2, <1>4, <2>1
<1> QED  BY <1>3, <1>4

LEMMA ToSetCut ==
  ASSUME NEW S, NEW q \in Seq(S), NEW n \in 1 .. Len(q)
  PROVE  /\ SubSeq(q, 1, n) \in Seq(S) /\ SubSeq(q, n + 1, Len(q)) \in Seq(S)
         /\ ToSet(SubSeq(q, 1, n)) \subseteq ToSet(q)
         /\ ToSet(SubSeq(q, n + 1, Len(q))) \subseteq ToSet(q)
<1>1. Len(q) \in Nat /\ n \in Int /\ n + 1 \in Int /\ ToSet(q) = {q[i] : i \in 1 .. Len(q)}
  BY ToSetTyped
<1>2. \A a \in {1, n + 1}, b \in {n, Len(q)} :
        /\ SubSeq(q, a, b) \in Seq(S)
        /\ ToSet(SubSeq(q, a, b)) \subseteq ToSet(q)
  <2> SUFFICES ASSUME NEW a \in {1, n + 1}, NEW b \in {n, Len(q)}
               PROVE  /\ SubSeq(q, a, b) \in Seq(S)
                      /\ ToSet(SubSeq(q, a, b)) \subseteq ToSet(q)
    OBVIOUS
  <2>1. a \in Int /\ b \in Int /\ \A i \in a .. b : i \in 1 .. Len(q)
    BY <1>1
  <2>2. \A i \in a .. b : q[i] \in S
    BY <2>1, ElementOfSeq
  <2>3. /\ SubSeq(q, a, b) \in Seq(S)
        /\ Len(SubSeq(q, a, b)) = IF a <= b THEN b - a + 1 ELSE 0
        /\ \A i \in 1 .. b - a + 1 : SubSeq(q, a, b)[i] = q[a + i - 1]
    BY <2>1, <2>2, SubSeqProperties
  <2>4. ToSet(SubSeq(q, a, b)) = {SubSeq(q, a, b)[i] : i \in 1 .. Len(SubSeq(q, a, b))}
    BY <2>3, ToSetTyped
  <2> QED  BY <1>1, <2>1, <2>3, <2>4
<1> QED  BY <1>2

LEMMA ToSetTail ==
  ASSUME NEW S, NEW q \in Seq(S), q # <<>>
  PROVE  /\ Head(q) \in ToSet(q) /\ Tail(q) \in Seq(S)
         /\ ToSet(Tail(q)) \subseteq ToSet(q)
<1>1. Len(q) \in Nat \ {0} /\ ToSet(q) = {q[i] : i \in 1 .. Len(q)}
  BY EmptySeq, ToSetTyped
<1>2. Tail(q) \in Seq(S) /\ Len(Tail(q)) = Len(q) - 1
      /\ \A i \in 1 .. Len(Tail(q)) : Tail(q)[i] = q[i + 1]
  BY HeadTailProperties
<1>3. ToSet(Tail(q)) = {Tail(q)[i] : i \in 1 .. Len(q) - 1}
  BY <1>2, ToSetTyped
<1>4. Head(q) = q[1]
  OBVIOUS
<1> QED  BY <1>1, <1>2, <1>3, <1>4

LEMMA OrdersOfSet ==
  ASSUME NEW S, IsFiniteSet(S), NEW q \in SetToSeqs(S)
  PROVE  q \in Seq(S) /\ ToSet(q) \subseteq S
<1>1. Cardinality(S) \in Nat
  BY FS_CardinalityType
<1>2. q \in [1 .. Cardinality(S) -> S]
  BY DEF SetToSeqs
<1>3. q \in Seq(S)
  BY <1>1, <1>2, SeqDef
<1> QED  BY <1>3, ToSetTyped
-----------------------------------------------------------------------------
(* What the two helpers of the uploads do to the files. *)
Flight == [st : {"none", "sent", "ok", "rejected", "auth", "transient", "forget"},
           files : Seq(File), epoch : Nat, token : Token]

LEMMA NoFlightTyped == NoFlight \in Flight /\ ToSet(NoFlight.files) = {}
<1>1. <<>> \in Seq(File)
  BY EmptySeq
<1>2. 0 \in Token
  BY UploaderAssumption DEF Token
<1> QED  BY <1>1, <1>2, ToSetEmpty DEF NoFlight, Flight

LEMMA BatchTakesFromQueue ==
  ASSUME TypeOK, NEW q \in Seq(File), NEW idle, ProcessBatch(q, idle)
  PROVE  /\ queue' \in Seq(File) /\ ToSet(queue') \subseteq ToSet(q)
         /\ \/ flight' = flight /\ queue' = q /\ timer' = idle
            \/ /\ flight' \in Flight /\ flight.st = "none" /\ ~paused /\ timer' = "none"
               /\ flight'.st = "sent" /\ flight'.epoch = epoch /\ flight'.token = mem.token
               /\ ToSet(flight'.files) \subseteq ToSet(q)
<1>1. CASE flight.st = "none" /\ q # <<>> /\ ~paused
  <2> DEFINE n == IF Len(q) < BatchSize THEN Len(q) ELSE BatchSize
  <2>1. Len(q) \in Nat \ {0}
    BY <1>1, EmptySeq
  <2>2. n \in 1 .. Len(q)
    BY <2>1, UploaderAssumption
  <2>3. /\ flight' = [st |-> "sent", files |-> SubSeq(q, 1, n), epoch |-> epoch, token |-> mem.token]
        /\ queue' = SubSeq(q, n + 1, Len(q)) /\ timer' = "none"
    BY <1>1 DEF ProcessBatch
  <2> HIDE DEF n
  <2>4. mem.token \in Token /\ epoch \in Nat
    BY DEF TypeOK, UploadsOK, SettingsOK
  <2> QED  BY <1>1, <2>2, <2>3, <2>4, ToSetCut DEF Flight
<1>2. CASE ~(flight.st = "none" /\ q # <<>> /\ ~paused)
  BY <1>2 DEF ProcessBatch
<1> QED  BY <1>1, <1>2

(* What becomes of the flight: it goes on, perhaps to be forgotten; it ends; or
   a batch leaves the queue with the current epoch and token.                *)
FlightGoes ==
  \/ /\ flight'.epoch = flight.epoch /\ flight'.token = flight.token
     /\ ToSet(flight'.files) \subseteq Flying
     /\ \/ flight'.st = flight.st
        \/ flight'.st = "forget" /\ (flight.st \in {"ok", "rejected"} \/ flight.epoch # epoch)
  \/ flight' = NoFlight
  \/ /\ flight'.st = "sent" /\ flight'.epoch = epoch /\ flight'.token = mem.token
     /\ ToSet(flight'.files) \subseteq ToSet(queue)

OpStays ==
  \/ op' = op
  \/ /\ op.pc \in {"none", "flush"} /\ op'.pc \in {"flush", "rotate"}
     /\ op.kind \notin {"login", "switch"} /\ op'.kind \notin {"login", "switch"}

(* The steps that only move files about: nothing new is at hand, and a file
   that was in the outbox leaves it only when its batch is forgotten.        *)
FilesMove ==
  /\ UNCHANGED <<epoch, mem, saved, logins, received, rejected, cleared>>
  /\ Unsent' \subseteq Unsent /\ Recent' \subseteq Recent
  /\ op.pc = "wipe" => store' \subseteq store \cup op.wipe
  /\ \A f \in kept' :
       \/ f \in store' \/ (f \in kept /\ f \notin store)
       \/ flight.st = "forget" /\ f \in Flying
  /\ OpStays /\ FlightGoes

LEMMA FinallyTyped ==
  ASSUME TypeOK, NEW q \in Seq(File), NEW p \in BOOLEAN, Finally(q, p)
  PROVE  /\ flight' = NoFlight /\ flight' \in Flight /\ queue' = q /\ paused' = p
         /\ timer' \in {"none", "running", "fired"} /\ alarm' \in BOOLEAN
         /\ flight'.token = 0
BY NoFlightTyped DEF Finally, TypeOK, UploadsOK, NoFlight

LEMMA BusyIsAwake ==
  ASSUME OpInv, flight.st # "none" \/ flush.on \/ enq # {} \/ op.pc # "none" \/ queue # <<>>
  PROVE  awake
BY DEF OpInv, NoFlight, NoFlush, NoOp

Handles == {"none", "running", "fired"}
Log == Len(logins)
-----------------------------------------------------------------------------
(* The types, part by part. *)
LEMMA UploadsStep ==
  ASSUME TInv, Next
  PROVE  UploadsOK' /\ flight'.token <= Log'
<1> USE UploaderAssumption DEF memory, durable, workspace, history, Handles, Log
<1>0. /\ TypeOK /\ flight \in Flight /\ Len(logins) \in Nat /\ queue \in Seq(File)
      /\ flight.files \in Seq(File) /\ <<>> \in Seq(File) /\ timer \in Handles
      /\ paused \in BOOLEAN /\ epoch \in Nat /\ flush \in [on : BOOLEAN, before : Nat]
      /\ flight.token <= Log /\ NoFlush \in [on : BOOLEAN, before : Nat]
      /\ Len(queue) \in Nat /\ mem.token <= Log /\ IsFiniteSet(store) /\ store \subseteq File
      /\ OpInv
  BY LenProperties, EmptySeq DEF TInv, Typed, TypeOK, UploadsOK, WorkspaceOK, FilesOK, Flight,
     NoFlush
<1>b. ASSUME NEW idle \in Handles, ProcessBatch(queue, idle)
      PROVE  queue' \in Seq(File) /\ flight' \in Flight /\ timer' \in Handles /\ flight'.token <= Log
  BY <1>0, <1>b, BatchTakesFromQueue
<1>f. ASSUME NEW q \in Seq(File), NEW p \in BOOLEAN, Finally(q, p)
      PROVE  queue' \in Seq(File) /\ flight' \in Flight /\ timer' \in Handles
             /\ flight'.token <= Log /\ paused' \in BOOLEAN
  BY <1>0, <1>f, FinallyTyped
<1>p. SUFFICES queue' \in Seq(File) /\ flight' \in Flight /\ timer' \in Handles
               /\ paused' \in BOOLEAN /\ epoch' \in Nat /\ flush' \in [on : BOOLEAN, before : Nat]
               /\ flight'.token <= Log'
  BY DEF UploadsOK, Flight
<1>1. CASE TimerFires
  BY <1>0, <1>1, <1>b DEF TimerFires
<1>2. CASE AlarmFires
  BY <1>0, <1>2, <1>b DEF AlarmFires
<1>3. CASE Answered
  <2>1. flight.files \o queue \in Seq(File)
    BY <1>0, ToSetConcat
  <2>2. CASE Answer("forget") /\ UNCHANGED <<queue, paused, timer, alarm, late>>
    BY <1>0, <1>3, <2>2 DEF Answered, Answer, Flight
  <2>3. CASE Finally(flight.files \o queue, TRUE)
    BY <1>0, <1>3, <1>f, <2>1, <2>3 DEF Answered
  <2>4. CASE Finally(flight.files \o queue, paused)
    BY <1>0, <1>3, <1>f, <2>1, <2>4 DEF Answered
  <2> QED  BY <1>3, <2>2, <2>3, <2>4 DEF Answered
<1>4. CASE Forget
  <2>1. CASE flight.files # <<>>
    <3>1. Tail(flight.files) \in Seq(File)
      BY <1>0, <2>1, ToSetTail
    <3> QED  BY <1>0, <1>4, <2>1, <3>1 DEF Forget, Flight
  <2>2. CASE flight.files = <<>>
    BY <1>0, <1>4, <1>f, <2>2 DEF Forget
  <2> QED  BY <2>1, <2>2
<1>5. CASE FlushTurn
  <2>1. CASE queue = <<>> \/ (flush.before # 0 /\ Len(queue) >= flush.before)
    BY <1>0, <1>5, <2>1 DEF FlushTurn
  <2>2. CASE ~(queue = <<>> \/ (flush.before # 0 /\ Len(queue) >= flush.before))
    <3>1. ProcessBatch(queue, timer) /\ flush' = [flush EXCEPT !.before = Len(queue)]
          /\ UNCHANGED <<paused, epoch, logins>>
      BY <1>5, <2>2 DEF FlushTurn
    <3> QED  BY <1>0, <1>b, <3>1
  <2> QED  BY <2>1, <2>2
<1>6. CASE \E f \in File : Persist(f)
  <2>1. PICK f \in File : Persist(f)
    BY <1>6
  <2>2. CASE Len(queue) >= BatchSize
    BY <1>0, <1>b, <2>1, <2>2, ZenonT(40) DEF Persist
  <2>3. CASE ~(Len(queue) >= BatchSize)
    BY <1>0, <2>1, <2>3 DEF Persist
  <2> QED  BY <2>2, <2>3
<1>8. CASE SaveFiles
  <2>1. /\ \E st \in {"ok", "transient", "rejected", "auth"} : flight' = [flight EXCEPT !.st = st]
        /\ UNCHANGED <<queue, timer, paused, epoch, flush, logins>>
    BY <1>8 DEF SaveFiles, Answer
  <2> QED  BY <1>0, <2>1 DEF Flight
<1>9. CASE \E c \in Contents : Capture(c)
  <2>1. PICK c \in Contents : Capture(c)
    BY <1>9
  <2> DEFINE f == [session |-> mem.session, content |-> c]
  <2>2. f \in File
    BY <1>0 DEF File, TypeOK, SettingsOK
  <2>3. queue' \in Seq(File)
    BY <1>0, <2>1, <2>2, ToSetAppend DEF Capture
  <2> QED  BY <1>0, <2>1, <2>3 DEF Capture
<1>10. CASE Flush \/ NewSession
  <2>1. UNCHANGED <<queue, flight, paused, epoch, logins>> /\ timer' = "none"
        /\ flush' = [on |-> TRUE, before |-> 0]
    BY <1>10 DEF Flush, NewSession, FlushStart
  <2> QED  BY <1>0, <2>1
<1>14. CASE \E t \in Tenants : Login(t)
  <2>1. PICK t \in Tenants : Login(t)
    BY <1>14
  <2>2. Len(logins') = Len(logins) + 1
    BY <1>0, <2>1, AppendProperties DEF Login, TypeOK, WorkspaceOK
  <2>3. flight.token \in Nat
    BY <1>0 DEF Flight, Token
  <2> QED  BY <1>0, <2>1, <2>2, <2>3 DEF Login
<1>17. CASE ClearQueue
  <2>1. UNCHANGED <<flight, timer, flush, logins>> /\ epoch' = epoch + 1 /\ queue' = <<>>
        /\ paused' = FALSE
    BY <1>17 DEF ClearQueue
  <2>2. epoch + 1 \in Nat
    BY <1>0
  <2> QED  BY <1>0, <2>1, <2>2
<1>20. CASE ResumeUploads
  BY <1>0, <1>20 DEF ResumeUploads
<1>22. CASE Teardown
  <2>1. /\ queue' = <<>> /\ flight' = NoFlight /\ timer' = "none" /\ paused' = FALSE
        /\ epoch' = 0 /\ flush' = NoFlush /\ UNCHANGED logins
    BY <1>22 DEF Teardown, Asleep
  <2>2. NoFlight.token = 0 /\ 0 \in Nat
    BY DEF NoFlight
  <2>3. flight'.token <= Log'
    BY <1>0, <2>1, <2>2
  <2> QED  BY <1>0, <2>1, <2>2, <2>3, NoFlightTyped
<1>23. CASE Wake
  <2>1. queue' \in Seq(File)
    <3>1. CASE queue' \in SetToSeqs(store)
      <4>1. queue' \in Seq(store) /\ ToSet(queue') \subseteq store
        BY <1>0, <3>1, OrdersOfSet
      <4> QED  BY <1>0, <4>1, SeqMonotonic
    <3> QED  BY <1>0, <1>23, <3>1 DEF Wake
  <2> QED  BY <1>0, <1>23, <2>1 DEF Wake
<1>24. CASE \/ \E f \in File : Remember(f)
            \/ Logout \/ ForgetToken \/ Rotate \/ Rotated \/ ClearStore \/ Install \/ Expire
  BY <1>0, <1>24 DEF Remember, Logout, ForgetToken, Rotate, Rotated, ClearStore, Install, Expire
<1> QED
  BY <1>1, <1>2, <1>3, <1>4, <1>5, <1>6, <1>8, <1>9, <1>10, <1>14, <1>17, <1>20, <1>22, <1>23,
     <1>24 DEF Next, Runs

LEMMA FilesStep ==
  ASSUME TInv, Next
  PROVE  FilesOK' /\ IsFiniteSet(store')
<1> USE DEF memory, durable, workspace, history, FilesOK
<1>0. TypeOK /\ FilesOK /\ IsFiniteSet(store) /\ OpInv
  BY DEF TInv, Typed, TypeOK
<1>1. CASE Forget
  BY <1>0, <1>1, FS_Subset DEF Forget, DeleteOutcome, Happens
<1>2. CASE \E f \in File : Persist(f)
  <2>1. PICK f \in File : Persist(f)
    BY <1>2
  <2> QED  BY <1>0, <2>1, FS_AddElement DEF Persist, PutOutcome, Putting
<1>3. CASE \E f \in File : Remember(f)
  <2>1. PICK f \in File : Remember(f)
    BY <1>3
  <2>2. f.content \in Contents
    BY <2>1 DEF File
  <2> QED  BY <1>0, <2>1, <2>2 DEF Remember
<1>4. CASE \E c \in Contents : Capture(c)
  <2>1. PICK c \in Contents : Capture(c)
    BY <1>4
  <2>2. [session |-> mem.session, content |-> c] \in File
    BY <1>0 DEF TypeOK, SettingsOK, File
  <2>3. [file |-> [session |-> mem.session, content |-> c], at |-> "outbox"]
          \in [file : File, at : {"outbox", "dedup"}]
    BY <2>2
  <2> QED  BY <1>0, <2>1, <2>3 DEF Capture
<1>5. CASE ClearQueue
  <2>1. mem.tenant \in Tenants
    BY <1>0, <1>5 DEF ClearQueue, OpInv, TypeOK, SettingsOK
  <2>2. Unsent \subseteq File
    BY <1>0, ToSetTyped DEF Puts, Unsent, Leaving, TypeOK, UploadsOK
  <2>3. {[file |-> f, tenant |-> mem.tenant] : f \in Unsent} \subseteq [file : File, tenant : Tenants]
    BY <2>1, <2>2
  <2> QED  BY <1>0, <1>5, <2>3 DEF ClearQueue
<1>6. CASE ClearStore
  BY <1>0, <1>6, FS_EmptySet DEF ClearStore
<1>7. CASE Rotated
  BY <1>0, <1>7 DEF Rotated
<1>8. CASE Teardown
  BY <1>0, <1>8 DEF Teardown, Asleep
<1>9. CASE \/ TimerFires \/ AlarmFires \/ Answered \/ FlushTurn \/ SaveFiles \/ Flush
           \/ NewSession \/ Logout \/ \E t \in Tenants : Login(t)
  BY <1>0, <1>9 DEF TimerFires, AlarmFires, Answered, FlushTurn, SaveFiles, Flush, NewSession,
     FlushStart, Logout, Login
<1>10. CASE ForgetToken \/ Rotate \/ Install \/ ResumeUploads \/ Expire \/ Wake
  BY <1>0, <1>10 DEF ForgetToken, Rotate, Install, ResumeUploads, Expire, Wake
<1> QED
  BY <1>1, <1>2, <1>3, <1>4, <1>5, <1>6, <1>7, <1>8, <1>9, <1>10 DEF Next, Runs

LEMMA LoginsStep ==
  ASSUME TInv, Next
  PROVE  /\ WorkspaceOK' /\ Log \in Nat /\ Log' \in Nat /\ Log <= Log'
         /\ \A i \in 1 .. Log : logins'[i] = logins[i] /\ logins[i] \in Tenants
<1> USE UploaderAssumption DEF memory, durable, workspace, history, WorkspaceOK, Log
<1>0. TypeOK /\ WorkspaceOK /\ flight.token <= Log /\ Log \in Nat /\ \A i \in 1 .. Log : logins[i] \in Tenants
  BY LenProperties, ElementOfSeq DEF TInv, Typed, TypeOK
<1>1. CASE SaveFiles
  <2>1. flight.files \in Seq(File) /\ flight.token \in Token
    BY <1>0 DEF TypeOK, UploadsOK
  <2>2. ToSet(flight.files) \subseteq File
    BY <2>1, ToSetTyped
  <2>3. ASSUME Valid(flight.token)
        PROVE  Stored \subseteq [file : File, under : Session, tenant : Tenants]
    <3>1. flight.token \in 1 .. Log
      BY <1>0, <2>1, <2>3 DEF Valid, Token
    <3>2. logins[flight.token] \in Tenants
      BY <1>0, <3>1
    <3> SUFFICES ASSUME NEW i \in 1 .. Len(flight.files)
                 PROVE  [file |-> flight.files[i], under |-> flight.files[1].session,
                         tenant |-> logins[flight.token]]
                          \in [file : File, under : Session, tenant : Tenants]
      BY DEF Stored
    <3>3. 1 \in 1 .. Len(flight.files)
      BY <2>1, LenProperties
    <3>4. flight.files[i] \in File /\ flight.files[1] \in File
      BY <2>1, <3>3, ElementOfSeq
    <3> QED  BY <3>2, <3>4 DEF File
  <2> QED  BY <1>0, <1>1, <2>2, <2>3 DEF SaveFiles
<1>2. CASE \E t \in Tenants : Login(t)
  <2>1. PICK t \in Tenants : Login(t)
    BY <1>2
  <2>2. /\ logins' \in Seq(Tenants) /\ Len(logins') = Len(logins) + 1
        /\ \A i \in 1 .. Len(logins) : logins'[i] = logins[i]
    BY <1>0, <2>1, AppendProperties DEF Login
  <2> QED  BY <1>0, <2>1, <2>2 DEF Login
<1>3. CASE Expire
  BY <1>0, <1>3 DEF Expire, TypeOK, SettingsOK
<1>4. CASE UNCHANGED workspace
  BY <1>0, <1>4
<1>5. CASE Runs \/ Wake \/ Teardown
  BY <1>4, <1>5 DEF Runs, TimerFires, AlarmFires, Answered, Forget, FlushTurn, Persist, Remember,
     ForgetToken, Rotate, Rotated, ClearQueue, ClearStore, Install, ResumeUploads, Wake, Teardown
<1>6. CASE Flush \/ NewSession \/ Logout \/ \E c \in Contents : Capture(c)
  BY <1>4, <1>6 DEF Flush, NewSession, FlushStart, Logout, Capture
<1> QED  BY <1>1, <1>2, <1>3, <1>5, <1>6 DEF Next

(* The settings, and what the session change or login under way is about. *)
Mems == [session : Session, tenant : Tenants \cup {"none"}, token : Token, seen : SUBSET Contents]
Ops == [pc : OpPc, kind : {"none", "new", "logout", "switch", "login"},
        token : Token, wipe : SUBSET File]
Saves == [session : Session, tenant : Tenants \cup {"none"}, token : Token]

LEMMA MemUpdates ==
  ASSUME NEW m \in Mems
  PROVE  /\ \A k \in Token : [m EXCEPT !.token = k] \in Mems /\ [m EXCEPT !.token = k].token = k
         /\ \A c \in Contents : LET n == [m EXCEPT !.seen = m.seen \cup {c}]
                                IN  n \in Mems /\ n.token = m.token
         /\ \A s \in Session : LET n == [m EXCEPT !.session = s, !.seen = {}]
                               IN  n \in Mems /\ n.token = m.token
         /\ \A t \in Tenants : LET n == [m EXCEPT !.tenant = t]
                               IN  n \in Mems /\ n.token = m.token
BY DEF Mems

LEMMA FreshTyped ==
  ASSUME NEW s \in Session, NEW t \in Tenants \cup {"none"}, NEW k \in Token,
         NEW hs \in SUBSET Contents
  PROVE  Fresh(s, t, k, hs) \in Mems /\ Fresh(s, t, k, hs).token = k
BY DEF Fresh, Mems

LEMMA OpUpdates ==
  ASSUME NEW o \in Ops
  PROVE  /\ \A pc \in OpPc : [o EXCEPT !.pc = pc] \in Ops /\ [o EXCEPT !.pc = pc].token = o.token
         /\ \A pc \in OpPc, w \in SUBSET File :
              LET n == [o EXCEPT !.pc = pc, !.wipe = w] IN n \in Ops /\ n.token = o.token
BY DEF Ops

LEMMA NoTokenTyped == 0 \in Token /\ \A k \in Token : k \in Nat
BY UploaderAssumption DEF Token

LEMMA BeginTyped ==
  /\ NoOp \in Ops /\ NoOp.token = 0 /\ NoOp.pc = "none" /\ NoOp.kind = "none"
  /\ \A pc \in OpPc, kind \in {"none", "new", "logout", "switch", "login"}, k \in Token :
       Begin(pc, kind, k) \in Ops /\ Begin(pc, kind, k).token = k
       /\ Begin(pc, kind, k).pc = pc /\ Begin(pc, kind, k).kind = kind
BY NoTokenTyped, ZenonT(40) DEF NoOp, Begin, Ops, OpPc

LEMMA SaveUpdates ==
  ASSUME NEW d \in Saves
  PROVE  /\ [d EXCEPT !.token = 0] \in Saves /\ [d EXCEPT !.token = 0].token = 0
         /\ \A s \in Session : LET n == [d EXCEPT !.session = s]
                               IN  n \in Saves /\ n.token = d.token
         /\ \A t \in Tenants, k \in Token : LET n == [d EXCEPT !.tenant = t, !.token = k]
                                            IN  n \in Saves /\ n.token = k
BY NoTokenTyped DEF Saves

LEMMA SettingsStep ==
  ASSUME TInv, Next
  PROVE  SettingsOK' /\ mem'.token <= Log' /\ saved'.token <= Log' /\ op'.token <= Log'
<1> USE DEF memory, durable, workspace, history
<1>0. /\ mem \in Mems /\ op \in Ops /\ saved \in Saves
      /\ TypeOK /\ OpInv /\ Log \in Nat /\ Log' \in Nat /\ Log <= Log'
      /\ mem.token <= Log /\ saved.token <= Log /\ op.token <= Log
      /\ \A i \in 1 .. Log : logins[i] \in Tenants
  BY LoginsStep DEF TInv, Typed, TypeOK, SettingsOK, Mems, Ops, Saves, Log
<1>n. /\ mem.token \in Token /\ saved.token \in Token /\ op.token \in Token /\ 0 \in Token
      /\ saved.session \in Session /\ saved.tenant \in Tenants \cup {"none"}
  BY <1>0, NoTokenTyped DEF Mems, Ops, Saves
<1>m. mem.token <= Log' /\ saved.token <= Log' /\ op.token <= Log' /\ 0 <= Log'
  BY <1>0, <1>n, NoTokenTyped
<1>p. SUFFICES /\ mem' \in Mems /\ op' \in Ops /\ saved' \in Saves
               /\ mem'.token <= Log' /\ saved'.token <= Log' /\ op'.token <= Log'
  BY DEF SettingsOK, Mems, Ops, Saves
<1>1. CASE \E c \in Contents : Capture(c)
  <2>1. PICK c \in Contents : Capture(c)
    BY <1>1
  <2>2. mem' = [mem EXCEPT !.seen = mem.seen \cup {c}] /\ UNCHANGED <<op, saved, logins>>
    BY <2>1 DEF Capture
  <2>3. mem' \in Mems /\ mem'.token <= Log'
    BY <1>0, <1>m, <2>2, MemUpdates
  <2> QED  BY <1>0, <1>m, <2>2, <2>3
<1>2. CASE FlushTurn
  <2>1. op' = op \/ op' = [op EXCEPT !.pc = "rotate"]
    BY <1>2 DEF FlushTurn
  <2>2. op' \in Ops /\ op'.token <= Log'
    BY <1>0, <1>m, <2>1, OpUpdates DEF OpPc
  <2>3. UNCHANGED <<mem, saved>>
    BY <1>2 DEF FlushTurn
  <2> QED  BY <1>0, <1>m, <2>2, <2>3
<1>3. CASE NewSession
  <2>1. op' = Begin("flush", "new", 0) /\ UNCHANGED <<mem, saved>>
    BY <1>3 DEF NewSession, FlushStart
  <2>2. op' \in Ops /\ op'.token <= Log'
    BY <1>m, <2>1, BeginTyped, NoTokenTyped DEF OpPc
  <2> QED  BY <1>0, <1>m, <2>1, <2>2
<1>4. CASE Logout
  <2>1. op' = Begin("forget", "logout", 0)
        /\ mem' = [mem EXCEPT !.token = 0] /\ UNCHANGED saved
    BY <1>4 DEF Logout
  <2>2. mem' \in Mems /\ mem'.token <= Log'
    BY <1>0, <1>n, <1>m, <2>1, MemUpdates
  <2>3. op' \in Ops /\ op'.token <= Log'
    BY <1>0, <1>n, <1>m, <2>1, BeginTyped DEF OpPc
  <2>4. saved' \in Saves /\ saved'.token <= Log'
    BY <1>0, <1>n, <1>m, <2>1
  <2> QED  BY <2>2, <2>3, <2>4
<1>5. CASE ForgetToken
  <2>1. op' = [op EXCEPT !.pc = "rotate"] /\ saved' = [saved EXCEPT !.token = 0] /\ UNCHANGED mem
    BY <1>5 DEF ForgetToken, Then
  <2>2. op' \in Ops /\ op'.token <= Log'
    BY <1>0, <1>m, <2>1, OpUpdates DEF OpPc
  <2>3. saved' \in Saves /\ saved'.token <= Log'
    BY <1>0, <1>m, <2>1, SaveUpdates
  <2> QED  BY <1>0, <1>m, <2>1, <2>2, <2>3
<1>6. CASE \E t \in Tenants : Login(t)
  <2>1. PICK t \in Tenants : Login(t)
    BY <1>6
  <2>2. Log + 1 \in Token /\ Log' = Log + 1
    BY <1>0, <2>1, AppendProperties, UploaderAssumption
       DEF Login, Token, Log, TypeOK, WorkspaceOK
  <2>3. /\ op' = Begin("rotate", "switch", Log + 1) \/ op' = Begin("install", "login", Log + 1)
        /\ mem' = mem \/ mem' = [mem EXCEPT !.token = 0]
        /\ UNCHANGED saved
    BY <2>1 DEF Login, Log
  <2>4. mem' \in Mems /\ mem'.token <= Log'
    <3>1. CASE mem' = mem
      BY <1>0, <1>n, <1>m, <3>1
    <3>2. CASE mem' = [mem EXCEPT !.token = 0]
      BY <1>0, <1>n, <1>m, <3>2, MemUpdates
    <3> QED  BY <2>3, <3>1, <3>2
  <2>5. op' \in Ops /\ op'.token <= Log'
    BY <1>0, <1>n, <1>m, <2>2, <2>3, BeginTyped DEF OpPc
  <2>6. saved' \in Saves /\ saved'.token <= Log'
    BY <1>0, <1>n, <1>m, <2>2, <2>3
  <2> QED  BY <2>4, <2>5, <2>6
<1>7. CASE Rotate
  <2>1. saved.session + 1 \in Session
    BY <1>0, <1>n, <1>7, UploaderAssumption DEF Rotate, OpInv, Session
  <2>2. op' = [op EXCEPT !.pc = "rotated"] /\ saved' = [saved EXCEPT !.session = saved.session + 1]
        /\ UNCHANGED mem
    BY <1>7 DEF Rotate, Then
  <2>3. op' \in Ops /\ op'.token <= Log'
    BY <1>0, <1>m, <2>2, OpUpdates DEF OpPc
  <2>4. saved' \in Saves /\ saved'.token <= Log'
    BY <1>0, <1>m, <2>1, <2>2, SaveUpdates
  <2> QED  BY <1>0, <1>m, <2>2, <2>3, <2>4
<1>8. CASE Rotated
  <2>1. op' = NoOp \/ op' = [op EXCEPT !.pc = "clear"]
    BY <1>8 DEF Rotated, Then
  <2>2. mem' = [mem EXCEPT !.session = saved.session, !.seen = {}] /\ UNCHANGED saved
    BY <1>8 DEF Rotated
  <2>3. mem' \in Mems /\ mem'.token <= Log'
    BY <1>0, <1>n, <1>m, <2>1, <2>2, MemUpdates
  <2>4. op' \in Ops /\ op'.token <= Log'
    <3>1. CASE op' = NoOp
      BY <1>m, <3>1, BeginTyped
    <3>2. CASE op' = [op EXCEPT !.pc = "clear"]
      BY <1>0, <1>m, <3>2, OpUpdates, ZenonT(40) DEF OpPc
    <3> QED  BY <2>1, <3>1, <3>2
  <2>5. saved' \in Saves /\ saved'.token <= Log'
    BY <1>0, <1>n, <1>m, <2>1, <2>2
  <2> QED  BY <2>3, <2>4, <2>5
<1>9. CASE ClearQueue
  <2>1. store \cup Puts \subseteq File
    BY <1>0 DEF TypeOK, FilesOK, Puts
  <2>2. op' = [op EXCEPT !.pc = "wipe", !.wipe = store \cup Puts] /\ UNCHANGED <<mem, saved>>
    BY <1>9 DEF ClearQueue
  <2>3. op' \in Ops /\ op'.token <= Log'
    <3>1. "wipe" \in OpPc
      BY DEF OpPc
    <3>2. store \cup Puts \in SUBSET File /\ op \in Ops
      BY <1>0, <2>1
    <3>3. op' \in Ops /\ op'.token = op.token
      BY <2>2, <3>1, <3>2, OpUpdates, ZenonT(40)
    <3> QED  BY <1>m, <3>3
  <2> QED  BY <1>0, <1>m, <2>2, <2>3
<1>10. CASE ClearStore
  <2>1. op' = [op EXCEPT !.pc = "install", !.wipe = {}] /\ UNCHANGED <<mem, saved>>
    BY <1>10 DEF ClearStore
  <2>2. op' \in Ops /\ op'.token <= Log'
    <3>1. "install" \in OpPc
      BY DEF OpPc
    <3> QED  BY <1>0, <1>m, <2>1, <3>1, OpUpdates
  <2> QED  BY <1>0, <1>m, <2>1, <2>2
<1>11. CASE Install
  <2>1. op.token \in 1 .. Log
    BY <1>0, <1>n, <1>11, NoTokenTyped DEF Install, OpInv
  <2>2. /\ mem' = [mem EXCEPT !.tenant = logins[op.token]] /\ op' = [op EXCEPT !.pc = "token"]
        /\ saved' = [saved EXCEPT !.tenant = logins[op.token], !.token = op.token]
    BY <1>11 DEF Install, Then
  <2>t. logins[op.token] \in Tenants
    BY <1>0, <2>1
  <2>3. mem' \in Mems /\ mem'.token <= Log'
    BY <1>0, <1>n, <1>m, <2>2, <2>t, MemUpdates
  <2>4. op' \in Ops /\ op'.token <= Log'
    BY <1>0, <1>n, <1>m, <2>2, <2>t, OpUpdates DEF OpPc
  <2>5. saved' \in Saves /\ saved'.token <= Log'
    <3>1. saved' \in Saves /\ saved'.token = op.token
      BY <1>0, <1>n, <2>2, <2>t DEF Saves
    <3> QED  BY <1>m, <3>1
  <2> QED  BY <2>3, <2>4, <2>5
<1>12. CASE ResumeUploads
  <2>1. op' = NoOp /\ mem' = [mem EXCEPT !.token = op.token] /\ UNCHANGED saved
    BY <1>12 DEF ResumeUploads
  <2>2. mem' \in Mems /\ mem'.token <= Log'
    BY <1>0, <1>n, <1>m, <2>1, MemUpdates
  <2>3. op' \in Ops /\ op'.token <= Log'
    BY <1>0, <1>n, <1>m, <2>1, BeginTyped DEF OpPc
  <2>4. saved' \in Saves /\ saved'.token <= Log'
    BY <1>0, <1>n, <1>m, <2>1
  <2> QED  BY <2>2, <2>3, <2>4
<1>13. CASE Teardown
  <2>1. op' = NoOp /\ mem' = Fresh(saved.session, saved.tenant, 0, {}) /\ UNCHANGED saved
    BY <1>13 DEF Teardown, Asleep
  <2>f. {} \in SUBSET Contents
    OBVIOUS
  <2>2. mem' \in Mems /\ mem'.token <= Log'
    BY <1>0, <1>n, <1>m, <2>1, <2>f, FreshTyped
  <2>3. op' \in Ops /\ op'.token <= Log'
    BY <1>0, <1>n, <1>m, <2>1, BeginTyped DEF OpPc
  <2>4. saved' \in Saves /\ saved'.token <= Log'
    BY <1>0, <1>n, <1>m, <2>1
  <2> QED  BY <2>2, <2>3, <2>4
<1>14. CASE Wake
  <2>1. mem' = Fresh(saved.session, saved.tenant, saved.token, dedup) /\ UNCHANGED <<op, saved>>
    BY <1>14 DEF Wake
  <2>2. dedup \in SUBSET Contents
    BY <1>0 DEF TypeOK, FilesOK
  <2> QED  BY <1>0, <1>n, <1>m, <2>1, <2>2, FreshTyped
<1>15. CASE UNCHANGED <<mem, op, saved>>
  BY <1>0, <1>m, <1>15
<1>16. CASE \/ TimerFires \/ AlarmFires \/ Answered \/ Forget \/ SaveFiles \/ Flush \/ Expire
            \/ \E f \in File : Persist(f) \/ Remember(f)
  BY <1>15, <1>16 DEF TimerFires, AlarmFires, Answered, Forget, SaveFiles, Flush, FlushStart,
     Expire, Persist, Remember
<1> QED
  BY <1>1, <1>2, <1>3, <1>4, <1>5, <1>6, <1>7, <1>8, <1>9, <1>10, <1>11, <1>12, <1>13, <1>14,
     <1>16 DEF Next, Runs

LEMMA StaysAwake ==
  ASSUME TInv, Next
  PROVE  ~awake' => /\ op' = NoOp /\ flight' = NoFlight /\ flush' = NoFlush
                    /\ enq' = {} /\ queue' = <<>>
<1>1. OpInv
  BY DEF TInv
<1>2. CASE awake /\ UNCHANGED awake
  BY <1>2
<1>3. CASE \/ TimerFires \/ AlarmFires \/ Answered \/ Forget \/ FlushTurn
           \/ \E f \in File : Persist(f) \/ Remember(f)
  BY <1>1, <1>2, <1>3, BusyIsAwake
     DEF TimerFires, AlarmFires, Answered, Forget, FlushTurn, Persist, Remember, Putting, NoFlush
<1>4. CASE ForgetToken \/ Rotate \/ Rotated \/ ClearQueue \/ ClearStore \/ Install \/ ResumeUploads
  BY <1>1, <1>2, <1>4, BusyIsAwake
     DEF ForgetToken, Rotate, Rotated, ClearQueue, ClearStore, Install, ResumeUploads
<1>5. CASE SaveFiles \/ Flush \/ NewSession \/ Logout \/ \E c \in Contents : Capture(c)
  BY <1>1, <1>2, <1>5, BusyIsAwake DEF SaveFiles, Flush, NewSession, FlushStart, Logout, Capture
<1>6. CASE (\E t \in Tenants : Login(t)) \/ Teardown \/ Wake
  BY <1>2, <1>6 DEF Login, Teardown, Asleep, Wake
<1>7. CASE Expire
  BY <1>1, <1>7 DEF Expire, memory, OpInv
<1> QED  BY <1>3, <1>4, <1>5, <1>6, <1>7 DEF Next, Runs

LEMMA OpStep ==
  ASSUME TInv, Next
  PROVE  OpInv'
<1> USE DEF memory, durable, workspace, history
<1>0. /\ mem \in Mems /\ op \in Ops /\ saved \in Saves /\ OpInv
      /\ mem.token \in 0 .. Log /\ saved.token \in 0 .. Log /\ op.token \in 0 .. Log
      /\ \A i \in 1 .. Log : logins'[i] = logins[i] /\ logins[i] \in Tenants
      /\ mem.session \in Nat /\ MaxSessions \in Nat
  BY LoginsStep, NoTokenTyped, UploaderAssumption
     DEF TInv, Typed, TypeOK, SettingsOK, Log, Session, Mems, Ops, Saves
<1>t. Log \in Nat /\ \A i \in 0 .. Log : i # 0 => i \in 1 .. Log
  BY LoginsStep
<1>w. ~awake' => /\ op' = NoOp /\ flight' = NoFlight /\ flush' = NoFlush
                 /\ enq' = {} /\ queue' = <<>>
  BY StaysAwake
<1>n. NoOp.pc = "none" /\ NoOp.kind = "none" /\ NoOp.token = 0
  BY DEF NoOp
<1>a. CASE UNCHANGED <<mem, saved, op>>
  BY <1>0, <1>t, <1>w, <1>a DEF OpInv
<1>1. CASE \E c \in Contents : Capture(c)
  <2>1. PICK c \in Contents : Capture(c)
    BY <1>1
  <2>2. /\ mem'.session = mem.session /\ mem'.tenant = mem.tenant /\ mem'.token = mem.token
        /\ UNCHANGED <<op, saved, logins>>
    BY <1>0, <2>1 DEF Capture, Mems
  <2> QED  BY <1>0, <1>w, <2>2 DEF OpInv
<1>2. CASE FlushTurn
  <2>1. CASE op.pc = "flush" /\ op' = [op EXCEPT !.pc = "rotate"]
    <3>1. op'.pc = "rotate" /\ op'.kind = op.kind /\ op'.token = op.token
          /\ UNCHANGED <<mem, saved, logins>>
      BY <1>0, <1>2, <2>1 DEF FlushTurn, Ops
    <3> QED  BY <1>0, <1>w, <2>1, <3>1 DEF OpInv
  <2>2. CASE UNCHANGED op
    BY <1>a, <1>2, <2>2 DEF FlushTurn
  <2> QED  BY <1>2, <2>1, <2>2 DEF FlushTurn
<1>3. CASE NewSession \/ Logout
  <2>1. /\ op'.pc \in {"flush", "forget"} /\ op'.kind \notin {"login", "switch"} /\ op'.token = 0
        /\ op = NoOp /\ saved.session < MaxSessions /\ UNCHANGED <<saved, logins>>
    BY <1>0, <1>3, BeginTyped, NoTokenTyped DEF NewSession, Logout, FlushStart, MoreSessions, OpPc
  <2>2. mem'.session = mem.session /\ mem'.tenant = mem.tenant /\ mem'.token \in {0, mem.token}
    BY <1>0, <1>3 DEF NewSession, Logout, FlushStart, Mems
  <2> QED  BY <1>0, <1>n, <1>w, <2>1, <2>2 DEF OpInv
<1>5. CASE ForgetToken
  <2>1. /\ op'.pc = "rotate" /\ op'.kind = op.kind /\ op'.token = op.token /\ op.pc = "forget"
        /\ saved'.session = saved.session /\ saved'.tenant = saved.tenant /\ saved'.token = 0
        /\ UNCHANGED <<mem, logins>>
    BY <1>0, <1>5 DEF ForgetToken, Then, Ops, Saves
  <2> QED  BY <1>0, <1>w, <2>1 DEF OpInv
<1>6. CASE \E t \in Tenants : Login(t)
  <2>1. PICK t \in Tenants : Login(t)
    BY <1>6
  <2>2. logins'[Log + 1] = t /\ op = NoOp /\ UNCHANGED saved
    BY <2>1, <1>t, AppendProperties DEF Login, Log, TInv, Typed, TypeOK, WorkspaceOK
  <2>3. CASE mem.tenant \notin {"none", t}
    <3>1. /\ saved.session < MaxSessions
          /\ mem'.session = mem.session /\ mem'.tenant = mem.tenant /\ mem'.token = 0
      BY <1>0, <2>1, <2>3 DEF Login, Log, Mems, MoreSessions
    <3>2. op'.pc = "rotate" /\ op'.kind = "switch" /\ op'.token = Log + 1
      BY <2>1, <2>3 DEF Login, Log, Begin, NoOp
    <3> QED  BY <1>0, <1>n, <1>t, <1>w, <2>2, <2>3, <3>1, <3>2 DEF OpInv
  <2>4. CASE mem.tenant \in {"none", t}
    <3>1. op'.pc = "install" /\ op'.kind = "login" /\ op'.token = Log + 1 /\ UNCHANGED mem
      BY <2>1, <2>4 DEF Login, Log, Begin, NoOp
    <3> QED  BY <1>0, <1>n, <1>t, <1>w, <2>2, <2>4, <3>1 DEF OpInv
  <2> QED  BY <2>3, <2>4
<1>7. CASE Rotate
  <2>1. /\ op'.pc = "rotated" /\ op'.kind = op.kind /\ op'.token = op.token /\ op.pc = "rotate"
        /\ saved'.session = saved.session + 1 /\ saved'.tenant = saved.tenant
        /\ saved'.token = saved.token /\ UNCHANGED <<mem, logins>>
    BY <1>0, <1>7 DEF Rotate, Then, Ops, Saves
  <2> QED  BY <1>0, <1>w, <2>1 DEF OpInv
<1>8. CASE Rotated
  <2>1. /\ mem'.session = saved.session /\ mem'.tenant = mem.tenant /\ mem'.token = mem.token
        /\ UNCHANGED <<saved, logins>> /\ op.pc = "rotated"
    BY <1>0, <1>8 DEF Rotated, Mems
  <2>2. CASE op.kind = "switch"
    <3>1. op'.pc = "clear" /\ op'.kind = op.kind /\ op'.token = op.token
      BY <1>0, <1>8, <2>2 DEF Rotated, Then, Ops
    <3> QED  BY <1>0, <1>w, <2>1, <2>2, <3>1 DEF OpInv
  <2>3. CASE op.kind # "switch"
    <3>1. op' = NoOp
      BY <1>8, <2>3 DEF Rotated
    <3> QED  BY <1>0, <1>n, <1>w, <2>1, <2>3, <3>1 DEF OpInv
  <2> QED  BY <2>2, <2>3
<1>9. CASE ClearQueue \/ ClearStore
  <2>1. /\ op.pc \in {"clear", "wipe"} /\ op'.pc \in {"wipe", "install"}
        /\ op'.kind = op.kind /\ op'.token = op.token /\ UNCHANGED <<mem, saved, logins>>
    BY <1>0, <1>9 DEF ClearQueue, ClearStore, Ops
  <2> QED  BY <1>0, <1>w, <2>1 DEF OpInv
<1>11. CASE Install
  <2>1. op.pc = "install" /\ op'.pc = "token" /\ op'.kind = op.kind /\ op'.token = op.token
    BY <1>0, <1>11 DEF Install, Then, Ops
  <2>2. /\ mem'.session = mem.session /\ mem'.token = mem.token /\ mem'.tenant = logins[op.token]
        /\ saved'.session = saved.session /\ saved'.token = op.token
        /\ saved'.tenant = logins[op.token] /\ UNCHANGED logins
    BY <1>0, <1>11 DEF Install, Mems, Saves
  <2>3. op.token # 0 /\ logins[op.token] # "none"
    BY <1>0, <1>t, <2>1, UploaderAssumption DEF OpInv
  <2>4. mem.token # 0 => logins[mem.token] = logins[op.token]
    BY <1>0, <1>t, <2>1, UploaderAssumption DEF OpInv
  <2> QED  BY <1>0, <1>w, <2>1, <2>2, <2>3, <2>4 DEF OpInv
<1>12. CASE ResumeUploads
  <2>1. /\ op.pc = "token" /\ op' = NoOp /\ mem'.token = op.token /\ mem'.tenant = mem.tenant
        /\ mem'.session = mem.session /\ UNCHANGED <<saved, logins>>
    BY <1>0, <1>12 DEF ResumeUploads, Mems
  <2> QED  BY <1>0, <1>n, <1>w, <2>1 DEF OpInv
<1>13. CASE Teardown \/ Wake
  <2>1. op' = NoOp /\ UNCHANGED <<saved, logins>> /\ mem'.session = saved.session
        /\ mem'.tenant = saved.tenant /\ mem'.token \in {0, saved.token}
    BY <1>0, <1>13 DEF Teardown, Wake, Asleep, Fresh, OpInv
  <2> QED  BY <1>0, <1>n, <1>w, <2>1 DEF OpInv
<1>14. CASE \/ TimerFires \/ AlarmFires \/ Answered \/ Forget \/ SaveFiles \/ Flush \/ Expire
            \/ \E f \in File : Persist(f) \/ Remember(f)
  BY <1>a, <1>14 DEF TimerFires, AlarmFires, Answered, Forget, SaveFiles, Flush, FlushStart,
     Expire, Persist, Remember
<1> QED
  BY <1>1, <1>2, <1>3, <1>5, <1>6, <1>7, <1>8, <1>9, <1>11, <1>12, <1>13, <1>14 DEF Next, Runs

LEMMA TStep ==
  ASSUME TInv, Next
  PROVE  TInv'
<1>1. UploadsOK' /\ SettingsOK' /\ FilesOK' /\ WorkspaceOK' /\ IsFiniteSet(store')
      /\ flight'.token <= Log' /\ mem'.token <= Log' /\ saved'.token <= Log' /\ op'.token <= Log'
  BY UploadsStep, FilesStep, LoginsStep, SettingsStep
<1>2. awake' \in BOOLEAN /\ alarm' \in BOOLEAN /\ late' \in BOOLEAN
  <2> USE DEF memory, durable, workspace, history
  <2>0. TypeOK
    BY DEF TInv, Typed
  <2>1. CASE TimerFires \/ AlarmFires \/ Forget \/ FlushTurn
    BY <2>0, <2>1 DEF TimerFires, AlarmFires, Forget, FlushTurn, Finally, TypeOK
  <2>2. CASE Answered
    BY <2>0, <2>2 DEF Answered, Finally, TypeOK
  <2>3. CASE \E f \in File : Persist(f) \/ Remember(f)
    BY <2>0, <2>3 DEF Persist, Remember, TypeOK
  <2>4. CASE ForgetToken \/ Rotate \/ Rotated \/ ClearQueue \/ ClearStore \/ Install \/ ResumeUploads
    BY <2>0, <2>4 DEF ForgetToken, Rotate, Rotated, ClearQueue, ClearStore, Install, ResumeUploads,
       TypeOK
  <2>5. CASE SaveFiles \/ Flush \/ NewSession \/ Logout \/ \E c \in Contents : Capture(c)
    BY <2>0, <2>5 DEF SaveFiles, Flush, NewSession, FlushStart, Logout, Capture, TypeOK
  <2>6. CASE (\E t \in Tenants : Login(t)) \/ Teardown \/ Wake \/ Expire
    BY <2>0, <2>6 DEF Login, Teardown, Asleep, Wake, Expire, TypeOK
  <2> QED  BY <2>1, <2>2, <2>3, <2>4, <2>5, <2>6 DEF Next, Runs
<1> QED  BY <1>1, <1>2, OpStep DEF TInv, Typed, TypeOK, Log
-----------------------------------------------------------------------------
(* The steps that only move files. *)
LEMMA FileTypes ==
  ASSUME TInv
  PROVE  /\ queue \in Seq(File) /\ flight \in Flight /\ flight.files \in Seq(File)
         /\ ToSet(queue) \subseteq Unsent /\ Unsent \subseteq File /\ Flying \subseteq File
         /\ mem.session \in Nat /\ epoch \in Nat /\ flight.epoch \in Nat
         /\ \A f \in File : f.session \in Nat
<1>1. TypeOK /\ UploadsOK /\ FilesOK /\ SettingsOK
  BY DEF TInv, Typed, TypeOK
<1>2. ToSet(queue) \subseteq File /\ ToSet(flight.files) \subseteq File
  BY <1>1, ToSetTyped DEF UploadsOK
<1>3. Session \subseteq Nat
  BY UploaderAssumption DEF Session
<1>4. queue \in Seq(File) /\ flight \in Flight /\ epoch \in Nat
  BY <1>1 DEF UploadsOK, Flight
<1>5. flight.files \in Seq(File) /\ flight.epoch \in Nat
  BY <1>4 DEF Flight
<1>6. Flying \subseteq File /\ ToSet(queue) \subseteq Unsent
  BY <1>2 DEF Flying, Unsent
<1>7. Puts \subseteq File /\ store \subseteq File /\ Leaving \subseteq File
  BY <1>1, <1>2 DEF FilesOK, Puts, Leaving
<1>8. Unsent \subseteq File
  BY <1>2, <1>7 DEF Unsent
<1>9. mem.session \in Nat /\ \A f \in File : f.session \in Nat
  BY <1>1, <1>3 DEF SettingsOK, File
<1> QED
  BY <1>4, <1>5, <1>6, <1>8, <1>9

\* A batch that leaves the queue was at hand and is.
LEMMA BatchMoves ==
  ASSUME TInv, NEW idle, ProcessBatch(queue, idle), UNCHANGED epoch
  PROVE  /\ FlightGoes /\ ToSet(queue') \subseteq ToSet(queue)
         /\ Leaving' \subseteq Leaving \cup ToSet(queue)
<1>1. TypeOK /\ queue \in Seq(File)
  BY FileTypes DEF TInv, Typed
<1>2. /\ ToSet(queue') \subseteq ToSet(queue)
      /\ \/ flight' = flight
         \/ /\ flight'.st = "sent" /\ flight'.epoch = epoch /\ flight'.token = mem.token
            /\ ToSet(flight'.files) \subseteq ToSet(queue)
  BY <1>1, BatchTakesFromQueue
<1> QED  BY <1>2 DEF FlightGoes, Leaving, Flying

\* processBatch's finally leaves in the queue what it was given.
LEMMA FinallyMoves ==
  ASSUME NEW q, NEW p, Finally(q, p), UNCHANGED epoch
  PROVE  FlightGoes /\ queue' = q /\ Leaving' = {}
<1>1. flight' = NoFlight /\ queue' = q
  BY DEF Finally
<1>2. ToSet(flight'.files) = {}
  BY <1>1, NoFlightTyped
<1> QED  BY <1>1, <1>2 DEF FlightGoes, Leaving

LEMMA MoveStep ==
  ASSUME TInv,
         \/ TimerFires \/ AlarmFires \/ Answered \/ Forget \/ Flush \/ NewSession \/ FlushTurn
         \/ \E f \in File : Persist(f) \/ Remember(f)
  PROVE  FilesMove
<1> USE DEF memory, durable, workspace, history
<1>0. /\ queue \in Seq(File) /\ flight.files \in Seq(File) /\ flight \in Flight /\ op \in Ops
  BY FileTypes DEF TInv, Typed, TypeOK, SettingsOK, Ops
<1>1. ASSUME UNCHANGED <<epoch, mem, saved, logins, received, rejected, cleared, store, kept>>,
             Puts' = Puts, FlightGoes, OpStays, Recent' \subseteq Recent \/ op'.pc # "wipe",
             ToSet(queue') \subseteq ToSet(queue) \cup Leaving,
             Leaving' \subseteq Leaving \cup ToSet(queue)
      PROVE  FilesMove
  <2>1. Unsent' \subseteq Unsent
    BY <1>1 DEF Unsent
  <2>2. Recent' \subseteq Recent
    BY <1>1, <2>1 DEF Recent, OpStays
  <2> QED  BY <1>1, <2>1, <2>2 DEF FilesMove
<1>2. ASSUME UNCHANGED <<epoch, op, enq>>,
             ToSet(queue') \subseteq ToSet(queue) \cup Leaving,
             Leaving' \subseteq Leaving \cup ToSet(queue)
      PROVE  Puts' = Puts /\ OpStays /\ (Recent' \subseteq Recent \/ op'.pc # "wipe")
  BY <1>2 DEF Puts, OpStays, Recent
<1>3. CASE TimerFires
  BY <1>1, <1>2, <1>3, BatchMoves DEF TimerFires
<1>4. CASE AlarmFires
  BY <1>1, <1>2, <1>4, BatchMoves DEF AlarmFires
<1>5. CASE Answered
  <2>0. UNCHANGED <<epoch, op, enq, mem, saved, logins, received, rejected, cleared, store, kept>>
    BY <1>5 DEF Answered
  <2>1. CASE /\ Answer("forget") /\ queue' = queue
             /\ flight.st \in {"ok", "rejected"} \/ flight.epoch # epoch
    <3>1. flight'.st = "forget" /\ flight'.files = flight.files /\ flight'.epoch = flight.epoch
          /\ flight'.token = flight.token
      BY <1>0, <2>1 DEF Answer, Flight
    <3>2. FlightGoes /\ Leaving' = Leaving
      BY <2>0, <2>1, <3>1 DEF FlightGoes, Leaving, Flying
    <3> QED  BY <1>1, <1>2, <2>0, <2>1, <3>2
  <2>2. CASE flight.epoch = epoch /\ \E p \in {TRUE, paused} : Finally(flight.files \o queue, p)
    <3>1. FlightGoes /\ queue' = flight.files \o queue /\ Leaving' = {}
      BY <2>0, <2>2, FinallyMoves
    <3>2. ToSet(queue') \subseteq ToSet(queue) \cup Leaving
      BY <1>0, <2>2, <3>1, ToSetConcat DEF Leaving
    <3> QED  BY <1>1, <1>2, <2>0, <3>1, <3>2
  <2> QED  BY <1>5, <2>1, <2>2 DEF Answered
<1>6. CASE Forget
  <2>0. UNCHANGED <<epoch, op, enq, mem, saved, logins, received, rejected, cleared, kept>>
        /\ flight.st = "forget"
    BY <1>6 DEF Forget
  <2>1. CASE flight.files # <<>>
    <3>1. /\ store' = store \ {Head(flight.files)} \/ store' = store
          /\ Head(flight.files) \in Flying /\ ToSet(Tail(flight.files)) \subseteq Flying
      BY <1>0, <1>6, <2>1, ToSetTail DEF Forget, DeleteOutcome, Flying
    <3>2. /\ flight'.st = "forget" /\ flight'.files = Tail(flight.files)
          /\ flight'.epoch = flight.epoch /\ flight'.token = flight.token /\ queue' = queue
      BY <1>0, <1>6, <2>1 DEF Forget, Flight
    <3>3. FlightGoes /\ Leaving' \subseteq Leaving /\ Puts' = Puts /\ OpStays
      BY <2>0, <3>1, <3>2 DEF FlightGoes, Leaving, Flying, Puts, OpStays
    <3>4. Unsent' \subseteq Unsent /\ Recent' \subseteq Recent
      BY <2>0, <3>1, <3>2, <3>3 DEF Unsent, Recent
    <3> QED  BY <2>0, <3>1, <3>3, <3>4 DEF FilesMove
  <2>2. CASE flight.files = <<>>
    <3>1. Finally(queue, paused) /\ UNCHANGED store
      BY <1>6, <2>2 DEF Forget
    <3>2. FlightGoes /\ queue' = queue /\ Leaving' = {}
      BY <2>0, <3>1, FinallyMoves
    <3> QED  BY <1>1, <1>2, <2>0, <3>1, <3>2
  <2> QED  BY <2>1, <2>2
<1>7. CASE Flush \/ NewSession
  <2>0. UNCHANGED <<queue, flight, epoch, enq, mem, saved, logins, received, rejected, cleared,
                    store, kept>>
    BY <1>7 DEF Flush, NewSession, FlushStart
  <2>1. OpStays /\ (op' = op \/ op'.pc # "wipe")
    <3>1. CASE Flush
      BY <3>1 DEF Flush, FlushStart, OpStays
    <3>2. CASE NewSession
      <4>1. op = NoOp /\ op' = Begin("flush", "new", 0)
        BY <3>2 DEF NewSession, FlushStart
      <4>2. op.pc = "none" /\ op.kind = "none" /\ op'.pc = "flush" /\ op'.kind = "new"
        BY <4>1 DEF NoOp, Begin
      <4> QED  BY <4>2 DEF OpStays
    <3> QED  BY <1>7, <3>1, <3>2
  <2>2. FlightGoes /\ Leaving' = Leaving /\ Puts' = Puts
    BY <2>0 DEF FlightGoes, Leaving, Flying, Puts
  <2>3. Recent' \subseteq Recent \/ op'.pc # "wipe"
    BY <2>0, <2>1, <2>2 DEF Recent, Unsent
  <2> QED  BY <1>1, <2>0, <2>1, <2>2, <2>3
<1>8. CASE FlushTurn
  <2>0. UNCHANGED <<epoch, enq, mem, saved, logins, received, rejected, cleared, store, kept>>
    BY <1>8 DEF FlushTurn
  <2>1. CASE ProcessBatch(queue, timer) /\ UNCHANGED op
    BY <1>1, <1>2, <2>0, <2>1, BatchMoves
  <2>2. CASE UNCHANGED <<queue, flight, op>>
    <3>1. FlightGoes /\ Leaving' = Leaving
      BY <2>0, <2>2 DEF FlightGoes, Leaving, Flying
    <3> QED  BY <1>1, <1>2, <2>0, <2>2, <3>1
  <2>3. CASE UNCHANGED <<queue, flight>> /\ op.pc = "flush" /\ op' = [op EXCEPT !.pc = "rotate"]
    <3>1. FlightGoes /\ Leaving' = Leaving /\ Puts' = Puts
      BY <2>0, <2>3 DEF FlightGoes, Leaving, Flying, Puts
    <3>2. op'.pc = "rotate" /\ op'.kind = op.kind /\ op.kind \notin {"login", "switch"}
      BY <1>0, <2>3 DEF TInv, OpInv, Ops
    <3>3. OpStays
      BY <2>3, <3>2 DEF OpStays
    <3> QED  BY <1>1, <2>0, <2>3, <3>1, <3>2, <3>3
  <2> QED  BY <1>8, <2>1, <2>2, <2>3 DEF FlushTurn
<1>9. CASE \E f \in File : Persist(f)
  <2>1. PICK f \in File : Persist(f)
    BY <1>9
  <2>2. /\ UNCHANGED <<epoch, mem, op, saved, logins, received, rejected, cleared>>
        /\ f \in Puts /\ BeforeTheClear(f)
        /\ store' \subseteq store \cup {f} /\ store \subseteq store'
        /\ kept' \subseteq kept \cup (store' \cap {f})
    BY <2>1 DEF Persist, PutOutcome, Putting, Puts
  <2>3. Puts' \subseteq Puts
    BY <2>1 DEF Persist, Puts
  <2>4. /\ FlightGoes /\ ToSet(queue') \subseteq ToSet(queue)
        /\ Leaving' \subseteq Leaving \cup ToSet(queue)
    <3>1. CASE \E idle : ProcessBatch(queue, idle)
      BY <2>2, <3>1, BatchMoves
    <3>2. CASE UNCHANGED <<queue, flight>>
      BY <2>2, <3>2 DEF FlightGoes, Leaving, Flying
    <3> QED  BY <2>1, <3>1, <3>2 DEF Persist
  <2>5. Unsent' \subseteq Unsent
    BY <2>2, <2>3, <2>4 DEF Unsent
  <2>6. Recent' \subseteq Recent
    BY <2>2, <2>3, <2>4, <2>5 DEF Recent
  <2>7. op.pc = "wipe" => store' \subseteq store \cup op.wipe
    BY <2>2 DEF BeforeTheClear
  <2> QED  BY <2>2, <2>4, <2>5, <2>6, <2>7 DEF FilesMove, OpStays
<1>10. CASE \E f \in File : Remember(f)
  <2>1. PICK f \in File : Remember(f)
    BY <1>10
  <2>2. UNCHANGED <<queue, flight, epoch, mem, op, saved, logins, received, rejected, cleared,
                    store, kept>>
    BY <2>1 DEF Remember
  <2>3. Puts' = Puts
    BY <2>1 DEF Remember, Puts
  <2>4. FlightGoes /\ Leaving' = Leaving /\ OpStays
    BY <2>2 DEF FlightGoes, Leaving, Flying, OpStays
  <2>5. Recent' = Recent
    BY <2>2, <2>3, <2>4 DEF Recent, Unsent
  <2> QED  BY <1>1, <2>2, <2>3, <2>4, <2>5
<1> QED  BY <1>3, <1>4, <1>5, <1>6, <1>7, <1>8, <1>9, <1>10
-----------------------------------------------------------------------------
(* The invariant is kept, one kind of step at a time. *)
Inv == TInv /\ LossInv /\ OwnerInv /\ NothingLost /\ SentToOwnTenant

Kept == LossInv' /\ OwnerInv' /\ NothingLost' /\ SentToOwnTenant'

LEMMA MovesKeep ==
  ASSUME Inv, FilesMove
  PROVE  Kept
<1>0. /\ Unsent' \subseteq Unsent /\ Recent' \subseteq Recent /\ OpStays /\ FlightGoes
      /\ Accepted' = Accepted /\ Dropped' = Dropped /\ \A f : Known(f)' <=> Known(f)
      /\ UNCHANGED <<epoch, mem, logins, received, rejected, cleared>>
      /\ LossInv /\ OwnerInv /\ OpInv
  BY DEF FilesMove, Accepted, Dropped, Known, Inv, TInv
<1>1. ToSet(queue) \subseteq Unsent /\ epoch \in Nat /\ flight.epoch \in Nat
  BY FileTypes DEF Inv
<1>2. ASSUME flight'.epoch = flight.epoch, flight'.token = flight.token,
             Flying' \subseteq Flying,
             \/ flight'.st = flight.st
             \/ flight'.st = "forget" /\ (flight.st \in {"ok", "rejected"} \/ flight.epoch # epoch)
      PROVE  LossInv' /\ OwnerInv'
  <2>1. LossInv'
    BY <1>0, <1>2 DEF LossInv, OpStays, FilesMove
  <2>2. OwnerInv'
    BY <1>0, <1>2 DEF OwnerInv, OpStays, Switching
  <2> QED  BY <2>1, <2>2
<1>3. ASSUME flight' = NoFlight
      PROVE  LossInv' /\ OwnerInv'
  <2>1. /\ Flying' = {} /\ flight'.st = "none" /\ flight'.token = 0 /\ flight'.epoch = 0
    BY <1>3, NoFlightTyped DEF Flying, NoFlight
  <2>2. LossInv'
    BY <1>0, <1>1, <2>1 DEF LossInv, OpStays, FilesMove
  <2>3. OwnerInv'
    BY <1>0, <2>1 DEF OwnerInv, OpStays, Switching
  <2> QED  BY <2>2, <2>3
<1>4. ASSUME flight'.st = "sent", flight'.epoch = epoch, flight'.token = mem.token,
             Flying' \subseteq ToSet(queue)
      PROVE  LossInv' /\ OwnerInv'
  <2>1. LossInv'
    BY <1>0, <1>1, <1>4 DEF LossInv, OpStays, FilesMove
  <2>2. mem.token # 0 => logins[mem.token] = mem.tenant /\ op.kind # "switch"
    BY <1>0 DEF OpInv
  <2>3. OwnerInv'
    BY <1>0, <1>1, <1>4, <2>2 DEF OwnerInv, OpStays, Switching
  <2> QED  BY <2>1, <2>3
<1>5. LossInv' /\ OwnerInv'
  BY <1>0, <1>2, <1>3, <1>4 DEF FlightGoes, Flying
<1>6. NothingLost'
  <2>1. flight.st = "forget" => Flying \subseteq Accepted \cup rejected \cup Dropped
    BY <1>0 DEF LossInv
  <2>2. kept \subseteq store \cup Accepted \cup rejected \cup Dropped
    BY DEF Inv, NothingLost
  <2> QED  BY <1>0, <2>1, <2>2 DEF FilesMove, NothingLost
<1>7. SentToOwnTenant'
  BY <1>0 DEF SentToOwnTenant, Inv
<1> QED  BY <1>5, <1>6, <1>7 DEF Kept

(* The steps that only change the settings or the request under way. *)
LEMMA SettingsKeep ==
  ASSUME Inv,
         UNCHANGED <<queue, flight, epoch, enq, store, received, rejected, cleared, kept>>,
         mem'.session = mem.session, mem'.tenant = mem.tenant, mem'.seen = mem.seen,
         \A i \in 1 .. Log : logins'[i] = logins[i],
         op' = op \/ (~Switching' /\ op'.pc \notin {"clear", "wipe"})
  PROVE  Kept
<1>0. /\ Flying' = Flying /\ Puts' = Puts /\ Leaving' = Leaving /\ Unsent' = Unsent
      /\ Accepted' = Accepted /\ Dropped' = Dropped /\ \A f : Known(f)' <=> Known(f)
  BY DEF Flying, Puts, Leaving, Unsent, Accepted, Dropped, Known
<1>1. op' = op => Recent' = Recent
  BY <1>0 DEF Recent
<1>2. flight.token # 0 => logins'[flight.token] = logins[flight.token]
  BY FileTypes, NoTokenTyped, LenProperties
     DEF Inv, TInv, Typed, Flight, Log, TypeOK, WorkspaceOK
<1>3. LossInv'
  BY <1>0 DEF LossInv, Inv
<1>4. OwnerInv'
  BY <1>0, <1>1, <1>2 DEF OwnerInv, Inv, Switching
<1> QED  BY <1>0, <1>3, <1>4 DEF Kept, Inv, NothingLost, SentToOwnTenant

LEMMA RequestsKeep ==
  ASSUME Inv,
         \/ Logout \/ ForgetToken \/ Rotate \/ ResumeUploads \/ Expire
         \/ \E t \in Tenants : Login(t)
  PROVE  Kept
<1> USE DEF memory, durable, workspace, history
<1>0. mem \in Mems /\ op \in Ops /\ OpInv /\ Log \in Nat
  BY LenProperties DEF Inv, TInv, Typed, TypeOK, SettingsOK, WorkspaceOK, Mems, Ops, Log
<1>1. UNCHANGED <<queue, flight, epoch, enq, store, received, rejected, cleared, kept>>
  BY DEF Logout, ForgetToken, Rotate, ResumeUploads, Expire, Login
<1>2. mem'.session = mem.session /\ mem'.tenant = mem.tenant /\ mem'.seen = mem.seen
  BY <1>0 DEF Logout, ForgetToken, Rotate, ResumeUploads, Expire, Login, Mems
<1>3. \A i \in 1 .. Log : logins'[i] = logins[i]
  <2>1. CASE \E t \in Tenants : Login(t)
    BY <2>1, AppendProperties DEF Login, Log, Inv, TInv, Typed, TypeOK, WorkspaceOK
  <2>2. CASE UNCHANGED logins
    BY <2>2
  <2> QED  BY <2>1, <2>2 DEF Logout, ForgetToken, Rotate, ResumeUploads, Expire
<1>4. op' = op \/ (op'.pc \in {"none", "forget", "rotate", "rotated"})
        \/ (op'.pc = "install" /\ op'.kind = "login")
  <2>1. CASE Logout
    BY <2>1 DEF Logout, Begin, NoOp
  <2>4. CASE ResumeUploads
    BY <2>4 DEF ResumeUploads, NoOp
  <2>5. CASE Expire
    BY <2>5 DEF Expire
  <2>2. CASE ForgetToken \/ Rotate
    BY <1>0, <2>2 DEF ForgetToken, Rotate, Then, Ops
  <2>3. CASE \E t \in Tenants : Login(t)
    BY <2>3 DEF Login, Begin, NoOp
  <2> QED  BY <2>1, <2>2, <2>3, <2>4, <2>5
<1> QED  BY <1>1, <1>2, <1>3, <1>4, SettingsKeep DEF Switching

LEMMA NewFileKeeps ==
  ASSUME Inv, NEW c \in Contents, Capture(c)
  PROVE  Kept
<1> USE DEF memory, durable, workspace, history
<1> DEFINE new == [session |-> mem.session, content |-> c]
<1>0. /\ mem \in Mems /\ LossInv /\ OwnerInv /\ queue \in Seq(File) /\ new \in File
      /\ ToSet(queue) \subseteq Unsent /\ mem.session \in Nat /\ Flying \subseteq File
      /\ \A f \in File : f.session \in Nat
  BY FileTypes DEF Inv, TInv, Typed, TypeOK, SettingsOK, Mems, File
<1>1. /\ mem'.session = mem.session /\ mem'.tenant = mem.tenant /\ mem'.token = mem.token
      /\ mem'.seen = mem.seen \cup {c} /\ c \notin mem.seen
      /\ UNCHANGED <<flight, epoch, op, store, logins, received, rejected>>
      /\ kept' = kept \ {new} /\ cleared' = {d \in cleared : d.file # new}
  BY <1>0 DEF Capture, Mems
<1>2. ToSet(queue') = ToSet(queue) \cup {new} /\ Puts' = Puts \cup {new}
  <2>1. queue' = Append(queue, new) /\ enq' = enq \cup {[file |-> new, at |-> "outbox"]}
    BY DEF Capture
  <2>2. ToSet(queue') = ToSet(queue) \cup {new}
    BY <1>0, <2>1, ToSetAppend
  <2>3. Puts' = Puts \cup {new}
    <3> DEFINE put == [file |-> new, at |-> "outbox"]
    <3>1. put.file = new /\ put.at = "outbox" /\ enq' = enq \cup {put}
      BY <2>1
    <3> HIDE DEF put, new
    <3> QED  BY <3>1 DEF Puts
  <2> QED  BY <2>2, <2>3
<1>3. /\ Flying' = Flying /\ Leaving' = Leaving /\ Unsent' = Unsent \cup {new}
      /\ Recent' \subseteq Recent \cup {new}
      /\ Accepted' = Accepted /\ Dropped' = Dropped \ {new}
  <2>1. Flying' = Flying /\ Leaving' = Leaving /\ Accepted' = Accepted
    BY <1>1 DEF Flying, Leaving, Accepted
  <2>2. Unsent' = Unsent \cup {new}
    BY <1>1, <1>2, <2>1 DEF Unsent
  <2>3. Recent' \subseteq Recent \cup {new}
    BY <1>1, <1>2, <2>1, <2>2 DEF Recent
  <2>4. Dropped' = Dropped \ {new}
    BY <1>1 DEF Dropped
  <2> QED  BY <2>1, <2>2, <2>3, <2>4
<1>4. /\ new.session = mem.session /\ ~Known(new) /\ new' = new
      /\ \A f : (Known(f) => Known(f)') /\ (f = new => Known(f)')
  BY <1>0, <1>1 DEF Known
<1> HIDE DEF new
<1>5. LossInv'
  <2>1. \A f \in Unsent' \cup Flying' : f.session <= mem'.session
    BY <1>0, <1>1, <1>3, <1>4 DEF LossInv
  <2>2. flight.epoch # epoch => Flying \subseteq Dropped' /\ \A f \in Flying : Known(f)'
    <3>1. flight.epoch # epoch => Flying \subseteq Dropped /\ \A f \in Flying : Known(f)
      BY <1>0 DEF LossInv
    <3>2. flight.epoch # epoch => new \notin Flying
      BY <1>4, <3>1
    <3> QED  BY <1>3, <1>4, <3>1, <3>2
  <2>3. op.pc = "clear" => \A f \in Unsent' \cup Flying : Known(f)'
    <3>1. op.pc = "clear" => \A f \in Unsent \cup Flying : Known(f)
      BY <1>0 DEF LossInv
    <3> QED  BY <1>3, <1>4, <3>1
  <2>4. op.pc = "wipe" => /\ store \subseteq op.wipe /\ op.wipe \subseteq Dropped'
                          /\ \A f \in op.wipe : Known(f)'
    <3>1. op.pc = "wipe" => /\ store \subseteq op.wipe /\ op.wipe \subseteq Dropped
                            /\ \A f \in op.wipe : Known(f)
      BY <1>0 DEF LossInv
    <3>2. op.pc = "wipe" => new \notin op.wipe
      BY <1>4, <3>1
    <3> QED  BY <1>3, <1>4, <3>1, <3>2
  <2> QED  BY <1>0, <1>1, <1>3, <2>1, <2>2, <2>3, <2>4 DEF LossInv
<1>6. OwnerInv'
  BY <1>0, <1>1, <1>3, <1>4 DEF OwnerInv, Switching
<1>7. NothingLost' /\ SentToOwnTenant'
  BY <1>1, <1>3 DEF Inv, NothingLost, SentToOwnTenant
<1> QED  BY <1>5, <1>6, <1>7 DEF Kept

LEMMA SaveKeeps ==
  ASSUME Inv, SaveFiles
  PROVE  Kept
<1> USE DEF memory, durable, workspace, history
<1>0. /\ LossInv /\ OwnerInv /\ flight \in Flight /\ flight.files \in Seq(File)
      /\ mem.session \in Nat /\ \A f \in File : f.session \in Nat
      /\ Flying = {flight.files[i] : i \in 1 .. Len(flight.files)} /\ Flying \subseteq File
  BY FileTypes, ToSetTyped DEF Inv, Flying
<1>1. /\ flight'.files = flight.files /\ flight'.epoch = flight.epoch
      /\ flight'.token = flight.token /\ flight.st = "sent"
      /\ flight'.st \in {"ok", "rejected", "auth", "transient"}
      /\ UNCHANGED <<queue, epoch, enq, mem, op, store, logins, cleared, kept>>
  BY <1>0 DEF SaveFiles, Answer, Flight
<1>2. /\ \/ received' = received
         \/ received' = received \cup Stored /\ flight.token # 0
      /\ rejected \subseteq rejected'
      /\ flight'.st = "ok" => received' = received \cup Stored
      /\ flight'.st = "rejected" => Flying \subseteq rejected'
  BY <1>0 DEF SaveFiles, Answer, Flight, Valid, Flying
<1>3. /\ Flying' = Flying /\ Leaving' = Leaving /\ Unsent' = Unsent /\ Recent' = Recent
      /\ Dropped' = Dropped /\ \A f : Known(f)' <=> Known(f)
  <2>1. Flying' = Flying /\ Leaving' = Leaving /\ Puts' = Puts
    BY <1>1 DEF Flying, Leaving, Puts
  <2>2. Unsent' = Unsent
    BY <1>1, <2>1 DEF Unsent
  <2> QED  BY <1>1, <2>1, <2>2 DEF Recent, Dropped, Known
<1>4. /\ \A r \in Stored : r.file \in Flying /\ r.tenant = logins[flight.token]
      /\ \A f \in Flying : \E r \in Stored : r.file = f
  <2> DEFINE stored(i) == [file |-> flight.files[i], under |-> flight.files[1].session,
                           tenant |-> logins[flight.token]]
  <2>1. Stored = {stored(i) : i \in 1 .. Len(flight.files)}
    BY DEF Stored
  <2>2. \A i : stored(i).file = flight.files[i] /\ stored(i).tenant = logins[flight.token]
    OBVIOUS
  <2> HIDE DEF stored
  <2> QED  BY <1>0, <2>1, <2>2
<1>5. Accepted \subseteq Accepted' /\ (flight'.st = "ok" => Flying \subseteq Accepted')
  BY <1>2, <1>4 DEF Accepted
<1>6. LossInv'
  BY <1>0, <1>1, <1>2, <1>3, <1>5 DEF LossInv
<1>7. ASSUME NEW r \in received' \ received
      PROVE  /\ r.file \in Flying /\ r.tenant = logins[flight.token] /\ flight.token # 0
             /\ r.file.session <= mem.session
             /\ r.file.session = mem.session => r.tenant = mem.tenant
             /\ r.file \in Unsent => r.tenant = mem.tenant
             /\ Switching => r.file.session < mem.session
             /\ \A c \in cleared : r.file = c.file => r.tenant = c.tenant
  <2>1. r.file \in Flying /\ r.tenant = logins[flight.token] /\ flight.token # 0
    BY <1>2, <1>4, <1>7
  <2>2. r.file.session \in Nat /\ r.file.session <= mem.session
    BY <1>0, <2>1 DEF LossInv
  <2> QED  BY <1>0, <2>1, <2>2 DEF OwnerInv
<1>8. OwnerInv'
  BY <1>0, <1>1, <1>3, <1>7 DEF OwnerInv, Switching
<1>9. NothingLost' /\ SentToOwnTenant'
  BY <1>1, <1>2, <1>3, <1>5, <1>7 DEF Inv, NothingLost, SentToOwnTenant
<1> QED  BY <1>6, <1>8, <1>9 DEF Kept

\* A new session: whatever is at hand is of an earlier one.
LEMMA RotatedKeeps ==
  ASSUME Inv, Rotated
  PROVE  Kept
<1> USE DEF memory, durable, workspace, history
<1>0. /\ mem \in Mems /\ op \in Ops /\ LossInv /\ OwnerInv /\ OpInv /\ op.pc = "rotated"
      /\ mem.session \in Nat /\ \A f \in File : f.session \in Nat
      /\ Unsent \subseteq File /\ Flying \subseteq File /\ \A r \in received : r.file \in File
  BY FileTypes DEF Inv, TInv, Typed, TypeOK, SettingsOK, WorkspaceOK, Mems, Ops, Rotated
<1>1. /\ mem'.session = mem.session + 1 /\ mem'.tenant = mem.tenant /\ op'.pc \in {"none", "clear"}
      /\ UNCHANGED <<queue, flight, epoch, enq, store, logins, received, rejected, cleared, kept>>
  BY <1>0 DEF Rotated, Mems, Ops, Then, NoOp, OpInv
<1>2. /\ Flying' = Flying /\ Leaving' = Leaving /\ Unsent' = Unsent
      /\ Accepted' = Accepted /\ Dropped' = Dropped
  BY <1>1 DEF Flying, Puts, Leaving, Unsent, Accepted, Dropped
<1>3. \A f \in Unsent \cup Flying : f.session < mem'.session /\ Known(f)'
  BY <1>0, <1>1 DEF LossInv, Known
<1>4. \A r \in received : r.file.session < mem'.session
  BY <1>0, <1>1 DEF OwnerInv
<1>5. LossInv'
  BY <1>0, <1>1, <1>2, <1>3 DEF LossInv
<1>6. OwnerInv'
  <2>1. \A f \in Unsent \cup Flying : f.session <= mem'.session
    BY <1>0, <1>1, <1>3
  <2>2. \A r \in received : r.file.session <= mem'.session /\ r.file.session # mem'.session
    BY <1>0, <1>1, <1>4
  <2> QED  BY <1>0, <1>1, <1>2, <1>3, <1>4, <2>1, <2>2 DEF OwnerInv, Switching
<1> QED  BY <1>1, <1>2, <1>5, <1>6 DEF Kept, Inv, NothingLost, SentToOwnTenant

\* A clear drops what is at hand, which is all of the present tenant.
LEMMA ClearKeeps ==
  ASSUME Inv, ClearQueue
  PROVE  Kept
<1> USE DEF memory, durable, workspace, history
<1>0. /\ op \in Ops /\ LossInv /\ OwnerInv /\ OpInv /\ op.pc = "clear"
      /\ epoch \in Nat /\ flight.epoch \in Nat
  BY FileTypes DEF Inv, TInv, Typed, TypeOK, SettingsOK, Ops, ClearQueue
<1>1. /\ op'.pc = "wipe" /\ op'.wipe = store \cup Puts /\ epoch' = epoch + 1 /\ queue' = <<>>
      /\ op'.kind = op.kind
      /\ UNCHANGED <<flight, enq, mem, store, logins, received, rejected, kept>>
      /\ cleared' = cleared \cup {[file |-> f, tenant |-> mem.tenant] : f \in Unsent}
  BY <1>0 DEF ClearQueue, Ops
<1>2. /\ Flying' = Flying /\ Puts' = Puts /\ Leaving' = {} /\ Unsent' = store \cup Puts
      /\ Recent' = {} /\ Accepted' = Accepted /\ \A f : Known(f)' <=> Known(f)
  <2>1. Flying' = Flying /\ Puts' = Puts /\ Accepted' = Accepted /\ \A f : Known(f)' <=> Known(f)
    BY <1>1 DEF Flying, Puts, Accepted, Known
  <2>2. Leaving' = {} /\ ToSet(queue') = {}
    BY <1>0, <1>1, ToSetEmpty DEF Leaving, LossInv
  <2> QED  BY <1>1, <2>1, <2>2 DEF Unsent, Recent
<1>3. /\ \A d \in cleared' : d \in cleared \/ (d.file \in Unsent /\ d.tenant = mem.tenant)
      /\ Dropped' = Dropped \cup Unsent
  <2> DEFINE drop(f) == [file |-> f, tenant |-> mem.tenant]
  <2>1. \A f : drop(f).file = f /\ drop(f).tenant = mem.tenant
    OBVIOUS
  <2>2. cleared' = cleared \cup {drop(f) : f \in Unsent}
    BY <1>1
  <2> HIDE DEF drop
  <2>3. \A d \in cleared' : d \in cleared \/ (d.file \in Unsent /\ d.tenant = mem.tenant)
    BY <2>1, <2>2
  <2>4. Dropped' \subseteq Dropped \cup Unsent
    BY <2>3 DEF Dropped
  <2>5. Dropped \cup Unsent \subseteq Dropped'
    BY <2>1, <2>2 DEF Dropped
  <2> QED  BY <2>3, <2>4, <2>5
<1>4. store \cup Puts \subseteq Unsent /\ (flight.epoch = epoch => Flying \subseteq Unsent)
  BY DEF Unsent, Leaving, Flying
<1>5. LossInv'
  <2>1. flight.epoch # epoch' /\ flight.epoch <= epoch'
    BY <1>0, <1>1 DEF LossInv
  <2>2. Flying \subseteq Dropped' /\ \A f \in Flying : Known(f)
    BY <1>0, <1>3, <1>4 DEF LossInv
  <2> QED  BY <1>0, <1>1, <1>2, <1>3, <1>4, <2>1, <2>2 DEF LossInv
<1>6. OwnerInv'
  BY <1>0, <1>1, <1>2, <1>3, <1>4 DEF OwnerInv, Switching
<1>7. NothingLost' /\ SentToOwnTenant'
  BY <1>0, <1>1, <1>2, <1>3 DEF Inv, NothingLost, SentToOwnTenant, OwnerInv
<1> QED  BY <1>5, <1>6, <1>7 DEF Kept

LEMMA WipeKeeps ==
  ASSUME Inv, ClearStore
  PROVE  Kept
<1> USE DEF memory, durable, workspace, history
<1>0. /\ op \in Ops /\ LossInv /\ OwnerInv /\ OpInv /\ op.pc = "wipe" /\ op.kind = "switch"
  BY DEF Inv, TInv, Typed, TypeOK, SettingsOK, Ops, ClearStore, OpInv
<1>1. /\ op'.pc = "install" /\ op'.kind = "switch" /\ store' = {} /\ op.wipe \cap Puts = {}
      /\ UNCHANGED <<queue, flight, epoch, enq, mem, logins, received, rejected, cleared, kept>>
  <2>1. \A f \in op.wipe : ~Putting(f)
    BY DEF ClearStore
  <2>2. \A f \in Puts : Putting(f)
    BY DEF Inv, TInv, Typed, TypeOK, FilesOK, Puts, Putting
  <2> QED  BY <1>0, <2>1, <2>2 DEF ClearStore, Ops
<1>2. /\ Flying' = Flying /\ Leaving' = Leaving /\ Puts' = Puts /\ Accepted' = Accepted
      /\ Dropped' = Dropped /\ \A f : Known(f)' <=> Known(f)
  BY <1>1 DEF Flying, Leaving, Puts, Accepted, Dropped, Known
<1>3. Unsent' \subseteq Unsent /\ Recent' = Recent
  BY <1>0, <1>1, <1>2 DEF Unsent, Recent
<1>4. LossInv'
  BY <1>0, <1>1, <1>2, <1>3 DEF LossInv
<1>5. OwnerInv'
  BY <1>0, <1>1, <1>2, <1>3 DEF OwnerInv, Switching
<1>6. NothingLost' /\ SentToOwnTenant'
  BY <1>0, <1>1, <1>2 DEF Inv, LossInv, NothingLost, SentToOwnTenant
<1> QED  BY <1>4, <1>5, <1>6 DEF Kept

(* The next tenant's settings: after a switch everything left at hand is of
   the new session; after a first login nothing was anybody's.               *)
LEMMA InstallKeeps ==
  ASSUME Inv, Install
  PROVE  Kept
<1> USE DEF memory, durable, workspace, history
<1>0. /\ mem \in Mems /\ op \in Ops /\ LossInv /\ OwnerInv /\ OpInv /\ op.pc = "install"
      /\ mem.session \in Nat /\ flight \in Flight /\ flight.token \in Nat /\ Log \in Nat
      /\ flight.token <= Log /\ \A i \in 1 .. Log : logins[i] \in Tenants
  BY FileTypes, NoTokenTyped, LenProperties, ElementOfSeq
     DEF Inv, TInv, Typed, TypeOK, SettingsOK, WorkspaceOK, Mems, Ops, Install, Flight, Log
<1>1. /\ op'.pc = "token" /\ mem'.session = mem.session /\ mem'.seen = mem.seen
      /\ mem'.tenant = logins[op.token]
      /\ UNCHANGED <<queue, flight, epoch, enq, store, logins, received, rejected, cleared, kept>>
  BY <1>0 DEF Install, Then, Mems, Ops
<1>2. /\ Flying' = Flying /\ Leaving' = Leaving /\ Puts' = Puts /\ Accepted' = Accepted
      /\ Dropped' = Dropped /\ \A f : Known(f)' <=> Known(f)
  BY <1>1 DEF Flying, Leaving, Puts, Accepted, Dropped, Known
<1>3. Unsent' = Unsent
  BY <1>1, <1>2 DEF Unsent
<1>4. LossInv'
  BY <1>0, <1>1, <1>2, <1>3 DEF LossInv
<1>5. OwnerInv'
  <2>1. CASE op.kind = "switch"
    <3>1. \A f \in Unsent : f.session = mem.session /\ f \notin Dropped
      BY <1>0, <2>1 DEF OwnerInv, Recent
    <3>2. /\ \A r \in received : r.file.session < mem.session
          /\ flight.token # 0 => \A f \in Flying : f.session < mem.session
      BY <1>0, <2>1 DEF OwnerInv, Switching
    <3>3. /\ \A r \in received : r.file.session # mem.session /\ r.file \notin Unsent
          /\ flight.token # 0 => \A f \in Flying : f \notin Unsent
          /\ \A c \in cleared : c.file \notin Unsent
      BY <1>0, <3>1, <3>2 DEF Dropped
    <3> QED  BY <1>0, <1>1, <1>2, <1>3, <3>2, <3>3 DEF OwnerInv, Switching
  <2>2. CASE op.kind = "login" /\ mem.tenant = logins[op.token]
    BY <1>0, <1>1, <1>2, <1>3, <2>2 DEF OwnerInv, Switching
  <2>3. CASE op.kind = "login" /\ mem.tenant = "none"
    <3>1. \A t \in Tenants : t # mem.tenant
      BY <2>3, UploaderAssumption
    <3>3. flight.token # 0 => logins[flight.token] # mem.tenant
      BY <1>0, <3>1
    <3>4. /\ \A c \in cleared : c.file \notin Unsent
          /\ \A r \in received : r.file.session # mem.session /\ r.file \notin Unsent
      <4>1. \A c \in cleared : c.tenant # mem.tenant
        BY <3>1 DEF Inv, TInv, Typed, TypeOK, FilesOK
      <4>2. \A r \in received : r.tenant # mem.tenant
        BY <3>1 DEF Inv, TInv, Typed, TypeOK, WorkspaceOK
      <4> QED  BY <1>0, <4>1, <4>2 DEF OwnerInv
    <3> QED  BY <1>0, <1>1, <1>2, <1>3, <3>3, <3>4 DEF OwnerInv, Switching
  <2> QED  BY <1>0, <2>1, <2>2, <2>3 DEF OpInv
<1> QED  BY <1>1, <1>2, <1>4, <1>5 DEF Kept, Inv, NothingLost, SentToOwnTenant

\* Memory is lost: nothing is in flight, and the outbox is all that is at hand.
LEMMA RestartsKeep ==
  ASSUME Inv, Teardown \/ Wake
  PROVE  Kept
<1> USE DEF memory, durable, workspace, history
<1>0. /\ LossInv /\ OwnerInv /\ OpInv /\ epoch \in Nat /\ mem.session \in Nat
      /\ \A f \in File : f.session \in Nat
      /\ Unsent \subseteq File /\ IsFiniteSet(store) /\ \A r \in received : r.file \in File
  BY FileTypes DEF Inv, TInv, Typed, TypeOK, WorkspaceOK
<1>1. /\ flight' = NoFlight /\ epoch' \in Nat /\ op' = NoOp /\ enq' = {}
      /\ UNCHANGED <<store, logins, received, rejected, cleared, kept>>
      /\ mem'.tenant = mem.tenant
      /\ mem'.session \in {mem.session, mem.session + 1}
  BY <1>0 DEF Teardown, Wake, Asleep, Fresh, OpInv
<1>2. ToSet(queue') \subseteq store
  <2>1. CASE Wake
    <3>1. CASE queue' \in SetToSeqs(store)
      BY <1>0, <3>1, OrdersOfSet
    <3>2. CASE queue' = <<>>
      BY <3>2, ToSetEmpty
    <3> QED  BY <1>0, <2>1, <3>1, <3>2 DEF Wake, OpInv
  <2>2. CASE Teardown
    BY <2>2, ToSetEmpty DEF Teardown, Asleep
  <2> QED  BY <2>1, <2>2
<1>3. /\ Flying' = {} /\ Leaving' = {} /\ Puts' = {} /\ Unsent' \subseteq Unsent
      /\ Accepted' = Accepted /\ Dropped' = Dropped
  <2>1. Flying' = {} /\ Leaving' = {} /\ Puts' = {}
    BY <1>1, NoFlightTyped DEF Flying, Leaving, Puts
  <2> QED  BY <1>1, <1>2, <2>1 DEF Unsent, Accepted, Dropped
<1>4. /\ flight'.st = "none" /\ flight'.token = 0 /\ flight'.epoch = 0 /\ op'.pc = "none"
  BY <1>1 DEF NoFlight, NoOp
<1>5. LossInv'
  <2>1. \A f \in Unsent' : f.session <= mem'.session
    BY <1>0, <1>1, <1>3 DEF LossInv
  <2> QED  BY <1>1, <1>3, <1>4, <2>1 DEF LossInv
<1>6. OwnerInv'
  <2>1. \A r \in received : /\ r.file.session <= mem'.session
                            /\ r.file.session = mem'.session => r.tenant = mem.tenant
    BY <1>0, <1>1 DEF OwnerInv
  <2> QED  BY <1>0, <1>1, <1>3, <1>4, <2>1 DEF OwnerInv, Switching
<1> QED  BY <1>1, <1>3, <1>5, <1>6 DEF Kept, Inv, NothingLost, SentToOwnTenant
-----------------------------------------------------------------------------
LEMMA Initially ==
  ASSUME Init
  PROVE  Inv
<1> USE DEF Init
<1>1. /\ ToSet(queue) = {} /\ Flying = {} /\ Puts = {} /\ Leaving = {} /\ Unsent = {}
      /\ Accepted = {} /\ Dropped = {}
  BY NoFlightTyped, ToSetEmpty DEF Flying, Puts, Leaving, Unsent, Accepted, Dropped
<1>2. Len(logins) = 0 /\ logins \in Seq(Tenants) /\ queue \in Seq(File)
  BY EmptySeq
<1>3. /\ mem.session = 1 /\ mem.tenant = "none" /\ mem.token = 0
      /\ saved.session = 1 /\ saved.tenant = "none" /\ saved.token = 0
      /\ op.pc = "none" /\ op.kind = "none" /\ op.token = 0
      /\ flight.st = "none" /\ flight.token = 0 /\ flight.epoch = 0
  BY DEF Fresh, NoOp, NoFlight
<1>4. TypeOK
  <2>1. 1 \in Session /\ 0 \in Token /\ 0 \in Nat
    BY UploaderAssumption, NoTokenTyped DEF Session
  <2>2. UploadsOK
    BY <1>2, <2>1, NoFlightTyped DEF UploadsOK, Flight, NoFlush
  <2>3. SettingsOK
    BY <2>1, FreshTyped, BeginTyped DEF SettingsOK, Mems, Ops
  <2> QED  BY <1>2, <2>2, <2>3 DEF TypeOK, FilesOK, WorkspaceOK
<1>5. TInv
  BY <1>2, <1>3, <1>4, FS_EmptySet DEF TInv, Typed, OpInv
<1>6. LossInv /\ OwnerInv /\ NothingLost /\ SentToOwnTenant
  BY <1>1, <1>3 DEF LossInv, OwnerInv, Switching, NothingLost, SentToOwnTenant
<1> QED  BY <1>5, <1>6 DEF Inv

LEMMA InvKept ==
  ASSUME Inv, [Next]_vars
  PROVE  Inv'
<1>1. CASE Next
  <2>1. TInv'
    BY <1>1, TStep DEF Inv
  <2>2. Kept
    <3>1. CASE \/ TimerFires \/ AlarmFires \/ Answered \/ Forget \/ Flush \/ NewSession \/ FlushTurn
               \/ \E f \in File : Persist(f) \/ Remember(f)
      BY <3>1, MoveStep, MovesKeep DEF Inv
    <3>2. CASE \/ Logout \/ ForgetToken \/ Rotate \/ ResumeUploads \/ Expire
               \/ \E t \in Tenants : Login(t)
      BY <3>2, RequestsKeep
    <3>3. CASE \/ SaveFiles \/ Rotated \/ ClearQueue \/ ClearStore \/ Install \/ Teardown \/ Wake
               \/ \E c \in Contents : Capture(c)
      BY <3>3, SaveKeeps, RotatedKeeps, ClearKeeps, WipeKeeps, InstallKeeps, RestartsKeep,
         NewFileKeeps
    <3> QED  BY <1>1, <3>1, <3>2, <3>3 DEF Next, Runs
  <2> QED  BY <2>1, <2>2 DEF Inv, Kept
<1>2. CASE UNCHANGED vars
  <2>1. UNCHANGED <<memory, durable, workspace, history>>
    BY <1>2 DEF vars
  <2>2. TInv'
    BY <2>1 DEF memory, durable, workspace, history, Inv, TInv, Typed, TypeOK, UploadsOK,
       SettingsOK, FilesOK, WorkspaceOK, OpInv
  <2>3. Unsent' = Unsent /\ Flying' = Flying /\ Recent' = Recent /\ Accepted' = Accepted
        /\ Dropped' = Dropped
    BY <2>1 DEF memory, durable, workspace, history, Unsent, Puts, Leaving, Flying, Recent,
       Accepted, Dropped
  <2>4. LossInv' /\ NothingLost'
    BY <2>1, <2>3 DEF memory, durable, workspace, history, Inv, LossInv, NothingLost, Known
  <2>5. OwnerInv' /\ SentToOwnTenant'
    BY <2>1, <2>3 DEF memory, durable, workspace, history, Inv, OwnerInv, SentToOwnTenant,
       Switching
  <2> QED  BY <2>2, <2>4, <2>5 DEF Inv
<1> QED  BY <1>1, <1>2

LEMMA AlwaysInv == Spec => []Inv
BY Initially, InvKept, PTL DEF Spec

(* The types: what the uploader's fields, the extension's storage and the
   workspace can hold, in every interleaving of callbacks (batch-uploader.js). *)
THEOREM UploaderTypes == Spec => []TypeOK
<1>1. Inv => TypeOK
  BY DEF Inv, TInv, Typed
<1> QED  BY <1>1, AlwaysInv, PTL

(* "Capture continues; nothing is lost": what was once in the outbox stays
   there until it is stored, refused for good or dropped at a tenant switch,
   whatever teardowns, expiries, failures and logins come between the read of
   a batch, its answer and the deletes that follow it.                       *)
THEOREM OutboxKeeps == Spec => []NothingLost
<1>1. Inv => NothingLost
  BY DEF Inv
<1> QED  BY <1>1, AlwaysInv, PTL

(* "One tenant's unsent captures can never flush under another tenant's token":
   what was at hand at a switch is stored in its own tenant or nowhere, also
   when the batch was in flight, and when the next tenant has long signed in. *)
THEOREM TenantsApart == Spec => []SentToOwnTenant
<1>1. Inv => SentToOwnTenant
  BY DEF Inv
<1> QED  BY <1>1, AlwaysInv, PTL
==============================================================================
