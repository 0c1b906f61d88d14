-------------------------- MODULE CaptureIngestProofs --------------------------
(***************************************************************************)
(* Theorems about CaptureIngest, for any uploads and requests to analyze,  *)
(* any number of them at a time, and any number of crashes, storage        *)
(* failures and deleted sessions.                                          *)
(***************************************************************************)
EXTENDS CaptureIngest, TLAPS

Run == [id : Nat, session : Nat, open : BOOLEAN, jobs : Nat, sent : BOOLEAN,
        state : {"queued", "analyzing", "done", "failed"}]

(* Ids are never reused, so a run found by its id is the run that was meant:
   without this the seal could clear one marker and give another its job.    *)
RunsWellFormed ==
  /\ nextId \in Nat
  /\ \A s \in sessions : s.id \in Nat
  /\ runs \subseteq Run
  /\ \A n \in runs : n.id < nextId
  /\ \A n, k \in runs : n.id = k.id => n = k

JInv == RunsWellFormed /\ JobIffSealed
-----------------------------------------------------------------------------
(* A step that leaves the runs alone, and at most takes a new id. *)
LEMMA NoRunChanged ==
  ASSUME JInv, runs' = runs, nextId' \in {nextId, nextId + 1},
         \A s \in sessions' : s \in sessions \/ s.id = nextId
  PROVE  JInv'
<1>1. nextId \in Nat /\ nextId' \in Nat /\ nextId <= nextId'
  BY DEF JInv, RunsWellFormed
<1>2. \A n \in runs : n.id < nextId'
  BY <1>1 DEF JInv, RunsWellFormed, Run
<1>3. \A s \in sessions' : s.id \in Nat
  BY <1>1 DEF JInv, RunsWellFormed
<1>4. RunsWellFormed'
  BY <1>1, <1>2, <1>3 DEF JInv, RunsWellFormed
<1> QED
  BY <1>4 DEF JInv, JobIffSealed

(* A step that rewrites one run in place. *)
LEMMA OneRunChanged ==
  ASSUME JInv, NEW old \in runs, NEW new \in Run, new.id = old.id,
         new.jobs = IF new.open THEN 0 ELSE 1,
         runs' = (runs \ {old}) \cup {new}, UNCHANGED <<nextId, sessions>>
  PROVE  JInv'
<1>1. \A n \in runs' : n = new \/ (n \in runs /\ n.id # old.id)
  BY DEF JInv, RunsWellFormed
<1>2. RunsWellFormed'
  BY <1>1 DEF JInv, RunsWellFormed
<1>3. JobIffSealed'
  BY <1>1 DEF JInv, JobIffSealed
<1> QED
  BY <1>2, <1>3 DEF JInv

LEMMA CreateRunKeeps ==
  ASSUME JInv, NEW r \in Requests, CreateRun(r)
  PROVE  JInv'
<1>1. CASE UNCHANGED <<runs, nextId>>
  BY <1>1, NoRunChanged DEF CreateRun
<1>2. CASE OpenRuns(r) = {} /\ \E s \in sessions : s.id = req[r].session
  <2> DEFINE new == [id |-> nextId, session |-> req[r].session, open |-> TRUE,
                     jobs |-> 0, sent |-> FALSE, state |-> "queued"]
  <2>1. runs' = runs \cup {new} /\ nextId' = nextId + 1 /\ UNCHANGED sessions
    BY <1>2 DEF CreateRun
  <2>2. new \in Run /\ new.id = nextId /\ new.jobs = 0 /\ new.open = TRUE
    BY <1>2 DEF Run, JInv, RunsWellFormed
  <2> HIDE DEF new
  <2>3. RunsWellFormed'
    BY <2>1, <2>2 DEF JInv, RunsWellFormed, Run
  <2>4. JobIffSealed'
    BY <2>1, <2>2 DEF JInv, JobIffSealed
  <2> QED
    BY <2>3, <2>4 DEF JInv
<1> QED
  BY <1>1, <1>2 DEF CreateRun

(* The seal: one run, open until now and without a job, gets its job. *)
LEMMA SealKeeps ==
  ASSUME JInv, NEW r \in Requests, Seal(r)
  PROVE  JInv'
<1>1. CASE UNCHANGED runs
  BY <1>1, NoRunChanged DEF Seal
<1>2. CASE \E n \in runs : n.id = req[r].run /\ n.open
  <2>1. PICK old \in runs : old.id = req[r].run /\ old.open
    BY <1>2
  <2> DEFINE new == [old EXCEPT !.open = FALSE, !.jobs = @ + 1]
  <2>2. old \in Run /\ old.jobs = 0
    BY <2>1 DEF JInv, RunsWellFormed, JobIffSealed
  <2>3. new \in Run /\ new.id = old.id /\ new.jobs = 1 /\ new.open = FALSE
    <3>1. new = [old EXCEPT !.open = FALSE, !.jobs = 1]
      BY <2>2
    <3> HIDE DEF new
    <3> QED
      BY <2>2, <3>1 DEF Run
  <2>4. runs' = {IF n.id = req[r].run THEN [n EXCEPT !.open = FALSE, !.jobs = @ + 1]
                 ELSE n : n \in runs}
        /\ UNCHANGED <<nextId, sessions>>
    BY <1>2 DEF Seal
  <2>5. \A n \in runs : n.id = req[r].run <=> n = old
    BY <2>1 DEF JInv, RunsWellFormed
  <2>6. runs' = (runs \ {old}) \cup {new}
    BY <2>1, <2>4, <2>5
  <2> HIDE DEF new
  <2> QED
    BY <2>3, <2>4, <2>6, OneRunChanged
<1> QED
  BY <1>1, <1>2 DEF Seal

LEMMA PublishKeeps ==
  ASSUME JInv, NEW r \in Requests, Publish(r)
  PROVE  JInv'
<1>1. /\ runs' = {IF n.id = req[r].run THEN [n EXCEPT !.sent = TRUE] ELSE n : n \in runs}
      /\ UNCHANGED <<nextId, sessions>>
  BY DEF Publish
<1>2. CASE \E n \in runs : n.id = req[r].run
  <2>1. PICK old \in runs : old.id = req[r].run
    BY <1>2
  <2> DEFINE new == [old EXCEPT !.sent = TRUE]
  <2>2. old \in Run /\ (old.jobs = IF old.open THEN 0 ELSE 1)
    BY DEF JInv, RunsWellFormed, JobIffSealed
  <2>3. new \in Run /\ new.id = old.id /\ new.jobs = old.jobs /\ new.open = old.open
    BY <2>2 DEF Run
  <2>4. \A n \in runs : n.id = req[r].run <=> n = old
    BY <2>1 DEF JInv, RunsWellFormed
  <2>5. runs' = (runs \ {old}) \cup {new}
    BY <1>1, <2>1, <2>4
  <2> HIDE DEF new
  <2> QED
    BY <1>1, <2>2, <2>3, <2>5, OneRunChanged
<1>3. CASE ~\E n \in runs : n.id = req[r].run
  <2>1. runs' = runs
    BY <1>1, <1>3
  <2> QED
    BY <1>1, <2>1, NoRunChanged
<1> QED
  BY <1>2, <1>3

(* The worker's steps write the state of one run. *)
LEMMA WorkKeeps ==
  ASSUME JInv, Work
  PROVE  JInv'
<1>1. PICK n \in runs, state \in {"analyzing", "done", "failed"} :
        runs' = (runs \ {n}) \cup {[n EXCEPT !.state = state]}
  BY DEF Work, ListRows, EndRun
<1>2. UNCHANGED <<nextId, sessions>>
  BY DEF Work, ListRows, EndRun
<1> DEFINE new == [n EXCEPT !.state = state]
<1>3. n \in Run /\ (n.jobs = IF n.open THEN 0 ELSE 1)
  BY DEF JInv, RunsWellFormed, JobIffSealed
<1>4. new \in Run /\ new.id = n.id /\ new.jobs = n.jobs /\ new.open = n.open
  BY <1>3 DEF Run
<1>5. runs' = (runs \ {n}) \cup {new}
  BY <1>1
<1> HIDE DEF new
<1> QED
  BY <1>2, <1>3, <1>4, <1>5, OneRunChanged

(* A deleted session takes its runs with it. *)
LEMMA DeleteKeeps ==
  ASSUME JInv, NEW s \in sessions, DeleteSession(s)
  PROVE  JInv'
BY DEF DeleteSession, RunsOf, JInv, RunsWellFormed, JobIffSealed

LEMMA ServeKeeps ==
  ASSUME JInv, NEW r \in Requests, Serve(r)
  PROVE  JInv'
<1>1. CASE CreateTenant(r)
  BY <1>1, NoRunChanged DEF CreateTenant
<1>2. CASE CreateSession(r)
  <2>1. runs' = runs /\ nextId' \in {nextId, nextId + 1}
    BY <1>2 DEF CreateSession, InsertSession
  <2>2. \A s \in sessions' : s \in sessions \/ s.id = nextId
    BY <1>2 DEF CreateSession, InsertSession
  <2> QED
    BY <2>1, <2>2, NoRunChanged
<1>3. CASE UNCHANGED <<runs, nextId, sessions>>
  BY <1>3, NoRunChanged
<1> QED
  BY <1>1, <1>2, <1>3, CreateRunKeeps, SealKeeps, PublishKeeps
     DEF Serve, FindTenant, FindSession, FindRun, PutFiles, AddFirst, ReadVersions,
         AddVersions, Reply, LookAtLatest, StoreManifest

LEMMA InitJInv == Init => JInv
BY DEF Init, JInv, RunsWellFormed, JobIffSealed

LEMMA NextJInv ==
  ASSUME JInv, [Next]_vars
  PROVE  JInv'
<1>1. ASSUME NEW r \in Requests, Serve(r) PROVE JInv'
  BY <1>1, ServeKeeps
<1>2. ASSUME NEW s \in sessions, DeleteSession(s) PROVE JInv'
  BY <1>2, DeleteKeeps
<1>3. CASE UNCHANGED <<runs, nextId, sessions>>
  BY <1>3, NoRunChanged
<1> QED
  BY <1>1, <1>2, <1>3, WorkKeeps DEF Next, Crash, Sweep, vars

(* A run of the extension has its one job exactly when its marker is cleared,
   however many requests to analyze race, are repeated or die, and whatever
   uploads and deletions go on beside them (analyze_start).                  *)
THEOREM OneJobPerSeal == Spec => []JobIffSealed
<1>1. JInv => JobIffSealed
  BY DEF JInv
<1> QED
  BY <1>1, InitJInv, NextJInv, PTL DEF Spec
-----------------------------------------------------------------------------
(* What an upload has in hand: its run, the objects it has stored, the rows it
   has inserted and not committed, and the versions it will add.             *)
IsRow(x) ==
  /\ x = [run |-> x.run, url |-> x.url, mark |-> x.mark, bytes |-> x.bytes,
          map |-> x.map, analysis |-> x.analysis]
  /\ x.mark \in {"first", x.bytes}

IsRequest(q) ==
  q \in [pc : {q.pc}, tenant : {q.tenant}, session : {q.session}, run : {q.run},
         held : {q.held}, new : {q.new}, refused : {q.refused}, known : {q.known}]

Holds(set, run, f) == \E x \in set : x.run = run /\ x.url = f.url /\ x.bytes = f.bytes

Storing == {"rows", "versions", "commit", "reply"}
Uploading == {"newSession", "sessionAgain", "run", "runAgain", "newRun", "files"} \cup Storing

UploadOK(r) ==
  LET q == req[r]
      file(i) == Files[r][i]
  IN /\ IsRequest(q)
     /\ q.pc \in Uploading => r \in Saves
     /\ q.pc \in {"files"} \cup Storing => q.run \in Nat /\ q.run < nextId
     /\ q.pc \in Storing => Gone(q.run) \/ \A i \in Stored[r] : Objects(q.run, file(i)) \subseteq blobs
     /\ q.pc \notin {"versions", "commit"} => q.held = {}
     /\ \A x \in q.held : \E i \in Stored[r] : x = Row(q.run, file(i), "first")
     /\ q.pc = "commit" =>
          /\ \A x \in q.new : \E i \in Stored[r] : x = Row(q.run, file(i), file(i).bytes)
          /\ \A i \in Stored[r] \ q.refused : Gone(q.run) \/ Holds(rows \cup q.held \cup q.new, q.run, file(i))
     /\ q.pc = "reply" => \A i \in Stored[r] \ q.refused : Gone(q.run) \/ Holds(rows, q.run, file(i))

RowsOK == \A x \in rows : IsRow(x) /\ ~Gone(x.run) /\ Objects(x.run, x) \subseteq blobs

PurgeOK == \A id \in purge : id \in Nat /\ id < nextId /\ Gone(id)

AckOK(a) == a.run \in Nat /\ a.run < nextId /\ (Gone(a.run) \/ Holds(rows, a.run, a))

(* What was called stored has a row, every row has its objects, and an upload
   under way will leave it so; a run that is gone stays gone, so that neither
   a sweep nor a new run can meet a row.                                     *)
KInv ==
  /\ JInv
  /\ RowsOK /\ PurgeOK
  /\ req = [r \in Requests |-> req[r]]
  /\ \A r \in Requests : UploadOK(r)
  /\ \A a \in acked : AckOK(a)

(* What every step keeps: a run that is gone, a stored object of one that is
   not, and a row's url and bytes.                                           *)
Grows ==
  /\ nextId \in Nat /\ nextId' \in Nat /\ nextId <= nextId'
  /\ \A id \in Nat : id < nextId /\ Gone(id) => Gone(id)'
  /\ \A b \in blobs : b \in blobs' \/ Gone(b.run)'
  /\ \A x \in rows : Gone(x.run)' \/ Holds(rows', x.run, x)

LEMMA ObjectsOfRun ==
  ASSUME NEW run, NEW f, NEW b \in Objects(run, f)
  PROVE  b.run = run
BY DEF Objects, Blob

LEMMA HoldsGrows ==
  ASSUME Grows, NEW run, NEW f, NEW set, Holds(rows \cup set, run, f)
  PROVE  Gone(run)' \/ Holds(rows' \cup set, run, f)
BY DEF Grows, Holds

LEMMA OthersKeep ==
  ASSUME Grows, NEW r \in Requests, UploadOK(r), req'[r] = req[r]
  PROVE  UploadOK(r)'
<1> DEFINE q == req[r]
           file(i) == Files[r][i]
<1>0. q' = q
  OBVIOUS
<1>1. q.pc \in {"files"} \cup Storing => q.run \in Nat /\ q.run < nextId /\ q.run < nextId'
  BY DEF UploadOK, Grows
<1>2. q.pc \in Storing => Gone(q.run)' \/ \A i \in Stored[r] : Objects(q.run, file(i)) \subseteq blobs'
  <2> SUFFICES ASSUME q.pc \in Storing, ~Gone(q.run)', NEW i \in Stored[r],
                      NEW b \in Objects(q.run, file(i))
               PROVE  b \in blobs'
    OBVIOUS
  <2>1. b.run = q.run
    BY ObjectsOfRun
  <2>2. ~Gone(q.run)
    BY <1>1 DEF Grows, Storing
  <2>3. b \in blobs
    BY <2>2 DEF UploadOK
  <2> QED  BY <2>1, <2>3 DEF Grows
<1>3. q.pc = "commit" => \A i \in Stored[r] \ q.refused :
        Gone(q.run)' \/ Holds(rows' \cup q.held \cup q.new, q.run, file(i))
  <2> SUFFICES ASSUME q.pc = "commit", NEW i \in Stored[r] \ q.refused, ~Gone(q.run)'
               PROVE  Holds(rows' \cup q.held \cup q.new, q.run, file(i))
    OBVIOUS
  <2>1. ~Gone(q.run)
    BY <1>1 DEF Grows, Storing
  <2>2. Holds(rows \cup (q.held \cup q.new), q.run, file(i))
    BY <2>1 DEF UploadOK, Holds
  <2>3. Holds(rows' \cup (q.held \cup q.new), q.run, file(i))
    BY <2>2, HoldsGrows
  <2> QED  BY <2>3 DEF Holds
<1>4. q.pc = "reply" => \A i \in Stored[r] \ q.refused :
        Gone(q.run)' \/ Holds(rows', q.run, file(i))
  <2> SUFFICES ASSUME q.pc = "reply", NEW i \in Stored[r] \ q.refused, ~Gone(q.run)'
               PROVE  Holds(rows', q.run, file(i))
    OBVIOUS
  <2>1. ~Gone(q.run)
    BY <1>1 DEF Grows, Storing
  <2>2. Holds(rows \cup {}, q.run, file(i))
    BY <2>1 DEF UploadOK, Holds
  <2>3. Holds(rows' \cup {}, q.run, file(i))
    BY <2>2, HoldsGrows
  <2> QED  BY <2>3 DEF Holds
<1> QED
  BY <1>0, <1>1, <1>2, <1>3, <1>4 DEF UploadOK

(* A step that grows keeps the invariant, if it keeps it for the rows, the
   purge, the request it serves and what it calls stored.                    *)
LEMMA StepKeeps ==
  ASSUME KInv, JInv', Grows, RowsOK', PurgeOK',
         req' = [r \in Requests |-> req'[r]],
         \A r \in Requests : req'[r] = req[r] \/ UploadOK(r)',
         \A a \in acked' : a \in acked \/ AckOK(a)'
  PROVE  KInv'
<1>1. \A r \in Requests : UploadOK(r)'
  BY OthersKeep DEF KInv
<1>2. ASSUME NEW a \in acked PROVE AckOK(a)'
  <2>1. a.run \in Nat /\ a.run < nextId /\ (Gone(a.run) \/ Holds(rows, a.run, a))
    BY DEF KInv, AckOK
  <2>2. a.run < nextId' /\ (Gone(a.run) => Gone(a.run)')
    BY <2>1 DEF Grows
  <2>3. CASE Holds(rows, a.run, a)
    <3>1. Holds(rows \cup {}, a.run, a)
      BY <2>3
    <3>2. Gone(a.run)' \/ Holds(rows' \cup {}, a.run, a)
      BY <3>1, HoldsGrows
    <3> QED  BY <2>1, <2>2, <3>2 DEF AckOK, Holds
  <2> QED  BY <2>1, <2>2, <2>3 DEF AckOK
<1> QED
  BY <1>1, <1>2 DEF KInv

\* A request that has no upload in hand.
LEMMA NothingInHand ==
  ASSUME NEW r \in Requests, IsRequest(req'[r]), req'[r].held = {},
         req'[r].pc \notin {"files"} \cup Storing, req'[r].pc \in Uploading => r \in Saves
  PROVE  UploadOK(r)'
BY DEF UploadOK, Storing

LEMMA IdleIsRequest == IsRequest(Idle) /\ Idle.held = {} /\ Idle.pc = "idle" /\ Idle.run = 0
BY DEF IsRequest, Idle

\* Runs, rows and objects are left alone.
LEMMA QuietGrows ==
  ASSUME KInv, UNCHANGED <<runs, rows, blobs, purge>>, nextId' \in {nextId, nextId + 1}
  PROVE  Grows /\ RowsOK' /\ PurgeOK'
<1>1. nextId \in Nat /\ nextId' \in Nat /\ nextId <= nextId'
  BY DEF KInv, JInv, RunsWellFormed
<1>2. \A id : Gone(id)' <=> Gone(id)
  BY DEF Gone
<1>3. RowsOK'
  BY <1>2 DEF KInv, RowsOK
<1>4. PurgeOK'
  BY <1>1, <1>2 DEF KInv, PurgeOK
<1>5. Grows
  BY <1>1, <1>2 DEF Grows, Holds
<1> QED  BY <1>3, <1>4, <1>5

(* The steps that look up, fail or end a request. *)
LEMMA LooksKeep ==
  ASSUME KInv, JInv', NEW r \in Requests,
         UNCHANGED <<runs, rows, blobs, purge, acked>>, nextId' \in {nextId, nextId + 1},
         req' = [req EXCEPT ![r] = req'[r]], UploadOK(r)'
  PROVE  KInv'
<1>1. Grows /\ RowsOK' /\ PurgeOK'
  BY QuietGrows
<1>2. req = [o \in Requests |-> req[o]]
  BY DEF KInv
<1>3. req' = [o \in Requests |-> req'[o]]
  BY <1>2
<1>4. \A o \in Requests : req'[o] = req[o] \/ UploadOK(o)'
  BY <1>2
<1> QED  BY <1>1, <1>3, <1>4, StepKeeps

LEMMA FindsKeep ==
  ASSUME KInv, JInv', NEW r \in Requests,
         \/ FindTenant(r) \/ CreateTenant(r) \/ FindSession(r) \/ CreateSession(r) \/ FindRun(r)
         \/ LookAtLatest(r) \/ Crash(r)
  PROVE  KInv'
<1>0. /\ UploadOK(r) /\ IsRequest(req[r]) /\ req = [o \in Requests |-> req[o]]
      /\ r \in Saves \cup Starts /\ Saves \cap Starts = {}
  BY CaptureAssumption DEF KInv, UploadOK, Requests
<1>1. UNCHANGED <<runs, rows, blobs, purge, acked>> /\ nextId' \in {nextId, nextId + 1}
  BY DEF FindTenant, CreateTenant, FindSession, CreateSession, InsertSession, FindRun,
     LookAtLatest, Crash
<1>2. SUFFICES req' = [req EXCEPT ![r] = req'[r]] /\ UploadOK(r)'
  BY <1>1, LooksKeep
<1>3. ASSUME NEW q, req' = [req EXCEPT ![r] = q], IsRequest(q), q.held = {},
             q.pc \notin {"files"} \cup Storing, q.pc \in Uploading => r \in Saves
      PROVE  req' = [req EXCEPT ![r] = req'[r]] /\ UploadOK(r)'
  <2>1. req'[r] = q
    BY <1>0, <1>3
  <2> QED  BY <1>3, <2>1, NothingInHand
<1>4. CASE Fail(r) \/ Answer(r)
  <2> DEFINE done == [Idle EXCEPT !.pc = "done"]
  <2>1. IsRequest(done) /\ done.held = {} /\ done.pc = "done"
    BY DEF IsRequest, Idle
  <2> HIDE DEF done
  <2>2. CASE req' = [req EXCEPT ![r] = Idle]
    BY <1>3, <2>2, IdleIsRequest DEF Storing, Uploading
  <2>3. CASE req' = [req EXCEPT ![r] = done]
    BY <1>3, <2>1, <2>3 DEF Storing, Uploading
  <2> QED  BY <1>4, <2>2, <2>3 DEF Fail, Answer, done
<1>5. ASSUME NEW pc, Goto(r, pc), req[r].held = {}, pc \notin {"files"} \cup Storing,
             pc \in Uploading => r \in Saves
      PROVE  req' = [req EXCEPT ![r] = req'[r]] /\ UploadOK(r)'
  <2> DEFINE q == [req[r] EXCEPT !.pc = pc]
  <2>1. IsRequest(q) /\ q.held = {} /\ q.pc = pc /\ req' = [req EXCEPT ![r] = q]
    BY <1>0, <1>5 DEF IsRequest, Goto
  <2> HIDE DEF q
  <2> QED  BY <1>3, <1>5, <2>1
<1>6. CASE FindTenant(r)
  <2>1. CASE Goto(r, "tenant")
    BY <1>0, <1>5, <1>6, <2>1 DEF FindTenant, UploadOK, Storing, Uploading
  <2>2. ASSUME NEW t, req' = [req EXCEPT ![r] = [Idle EXCEPT !.pc = "session", !.tenant = t]]
        PROVE  req' = [req EXCEPT ![r] = req'[r]] /\ UploadOK(r)'
    <3> DEFINE q == [Idle EXCEPT !.pc = "session", !.tenant = t]
    <3>1. IsRequest(q) /\ q.held = {} /\ q.pc = "session"
      BY DEF IsRequest, Idle
    <3> HIDE DEF q
    <3> QED  BY <1>3, <2>2, <3>1 DEF q, Storing, Uploading
  <2> QED  BY <1>6, <2>1, <2>2 DEF FindTenant
<1>7. CASE CreateTenant(r)
  <2>1. PICK t : req' = [req EXCEPT ![r].pc = "session", ![r].tenant = t]
    BY <1>7 DEF CreateTenant
  <2> DEFINE q == [req[r] EXCEPT !.pc = "session", !.tenant = t]
  <2>2. req[r].held = {}
    BY <1>0, <1>7 DEF UploadOK, CreateTenant
  <2>3. IsRequest(q) /\ q.held = {} /\ q.pc = "session" /\ req' = [req EXCEPT ![r] = q]
    BY <1>0, <2>1, <2>2 DEF IsRequest
  <2> HIDE DEF q
  <2> QED  BY <1>3, <2>3 DEF Storing, Uploading
<1>8. CASE FindSession(r)
  <2>0. req[r].held = {}
    BY <1>0, <1>8 DEF UploadOK, FindSession
  <2>1. ASSUME NEW s, req' = [req EXCEPT ![r].pc = IF r \in Saves THEN "run" ELSE "latest",
                                         ![r].session = s]
        PROVE  req' = [req EXCEPT ![r] = req'[r]] /\ UploadOK(r)'
    <3> DEFINE q == [req[r] EXCEPT !.pc = IF r \in Saves THEN "run" ELSE "latest", !.session = s]
    <3>1. /\ IsRequest(q) /\ q.held = {} /\ req' = [req EXCEPT ![r] = q]
          /\ q.pc = IF r \in Saves THEN "run" ELSE "latest"
      BY <1>0, <2>0, <2>1 DEF IsRequest
    <3> HIDE DEF q
    <3> QED  BY <1>3, <3>1 DEF Storing, Uploading
  <2>2. CASE r \in Saves /\ Goto(r, "newSession")
    BY <1>5, <2>0, <2>2 DEF Storing
  <2> QED  BY <1>0, <1>4, <1>8, <2>1, <2>2 DEF FindSession
<1>9. CASE CreateSession(r)
  <2>0. req[r].held = {} /\ r \in Saves
    BY <1>0, <1>9 DEF UploadOK, CreateSession, Uploading
  <2>1. CASE Goto(r, "sessionAgain")
    BY <1>5, <2>0, <2>1 DEF Storing
  <2>2. CASE req' = [req EXCEPT ![r].pc = "run", ![r].session = nextId]
    <3> DEFINE q == [req[r] EXCEPT !.pc = "run", !.session = nextId]
    <3>1. IsRequest(q) /\ q.held = {} /\ q.pc = "run" /\ req' = [req EXCEPT ![r] = q]
      BY <1>0, <2>0, <2>2 DEF IsRequest
    <3> HIDE DEF q
    <3> QED  BY <1>3, <2>0, <3>1 DEF Storing
  <2> QED  BY <1>9, <2>1, <2>2 DEF CreateSession, InsertSession
<1>10. CASE FindRun(r)
  <2>0. req[r].held = {} /\ r \in Saves
    BY <1>0, <1>10 DEF UploadOK, FindRun, Uploading
  <2>1. ASSUME NEW n \in OpenRuns(r), req' = [req EXCEPT ![r].pc = "files", ![r].run = n.id]
        PROVE  req' = [req EXCEPT ![r] = req'[r]] /\ UploadOK(r)'
    <3> DEFINE q == [req[r] EXCEPT !.pc = "files", !.run = n.id]
    <3>1. IsRequest(q) /\ q.held = {} /\ q.pc = "files" /\ q.run = n.id
          /\ req' = [req EXCEPT ![r] = q] /\ req'[r] = q
      BY <1>0, <2>0, <2>1 DEF IsRequest
    <3>2. n.id \in Nat /\ n.id < nextId /\ nextId' = nextId
      BY <1>10 DEF OpenRuns, KInv, JInv, RunsWellFormed, Run, FindRun
    <3> HIDE DEF q
    <3> QED  BY <2>0, <3>1, <3>2 DEF UploadOK, Storing
  <2>2. CASE Goto(r, "newRun")
    BY <1>5, <2>0, <2>2 DEF Storing
  <2> QED  BY <1>4, <1>10, <2>1, <2>2 DEF FindRun
<1>11. CASE LookAtLatest(r)
  <2>0. req[r].held = {}
    BY <1>0, <1>11 DEF UploadOK, LookAtLatest
  <2>1. ASSUME NEW run, NEW known,
               req' = [req EXCEPT ![r].pc = "seal", ![r].run = run, ![r].known = known]
        PROVE  req' = [req EXCEPT ![r] = req'[r]] /\ UploadOK(r)'
    <3> DEFINE q == [req[r] EXCEPT !.pc = "seal", !.run = run, !.known = known]
    <3>1. IsRequest(q) /\ q.held = {} /\ q.pc = "seal" /\ req' = [req EXCEPT ![r] = q]
      BY <1>0, <2>0, <2>1 DEF IsRequest
    <3> HIDE DEF q
    <3> QED  BY <1>3, <3>1 DEF Storing, Uploading
  <2> QED  BY <1>4, <1>11, <2>1 DEF LookAtLatest
<1> QED
  BY <1>4, <1>6, <1>7, <1>8, <1>9, <1>10, <1>11 DEF Crash

\* A new run has an id nobody has met.
LEMMA NewRunKeeps ==
  ASSUME KInv, JInv', NEW r \in Requests, CreateRun(r)
  PROVE  KInv'
<1>0. /\ UploadOK(r) /\ IsRequest(req[r]) /\ req = [o \in Requests |-> req[o]]
      /\ req[r].held = {} /\ r \in Saves
  BY DEF KInv, UploadOK, CreateRun, Uploading
<1>1. CASE Goto(r, "runAgain") /\ UNCHANGED <<runs, nextId>>
  <2> DEFINE q == [req[r] EXCEPT !.pc = "runAgain"]
  <2>1. IsRequest(q) /\ q.held = {} /\ q.pc = "runAgain" /\ req' = [req EXCEPT ![r] = q]
    BY <1>0, <1>1 DEF IsRequest, Goto
  <2> HIDE DEF q
  <2>2. UploadOK(r)' /\ req' = [req EXCEPT ![r] = req'[r]]
    BY <1>0, <2>1, NothingInHand DEF Storing
  <2> QED  BY <1>1, <2>2, LooksKeep DEF CreateRun
<1>2. CASE OpenRuns(r) = {} /\ \E s \in sessions : s.id = req[r].session
  <2> DEFINE new == [id |-> nextId, session |-> req[r].session, open |-> TRUE,
                     jobs |-> 0, sent |-> FALSE, state |-> "queued"]
             q == [req[r] EXCEPT !.pc = "files", !.run = nextId]
  <2>1. /\ runs' = runs \cup {new} /\ nextId' = nextId + 1 /\ req' = [req EXCEPT ![r] = q]
        /\ UNCHANGED <<rows, blobs, purge, acked>>
    BY <1>2 DEF CreateRun
  <2>2. new.id = nextId /\ IsRequest(q) /\ q.held = {} /\ q.pc = "files" /\ q.run = nextId
    BY <1>0 DEF IsRequest
  <2> HIDE DEF new, q
  <2>3. nextId \in Nat /\ nextId' \in Nat /\ nextId < nextId'
    BY <2>1 DEF KInv, JInv, RunsWellFormed
  <2>4. /\ \A id \in Nat : id < nextId /\ Gone(id) => Gone(id)'
        /\ \A id : ~Gone(id) => ~Gone(id)'
    BY <2>1, <2>2, <2>3 DEF Gone
  <2>5. Grows
    BY <2>1, <2>3, <2>4 DEF Grows, Holds
  <2>6. RowsOK'
    BY <2>1, <2>4 DEF KInv, RowsOK
  <2>7. PurgeOK'
    BY <2>1, <2>3, <2>4 DEF KInv, PurgeOK
  <2>8. UploadOK(r)'
    <3>1. req'[r] = q
      BY <1>0, <2>1
    <3> QED  BY <1>0, <2>2, <2>3, <3>1 DEF UploadOK, Storing
  <2>9. /\ req' = [o \in Requests |-> req'[o]]
        /\ \A o \in Requests : req'[o] = req[o] \/ UploadOK(o)'
    BY <1>0, <2>1, <2>8
  <2> QED  BY <2>1, <2>5, <2>6, <2>7, <2>9, StepKeeps
<1> QED  BY <1>1, <1>2 DEF CreateRun

(* The objects are written before any row names them. *)
LEMMA PutsKeep ==
  ASSUME KInv, JInv', NEW r \in Requests, PutFiles(r) \/ StoreManifest(r)
  PROVE  KInv'
<1>0. /\ UploadOK(r) /\ IsRequest(req[r]) /\ req = [o \in Requests |-> req[o]]
      /\ req[r].held = {}
  BY DEF KInv, UploadOK, PutFiles, StoreManifest
<1>1. UNCHANGED <<runs, rows, purge, acked, nextId>> /\ blobs \subseteq blobs'
  BY DEF PutFiles, StoreManifest
<1>2. \A id : Gone(id)' <=> Gone(id)
  BY <1>1 DEF Gone
<1>3. Grows /\ RowsOK' /\ PurgeOK'
  BY <1>1, <1>2 DEF Grows, Holds, KInv, RowsOK, PurgeOK, JInv, RunsWellFormed
<1>4. SUFFICES req' = [req EXCEPT ![r] = req'[r]] /\ UploadOK(r)'
  <2>1. /\ req' = [o \in Requests |-> req'[o]]
        /\ \A o \in Requests : req'[o] = req[o] \/ UploadOK(o)'
    BY <1>0, <1>4
  <2> QED  BY <1>1, <1>3, <2>1, StepKeeps
<1>5. CASE Fail(r)
  BY <1>0, <1>5, IdleIsRequest, NothingInHand DEF Fail, Storing, Uploading
<1>6. CASE StoreManifest(r) /\ req' = [req EXCEPT ![r].known = {}]
  <2> DEFINE q == [req[r] EXCEPT !.known = {}]
  <2>1. IsRequest(q) /\ q.held = {} /\ q.pc = "seal" /\ req' = [req EXCEPT ![r] = q]
    BY <1>0, <1>6 DEF IsRequest, StoreManifest
  <2> HIDE DEF q
  <2> QED  BY <1>0, <2>1, NothingInHand DEF Storing, Uploading
<1>7. CASE /\ req[r].pc = "files" /\ req' = [req EXCEPT ![r].pc = "rows"]
           /\ blobs' = blobs \cup UNION {Objects(req[r].run, Files[r][i]) : i \in Stored[r]}
  <2> DEFINE q == [req[r] EXCEPT !.pc = "rows"]
  <2>1. /\ IsRequest(q) /\ q.held = {} /\ q.pc = "rows" /\ q.run = req[r].run
        /\ req' = [req EXCEPT ![r] = q] /\ req'[r] = q
    BY <1>0, <1>7 DEF IsRequest
  <2>2. \A i \in Stored[r] : Objects(q.run, Files[r][i]) \subseteq blobs'
    BY <1>7, <2>1
  <2>3. r \in Saves /\ q.run \in Nat /\ q.run < nextId'
    BY <1>0, <1>1, <1>7, <2>1 DEF UploadOK, Uploading
  <2> HIDE DEF q
  <2> QED  BY <2>1, <2>2, <2>3 DEF UploadOK, Storing
<1> QED  BY <1>5, <1>6, <1>7 DEF PutFiles, StoreManifest
-----------------------------------------------------------------------------
(* The rows of an upload. *)
LEMMA RowIs ==
  ASSUME NEW run, NEW f, NEW mark \in {"first", f.bytes}, NEW x, x = Row(run, f, mark)
  PROVE  /\ IsRow(x) /\ x.run = run /\ x.url = f.url /\ x.bytes = f.bytes /\ x.mark = mark
         /\ Objects(x.run, x) = Objects(run, f)
BY DEF Row, IsRow, Objects

LEMMA BytesAreNotFirst ==
  ASSUME NEW r \in Saves, NEW i \in Stored[r]
  PROVE  Files[r][i].bytes # "first"
BY CaptureAssumption DEF Stored

\* Rows with the same key hold the same bytes of the same url.
LEMMA KeyHolds ==
  ASSUME NEW set, \A x \in set : IsRow(x), NEW run, NEW f, f.bytes # "first",
         Key(Row(run, f, f.bytes)) \in Keys(set)
  PROVE  Holds(set, run, f)
<1>1. PICK x \in set : Key(x) = Key(Row(run, f, f.bytes))
  BY DEF Keys
<1>2. x.run = run /\ x.url = f.url /\ x.mark = f.bytes
  BY <1>1 DEF Key, Row
<1>3. x.bytes = f.bytes
  BY <1>2 DEF IsRow
<1> QED  BY <1>2, <1>3 DEF Holds

(* Whatever the cap turns away, a file that is not turned away is held already
   or becomes a version.                                                     *)
LEMMA AdmitHolds ==
  ASSUME NEW r \in Saves, NEW run, NEW visible, \A x \in visible : IsRow(x)
  PROVE  LET seen == Admit(visible, run, r)
         IN  /\ \A x \in seen.new : \E i \in Stored[r] :
                  x = Row(run, Files[r][i], Files[r][i].bytes)
             /\ \A i \in Stored[r] \ seen.refused : Holds(visible \cup seen.new, run, Files[r][i])
<1> DEFINE File(i) == Files[r][i]
           First(i) == {x \in visible : Key(x) = <<run, File(i).url, "first">>}
           Version(i) == Row(run, File(i), File(i).bytes)
           fresh == {i \in Stored[r] : /\ \A x \in First(i) : x.bytes # File(i).bytes
                                       /\ Key(Version(i)) \notin Keys(visible)}
           Ahead(i) == {k \in fresh : k < i /\ File(k).url = File(i).url}
           Versions(i) == {x \in visible : x.run = run /\ x.url = File(i).url /\ x.mark # "first"}
           admitted == {i \in fresh : /\ First(i) # {}
                                      /\ Cardinality(Versions(i)) + Cardinality(Ahead(i)) < MaxVersions}
           seen == Admit(visible, run, r)
<1>1. seen = [new |-> {Version(i) : i \in admitted}, refused |-> fresh \ admitted]
  BY DEF Admit
<1>2. seen.new = {Version(i) : i \in admitted} /\ seen.refused = fresh \ admitted
  BY <1>1
<1>3. admitted \subseteq fresh /\ fresh \subseteq Stored[r]
  OBVIOUS
<1> HIDE DEF admitted, seen
<1>4. \A x \in seen.new : \E i \in Stored[r] : x = Row(run, Files[r][i], Files[r][i].bytes)
  BY <1>2, <1>3
<1>5. ASSUME NEW i \in Stored[r] \ seen.refused
      PROVE  Holds(visible \cup seen.new, run, Files[r][i])
  <2>1. CASE i \in admitted
    <3>1. Version(i) \in seen.new /\ Version(i).run = run /\ Version(i).url = File(i).url
          /\ Version(i).bytes = File(i).bytes
      BY <1>2, <2>1 DEF Row
    <3> HIDE DEF Version
    <3> QED  BY <3>1 DEF Holds
  <2>2. CASE \E x \in First(i) : x.bytes = File(i).bytes
    <3>1. PICK x \in visible : Key(x) = <<run, File(i).url, "first">> /\ x.bytes = File(i).bytes
      BY <2>2
    <3>2. x.run = run /\ x.url = File(i).url
      BY <3>1 DEF Key
    <3> QED  BY <3>1, <3>2 DEF Holds
  <2>3. CASE Key(Version(i)) \in Keys(visible)
    <3>1. Holds(visible, run, Files[r][i])
      BY <2>3, KeyHolds, BytesAreNotFirst
    <3> QED  BY <3>1 DEF Holds
  <2> QED  BY <1>2, <2>1, <2>2, <2>3
<1> HIDE DEF seen
<1>6. /\ \A x \in seen.new : \E i \in Stored[r] : x = Row(run, Files[r][i], Files[r][i].bytes)
      /\ \A i \in Stored[r] \ seen.refused : Holds(visible \cup seen.new, run, Files[r][i])
  BY <1>4, <1>5
<1> QED  BY <1>6 DEF seen

LEMMA InsertsKeep ==
  ASSUME KInv, JInv', NEW r \in Requests, AddFirst(r) \/ ReadVersions(r)
  PROVE  KInv'
<1>0. /\ UploadOK(r) /\ IsRequest(req[r]) /\ req = [o \in Requests |-> req[o]]
      /\ r \in Saves /\ req[r].run \in Nat /\ req[r].run < nextId
  BY DEF KInv, UploadOK, AddFirst, ReadVersions, Uploading, Storing
<1>1. UNCHANGED <<runs, rows, blobs, purge, acked, nextId>>
  BY DEF AddFirst, ReadVersions
<1>2. SUFFICES req' = [req EXCEPT ![r] = req'[r]] /\ UploadOK(r)'
  BY <1>1, LooksKeep
<1>g. \A id : Gone(id)' <=> Gone(id)
  BY <1>1 DEF Gone
<1>3. CASE Fail(r)
  BY <1>0, <1>3, IdleIsRequest, NothingInHand DEF Fail, Storing, Uploading
<1>4. CASE AddFirst(r) /\ ~Fail(r)
  <2> DEFINE want == {Row(req[r].run, f, "first") : f \in FirstOf(r)}
             free == {x \in want : Key(x) \notin Keys(rows)}
             q == [req[r] EXCEPT !.pc = "versions", !.held = free]
  <2>1. req' = [req EXCEPT ![r] = q] /\ req[r].pc = "rows"
    BY <1>0, <1>4 DEF AddFirst
  <2>2. IsRequest(q) /\ q.held = free /\ q.pc = "versions" /\ q.run = req[r].run
    BY <1>0 DEF IsRequest
  <2>3. \A x \in free : \E i \in Stored[r] : x = Row(req[r].run, Files[r][i], "first")
    BY DEF FirstOf
  <2>4. Gone(req[r].run) \/ \A i \in Stored[r] : Objects(req[r].run, Files[r][i]) \subseteq blobs
    BY <1>0, <2>1 DEF UploadOK, Storing
  <2> HIDE DEF q, free
  <2>5. req'[r] = q
    BY <1>0, <2>1
  <2> QED  BY <1>0, <1>1, <1>g, <2>1, <2>2, <2>3, <2>4, <2>5 DEF UploadOK, Storing
<1>5. CASE ReadVersions(r)
  <2> DEFINE visible == rows \cup req[r].held
             seen == Admit(visible, req[r].run, r)
             q == [req[r] EXCEPT !.pc = "commit", !.new = seen.new, !.refused = seen.refused]
  <2>1. req' = [req EXCEPT ![r] = q] /\ req[r].pc = "versions"
    BY <1>5 DEF ReadVersions
  <2>2. /\ IsRequest(q) /\ q.held = req[r].held /\ q.pc = "commit" /\ q.run = req[r].run
        /\ q.new = seen.new /\ q.refused = seen.refused
    BY <1>0 DEF IsRequest
  <2>3. \A x \in visible : IsRow(x)
    <3>1. \A x \in rows : IsRow(x)
      BY DEF KInv, RowsOK
    <3>2. \A x \in req[r].held : \E i \in Stored[r] : x = Row(req[r].run, Files[r][i], "first")
      BY <1>0 DEF UploadOK
    <3> QED  BY <3>1, <3>2, RowIs
  <2>4. /\ \A x \in seen.new : \E i \in Stored[r] :
             x = Row(req[r].run, Files[r][i], Files[r][i].bytes)
        /\ \A i \in Stored[r] \ seen.refused :
             Holds(visible \cup seen.new, req[r].run, Files[r][i])
    BY <1>0, <2>3, AdmitHolds
  <2>5. /\ Gone(req[r].run) \/ \A i \in Stored[r] : Objects(req[r].run, Files[r][i]) \subseteq blobs
        /\ \A x \in req[r].held : \E i \in Stored[r] : x = Row(req[r].run, Files[r][i], "first")
    BY <1>0, <2>1 DEF UploadOK, Storing
  <2> HIDE DEF q, seen
  <2>6. req'[r] = q
    BY <1>0, <2>1
  <2> QED  BY <1>0, <1>1, <1>g, <2>1, <2>2, <2>4, <2>5, <2>6 DEF UploadOK, Storing
<1> QED  BY <1>3, <1>4, <1>5

(* The commit: what it adds is of a run that is there, and has its objects. *)
LEMMA CommitKeeps ==
  ASSUME KInv, JInv', NEW r \in Requests, AddVersions(r)
  PROVE  KInv'
<1> DEFINE run == req[r].run
           file(i) == Files[r][i]
           add == req[r].held \cup {x \in req[r].new : Key(x) \notin Keys(rows)}
<1>0. /\ UploadOK(r) /\ IsRequest(req[r]) /\ req = [o \in Requests |-> req[o]]
      /\ r \in Saves /\ run \in Nat /\ run < nextId /\ req[r].pc = "commit" /\ RowsOK
      /\ \A x \in rows : IsRow(x)
  BY DEF KInv, UploadOK, RowsOK, AddVersions, Uploading, Storing
<1>1. UNCHANGED <<runs, blobs, purge, acked, nextId>>
  BY DEF AddVersions
<1>g. \A id : Gone(id)' <=> Gone(id)
  BY <1>1 DEF Gone
<1>2. CASE Fail(r) /\ UNCHANGED rows
  <2>1. req' = [req EXCEPT ![r] = req'[r]] /\ UploadOK(r)'
    BY <1>0, <1>2, IdleIsRequest, NothingInHand DEF Fail, Storing, Uploading
  <2> QED  BY <1>1, <1>2, <2>1, LooksKeep
<1>3. CASE /\ add = {} \/ ~Gone(run)
           /\ rows' = rows \cup add
           /\ req' = [req EXCEPT ![r].pc = "reply", ![r].held = {}]
  <2> DEFINE q == [req[r] EXCEPT !.pc = "reply", !.held = {}]
  <2>1. /\ IsRequest(q) /\ q.held = {} /\ q.pc = "reply" /\ q.run = run
        /\ q.refused = req[r].refused /\ req' = [req EXCEPT ![r] = q] /\ req'[r] = q
    BY <1>0, <1>3 DEF IsRequest
  <2>2. ASSUME NEW x \in req[r].held \cup req[r].new
        PROVE  /\ IsRow(x) /\ x.run = run
               /\ Gone(run) \/ Objects(x.run, x) \subseteq blobs
    <3>1. PICK i \in Stored[r] : \E mark \in {"first", file(i).bytes} : x = Row(run, file(i), mark)
      BY <1>0, <2>2 DEF UploadOK
    <3>2. Gone(run) \/ Objects(run, file(i)) \subseteq blobs
      BY <1>0 DEF UploadOK, Storing
    <3>3. PICK mark \in {"first", file(i).bytes} : x = Row(run, file(i), mark)
      BY <3>1
    <3>4. IsRow(x) /\ x.run = run /\ Objects(x.run, x) = Objects(run, file(i))
      BY <3>3 DEF Row, IsRow, Objects
    <3> QED  BY <3>2, <3>4
  <2>3. \A x \in add : IsRow(x) /\ x.run = run /\ ~Gone(run) /\ Objects(x.run, x) \subseteq blobs
    BY <1>3, <2>2
  <2>4. RowsOK'
    BY <1>0, <1>1, <1>3, <1>g, <2>3 DEF RowsOK
  <2>5. Grows /\ PurgeOK'
    BY <1>1, <1>3, <1>g DEF Grows, Holds, KInv, PurgeOK, JInv, RunsWellFormed
  <2>6. ASSUME NEW i \in Stored[r] \ req[r].refused, ~Gone(run)
        PROVE  Holds(rows', run, file(i))
    <3>1. Holds(rows \cup req[r].held \cup req[r].new, run, file(i))
      BY <1>0, <2>6 DEF UploadOK
    <3>2. PICK x \in rows \cup req[r].held \cup req[r].new :
            x.run = run /\ x.url = file(i).url /\ x.bytes = file(i).bytes
      BY <3>1 DEF Holds
    <3>3. CASE x \in rows \cup add
      BY <1>3, <3>2, <3>3 DEF Holds
    <3>4. CASE x \in req[r].new /\ Key(x) \in Keys(rows)
      <4>1. PICK k \in Stored[r] : x = Row(run, file(k), file(k).bytes)
        BY <1>0, <3>4 DEF UploadOK
      <4>2. Holds(rows, run, file(k))
        BY <1>0, <3>4, <4>1, KeyHolds, BytesAreNotFirst
      <4>3. file(k).url = file(i).url /\ file(k).bytes = file(i).bytes
        BY <3>2, <4>1 DEF Row
      <4> QED  BY <1>3, <4>2, <4>3 DEF Holds
    <3> QED  BY <3>2, <3>3, <3>4
  <2>7. Gone(run) \/ \A i \in Stored[r] : Objects(run, file(i)) \subseteq blobs
    BY <1>0 DEF UploadOK, Storing
  <2> HIDE DEF q, add
  <2>8. UploadOK(r)'
    BY <1>0, <1>1, <1>g, <2>1, <2>6, <2>7 DEF UploadOK, Storing
  <2>9. /\ req' = [o \in Requests |-> req'[o]]
        /\ \A o \in Requests : req'[o] = req[o] \/ UploadOK(o)'
    BY <1>0, <2>1, <2>8
  <2> QED  BY <1>1, <2>4, <2>5, <2>9, StepKeeps
<1> QED  BY <1>2, <1>3 DEF AddVersions

(* The reply calls stored what the commit has left held. *)
LEMMA ReplyKeeps ==
  ASSUME KInv, JInv', NEW r \in Requests, Reply(r)
  PROVE  KInv'
<1>0. /\ UploadOK(r) /\ req = [o \in Requests |-> req[o]] /\ req[r].pc \in Storing
  BY DEF KInv, Reply, Storing
<1>1. UNCHANGED <<runs, rows, blobs, purge, nextId>>
  BY DEF Reply
<1>2. Grows /\ RowsOK' /\ PurgeOK'
  BY <1>1, QuietGrows DEF KInv, JInv, RunsWellFormed
<1>g. \A id : Gone(id)' <=> Gone(id)
  BY <1>1 DEF Gone
<1> DEFINE done == [Idle EXCEPT !.pc = "done"]
           said(i) == [run |-> req[r].run, url |-> Files[r][i].url, bytes |-> Files[r][i].bytes]
<1>3. IsRequest(done) /\ done.held = {} /\ done.pc = "done" /\ req' = [req EXCEPT ![r] = done]
  BY DEF IsRequest, Idle, Reply
<1>4. UploadOK(r)'
  <2> HIDE DEF done
  <2>1. req'[r] = done
    BY <1>0, <1>3
  <2> QED  BY <1>3, <2>1, NothingInHand DEF Storing, Uploading
<1>5. ASSUME NEW a \in acked' PROVE a \in acked \/ AckOK(a)'
  <2>1. CASE \E i \in Stored[r] \ req[r].refused : a = said(i)
    <3>1. PICK i \in Stored[r] \ req[r].refused : a = said(i)
      BY <2>1
    <3>2. req[r].pc = "reply" /\ req[r].run \in Nat /\ req[r].run < nextId
      BY <1>0, <3>1 DEF Reply, UploadOK
    <3>3. Gone(req[r].run) \/ Holds(rows, req[r].run, Files[r][i])
      BY <1>0, <3>1, <3>2 DEF UploadOK
    <3>4. a.run = req[r].run /\ a.url = Files[r][i].url /\ a.bytes = Files[r][i].bytes
      BY <3>1
    <3> QED  BY <1>1, <1>g, <3>2, <3>3, <3>4 DEF AckOK, Holds
  <2> QED  BY <1>5, <2>1 DEF Reply
<1>6. /\ req' = [o \in Requests |-> req'[o]]
      /\ \A o \in Requests : req'[o] = req[o] \/ UploadOK(o)'
  BY <1>0, <1>3, <1>4
<1> QED  BY <1>2, <1>5, <1>6, StepKeeps
-----------------------------------------------------------------------------
(* A step that keeps which runs are there, and each row's objects. *)
LEMMA SameRunsGrow ==
  ASSUME KInv, UNCHANGED <<blobs, purge, nextId>>, \A id : Gone(id)' <=> Gone(id),
         \A x \in rows : Holds(rows', x.run, x),
         \A y \in rows' : \E x \in rows :
           IsRow(y) /\ y.run = x.run /\ Objects(y.run, y) = Objects(x.run, x)
  PROVE  Grows /\ RowsOK' /\ PurgeOK'
<1>1. Grows /\ PurgeOK'
  BY DEF Grows, KInv, PurgeOK, JInv, RunsWellFormed
<1>2. ASSUME NEW y \in rows' PROVE IsRow(y) /\ ~Gone(y.run)' /\ Objects(y.run, y) \subseteq blobs'
  <2>1. PICK x \in rows : IsRow(y) /\ y.run = x.run /\ Objects(y.run, y) = Objects(x.run, x)
    OBVIOUS
  <2>2. ~Gone(x.run) /\ Objects(x.run, x) \subseteq blobs
    BY DEF KInv, RowsOK
  <2> QED  BY <2>1, <2>2
<1>3. RowsOK'
  BY <1>2 DEF RowsOK
<1> QED  BY <1>1, <1>3

LEMMA SealsKeep ==
  ASSUME KInv, JInv', NEW r \in Requests, Seal(r) \/ Publish(r)
  PROVE  KInv'
<1>0. /\ UploadOK(r) /\ IsRequest(req[r]) /\ req = [o \in Requests |-> req[o]]
      /\ req[r].held = {}
  BY DEF KInv, UploadOK, Seal, Publish
<1>1. UNCHANGED <<rows, blobs, purge, acked, nextId>>
  BY DEF Seal, Publish
<1>2. \A id : Gone(id)' <=> Gone(id)
  <2>1. CASE UNCHANGED runs
    BY <2>1 DEF Gone
  <2>2. \A n \in runs : n \in [id : {n.id}, session : Nat, open : BOOLEAN, jobs : Nat,
                               sent : BOOLEAN, state : {n.state}]
    BY DEF KInv, JInv, RunsWellFormed, Run
  <2>3. CASE runs' = {IF n.id = req[r].run THEN [n EXCEPT !.open = FALSE, !.jobs = @ + 1]
                      ELSE n : n \in runs}
    <3>1. \A n \in runs : [n EXCEPT !.open = FALSE, !.jobs = @ + 1].id = n.id
      BY <2>2
    <3> QED  BY <2>3, <3>1 DEF Gone
  <2>4. CASE runs' = {IF n.id = req[r].run THEN [n EXCEPT !.sent = TRUE] ELSE n : n \in runs}
    <3>1. \A n \in runs : [n EXCEPT !.sent = TRUE].id = n.id
      BY <2>2
    <3> QED  BY <2>4, <3>1 DEF Gone
  <2> QED  BY <2>1, <2>3, <2>4 DEF Seal, Publish
<1>3. \A x \in rows : IsRow(x) /\ Holds(rows, x.run, x)
  BY DEF KInv, RowsOK, Holds
<1>4. Grows /\ RowsOK' /\ PurgeOK'
  BY <1>1, <1>2, <1>3, SameRunsGrow
<1>5. req' = [req EXCEPT ![r] = req'[r]] /\ UploadOK(r)'
  <2>1. CASE Answer(r)
    <3> DEFINE done == [Idle EXCEPT !.pc = "done"]
    <3>1. IsRequest(done) /\ done.held = {} /\ done.pc = "done" /\ req' = [req EXCEPT ![r] = done]
      BY <2>1 DEF IsRequest, Idle, Answer
    <3> HIDE DEF done
    <3>2. req'[r] = done
      BY <1>0, <3>1
    <3> QED  BY <1>0, <3>1, <3>2, NothingInHand DEF Storing, Uploading
  <2>2. CASE Goto(r, "publish")
    <3> DEFINE q == [req[r] EXCEPT !.pc = "publish"]
    <3>1. IsRequest(q) /\ q.held = {} /\ q.pc = "publish" /\ req' = [req EXCEPT ![r] = q]
      BY <1>0, <2>2 DEF IsRequest, Goto
    <3> HIDE DEF q
    <3>2. req'[r] = q
      BY <1>0, <3>1
    <3> QED  BY <1>0, <3>1, <3>2, NothingInHand DEF Storing, Uploading
  <2> QED  BY <2>1, <2>2 DEF Seal, Publish
<1>6. /\ req' = [o \in Requests |-> req'[o]]
      /\ \A o \in Requests : req'[o] = req[o] \/ UploadOK(o)'
  BY <1>0, <1>5
<1> QED  BY <1>1, <1>4, <1>6, StepKeeps

\* The analysis of a row is not part of what it holds.
LEMMA AnalysisApart ==
  ASSUME NEW x, IsRow(x), NEW a, NEW y, y = [x EXCEPT !.analysis = a]
  PROVE  /\ IsRow(y) /\ y.run = x.run /\ y.url = x.url /\ y.bytes = x.bytes
         /\ Objects(y.run, y) = Objects(x.run, x)
<1>1. /\ x = [run |-> x.run, url |-> x.url, mark |-> x.mark, bytes |-> x.bytes,
              map |-> x.map, analysis |-> x.analysis]
      /\ x.mark \in {"first", x.bytes}
  BY DEF IsRow
<1>2. y = [run |-> x.run, url |-> x.url, mark |-> x.mark, bytes |-> x.bytes,
           map |-> x.map, analysis |-> a]
  BY <1>1
<1> QED  BY <1>1, <1>2 DEF IsRow, Objects

(* The worker writes the state of one run and of its rows. *)
LEMMA WorksKeep ==
  ASSUME KInv, JInv', Work
  PROVE  KInv'
<1>1. PICK n \in runs, state \in {"analyzing", "done", "failed"} :
        /\ runs' = (runs \ {n}) \cup {[n EXCEPT !.state = state]}
        /\ \/ rows' = {IF x.run = n.id THEN [x EXCEPT !.analysis = "listed"] ELSE x : x \in rows}
           \/ rows' = {IF x.run = n.id /\ x.analysis = "listed"
                         THEN [x EXCEPT !.analysis = "ok"] ELSE x : x \in rows}
           \/ rows' = rows
  BY DEF Work, ListRows, EndRun
<1>2. UNCHANGED <<blobs, req, purge, acked, nextId>>
  BY DEF Work, ListRows, EndRun
<1>3. \A id : Gone(id)' <=> Gone(id)
  <2> DEFINE new == [n EXCEPT !.state = state]
  <2>1. new.id = n.id
    BY DEF KInv, JInv, RunsWellFormed, Run
  <2>2. runs' = (runs \ {n}) \cup {new}
    BY <1>1
  <2> HIDE DEF new
  <2> QED  BY <2>1, <2>2 DEF Gone
<1>4. \A x \in rows : IsRow(x)
  BY DEF KInv, RowsOK
<1>5. \A x \in rows : Holds(rows', x.run, x)
  <2> SUFFICES ASSUME NEW x \in rows PROVE Holds(rows', x.run, x)
    OBVIOUS
  <2>1. x \in rows' \/ \E a \in {"listed", "ok"} : [x EXCEPT !.analysis = a] \in rows'
    BY <1>1
  <2>2. CASE \E a \in {"listed", "ok"} : [x EXCEPT !.analysis = a] \in rows'
    <3>1. PICK y \in rows' : \E a \in {"listed", "ok"} : y = [x EXCEPT !.analysis = a]
      BY <2>2
    <3>2. y.run = x.run /\ y.url = x.url /\ y.bytes = x.bytes
      BY <1>4, <3>1, AnalysisApart
    <3> QED  BY <3>2 DEF Holds
  <2> QED  BY <2>1, <2>2 DEF Holds
<1>6. ASSUME NEW y \in rows'
      PROVE  \E x \in rows : IsRow(y) /\ y.run = x.run /\ Objects(y.run, y) = Objects(x.run, x)
  <2>1. PICK x \in rows : y = x \/ \E a \in {"listed", "ok"} : y = [x EXCEPT !.analysis = a]
    BY <1>1
  <2>2. IsRow(y) /\ y.run = x.run /\ Objects(y.run, y) = Objects(x.run, x)
    BY <1>4, <2>1, AnalysisApart
  <2> QED  BY <2>2
<1>7. Grows /\ RowsOK' /\ PurgeOK'
  BY <1>2, <1>3, <1>5, <1>6, SameRunsGrow
<1>8. /\ req' = [r \in Requests |-> req'[r]]
      /\ \A r \in Requests : req'[r] = req[r]
  BY <1>2 DEF KInv
<1> QED  BY <1>2, <1>7, <1>8, StepKeeps

(* A deleted session takes its runs and their rows; what is stored for those
   runs goes later, and no row of a run that is there names it.              *)
LEMMA DeletionKeeps ==
  ASSUME KInv, JInv', \/ \E s \in sessions : DeleteSession(s)
                      \/ Sweep
  PROVE  KInv'
<1>0. /\ UNCHANGED <<req, acked, nextId>> /\ runs' \subseteq runs /\ rows' \subseteq rows
      /\ \A x \in rows : x \in rows' \/ Gone(x.run)'
  BY DEF DeleteSession, Sweep, Gone
<1>1. \A id : Gone(id) => Gone(id)'
  BY <1>0 DEF Gone
<1>2. \A b \in blobs : b \in blobs' \/ Gone(b.run)'
  BY <1>1 DEF DeleteSession, Sweep, KInv, PurgeOK
<1>3. Grows
  BY <1>0, <1>1, <1>2 DEF Grows, Holds, KInv, JInv, RunsWellFormed
<1>4. RowsOK'
  <2> SUFFICES ASSUME NEW x \in rows'
               PROVE  IsRow(x) /\ ~Gone(x.run)' /\ Objects(x.run, x) \subseteq blobs'
    BY DEF RowsOK
  <2>1. IsRow(x) /\ ~Gone(x.run) /\ Objects(x.run, x) \subseteq blobs
    BY <1>0 DEF KInv, RowsOK
  <2>2. ~Gone(x.run)'
    BY <2>1 DEF DeleteSession, Sweep, Gone
  <2>3. \A b \in Objects(x.run, x) : b.run = x.run
    BY ObjectsOfRun
  <2> QED  BY <1>2, <2>1, <2>2, <2>3
<1>5. PurgeOK'
  <2> SUFFICES ASSUME NEW id \in purge' PROVE id \in Nat /\ id < nextId' /\ Gone(id)'
    BY DEF PurgeOK
  <2>1. CASE id \in purge
    BY <1>0, <1>1, <2>1 DEF KInv, PurgeOK
  <2>2. CASE id \notin purge
    <3>1. PICK s \in sessions : DeleteSession(s)
      BY <2>2 DEF Sweep
    <3>2. PICK n \in RunsOf(s.id) : id = n.id
      BY <2>2, <3>1 DEF DeleteSession
    <3>3. n \in runs /\ n \notin runs'
      BY <3>1, <3>2 DEF DeleteSession, RunsOf
    <3>4. \A k \in runs : k.id = id => k = n
      BY <3>2, <3>3 DEF KInv, JInv, RunsWellFormed
    <3>5. Gone(id)'
      BY <1>0, <3>3, <3>4 DEF Gone
    <3> QED  BY <1>0, <3>2, <3>3, <3>5 DEF KInv, JInv, RunsWellFormed, Run
  <2> QED  BY <2>1, <2>2
<1>6. /\ req' = [r \in Requests |-> req'[r]]
      /\ \A r \in Requests : req'[r] = req[r]
  BY <1>0 DEF KInv
<1> QED  BY <1>0, <1>3, <1>4, <1>5, <1>6, StepKeeps

LEMMA InitKInv == Init => KInv
<1> SUFFICES ASSUME Init PROVE KInv
  OBVIOUS
<1>1. ASSUME NEW r \in Requests PROVE UploadOK(r)
  <2>1. req[r] = Idle
    BY DEF Init
  <2> QED  BY <2>1, IdleIsRequest DEF UploadOK, Storing, Uploading
<1> QED  BY <1>1, InitJInv DEF Init, KInv, RowsOK, PurgeOK

LEMMA NextKInv ==
  ASSUME KInv, [Next]_vars
  PROVE  KInv'
<1>0. JInv'
  BY NextJInv DEF KInv
<1>1. ASSUME NEW r \in Requests, Serve(r) \/ Crash(r) PROVE KInv'
  BY <1>0, <1>1, FindsKeep, NewRunKeeps, PutsKeep, InsertsKeep, CommitKeeps, ReplyKeeps, SealsKeep
     DEF Serve
<1>2. CASE UNCHANGED vars
  <2>1. UNCHANGED <<runs, rows, blobs, purge, req, acked, nextId>>
    BY <1>2 DEF vars
  <2>2. Grows /\ RowsOK' /\ PurgeOK'
    BY <2>1, QuietGrows
  <2> QED  BY <1>0, <2>1, <2>2, StepKeeps DEF KInv
<1> QED
  BY <1>0, <1>1, <1>2, WorksKeep, DeletionKeeps DEF Next

(* Whatever races, fails, is repeated or dies, what a reply called stored has a
   row and the row its objects, as long as the run is there: the extension
   forgets a file on that reply, so nothing else could bring it back
   (save_files, add_captured_versions, delete_session).                      *)
THEOREM StoredIsKept == Spec => []AckedKept
<1>1. ASSUME KInv PROVE AckedKept
  <2> SUFFICES ASSUME NEW a \in acked, ~Gone(a.run)
               PROVE  \E x \in RowsOf(a.run) :
                        x.url = a.url /\ x.bytes = a.bytes /\ Objects(x.run, x) \subseteq blobs
    BY DEF AckedKept
  <2>1. PICK x \in rows : x.run = a.run /\ x.url = a.url /\ x.bytes = a.bytes
    BY <1>1 DEF KInv, AckOK, Holds
  <2> QED  BY <1>1, <2>1 DEF KInv, RowsOK, RowsOf
<1> QED
  BY <1>1, InitKInv, NextKInv, PTL DEF Spec
==============================================================================
