---------------------------- MODULE CaptureIngest ----------------------------
(***************************************************************************)
(* The workspace side of the extension's uploads (api/capture_router.py,   *)
(* runs/captured_versions.py): an upload finds or makes its tenant, its    *)
(* session and the session's open run, stores its files and adds their     *)
(* rows; analyze/start seals the open run and gives it its one job.        *)
(*                                                                         *)
(* A step is one transaction, or one statement of the transaction that     *)
(* adds the rows, or one write to object storage.  A request whose reply   *)
(* is an error, or whose process dies, is sent again by the extension.     *)
(***************************************************************************)
EXTENDS Integers, FiniteSets, Sequences

CONSTANTS
  Saves,       \* uploads
  Starts,      \* requests to analyze what was captured
  Files,       \* what each upload carries: a sequence of [url, bytes, map]
  Oversized,   \* contents over the per-file cap
  Bind,        \* the project each upload names: none, known, or unknown here
  MaxVersions, \* capture_max_versions_per_url
  Budget       \* bound: crashes, storage failures and deleted sessions

Requests == Saves \cup Starts

ASSUME CaptureAssumption ==
  /\ Saves \cap Starts = {}
  /\ \A b \in Saves : \A i \in DOMAIN Files[b] :
       Files[b][i].map \in {"none", "held", "oversized"} /\ Files[b][i].bytes # "first"
  /\ Bind \in [Saves -> {"none", "known", "unknown"}]
  /\ MaxVersions \in Nat
  /\ Budget \subseteq [crashes : Nat, outages : Nat, deletes : Nat]

VARIABLES
  tenants,   \* tenants that have the capture tenant's name, by their ids
  sessions,  \* the sessions of this external id: [id, tenant, project]
  runs,      \* their runs: [id, session, open, jobs, sent, state]
  rows,      \* committed run_asset rows: [run, url, mark, bytes, map, analysis]
  blobs,     \* stored objects: [run, kind, bytes]
  req,       \* each request's progress
  acked,     \* what replies called stored: [run, url, bytes]
  nextId,    \* ids are never reused
  purge,     \* runs whose session is deleted and whose objects are not swept yet
  left,      \* what is left of the budget
  lost       \* history: a process died between a seal and its message

vars == <<tenants, sessions, runs, rows, blobs, req, acked, nextId, purge, left, lost>>

Idle == [pc |-> "idle", tenant |-> 0, session |-> 0, run |-> 0,
         held |-> {}, new |-> {}, refused |-> {}, known |-> {}]

Init ==
  /\ tenants = {} /\ sessions = {} /\ runs = {} /\ rows = {} /\ blobs = {}
  /\ req = [r \in Requests |-> Idle]
  /\ acked = {} /\ nextId = 1 /\ purge = {} /\ left \in Budget /\ lost = FALSE

Goto(r, pc) == req' = [req EXCEPT ![r].pc = pc]

\* A reply that is an error: the extension sends the request again.
Fail(r) == req' = [req EXCEPT ![r] = Idle]

Answer(r) == req' = [req EXCEPT ![r] = [Idle EXCEPT !.pc = "done"]]

Gone(id) == \A n \in runs : n.id # id
SessionOf(t) == {s \in sessions : s.tenant = t}
-----------------------------------------------------------------------------
\* Bound: before an upload has been answered, a request to analyze finds
\* nothing and changes nothing, and is left out.
Delivered == \E b \in Saves : req[b].pc = "done"

(* _resolve_ingest_tenant without a login: the one capture tenant.  The name
   is not unique; a miss is looked at again under an advisory lock, in the
   transaction that inserts.                                               *)
FindTenant(r) ==
  /\ req[r].pc = "idle"
  /\ r \in Starts => Delivered
  /\ \/ /\ tenants # {}
        /\ \E t \in tenants : req' = [req EXCEPT ![r] = [Idle EXCEPT !.pc = "session", !.tenant = t]]
     \/ /\ tenants = {}
        /\ Goto(r, "tenant")
  /\ UNCHANGED <<tenants, sessions, runs, rows, blobs, acked, nextId, purge, left, lost>>

CreateTenant(r) ==
  /\ req[r].pc = "tenant"
  /\ IF tenants = {}
       THEN /\ tenants' = {nextId} /\ nextId' = nextId + 1
            /\ req' = [req EXCEPT ![r].pc = "session", ![r].tenant = nextId]
       ELSE /\ \E t \in tenants : req' = [req EXCEPT ![r].pc = "session", ![r].tenant = t]
            /\ UNCHANGED <<tenants, nextId>>
  /\ UNCHANGED <<sessions, runs, rows, blobs, acked, purge, left, lost>>

(* _find_session_by_external_id.  An upload makes a session it does not
   find; a request to analyze is refused with a 404.                       *)
FindSession(r) ==
  /\ req[r].pc \in {"session", "sessionAgain"}
  /\ \/ \E s \in SessionOf(req[r].tenant) :
          req' = [req EXCEPT ![r].pc = IF r \in Saves THEN "run" ELSE "latest",
                             ![r].session = s.id]
     \/ /\ SessionOf(req[r].tenant) = {}
        /\ IF r \in Starts THEN Answer(r)
           ELSE IF req[r].pc = "session" THEN Goto(r, "newSession") ELSE Fail(r)
  /\ UNCHANGED <<tenants, sessions, runs, rows, blobs, acked, nextId, purge, left, lost>>

InsertSession(r, project) ==
  /\ IF SessionOf(req[r].tenant) = {}
       THEN /\ sessions' = sessions \cup
                 {[id |-> nextId, tenant |-> req[r].tenant, project |-> project]}
            /\ nextId' = nextId + 1
            /\ req' = [req EXCEPT ![r].pc = "run", ![r].session = nextId]
       ELSE /\ Goto(r, "sessionAgain")
            /\ UNCHANGED <<sessions, nextId>>
  /\ UNCHANGED <<tenants, runs, rows, blobs, acked, purge, left, lost>>

(* _create_capture_session: a project this tenant does not have is left out.
   A unique key on the external id turns the loser of a race to its winner. *)
CreateSession(r) ==
  /\ req[r].pc = "newSession"
  /\ InsertSession(r, IF Bind[r] = "unknown" THEN "none" ELSE Bind[r])

OpenRuns(r) == {n \in runs : n.open /\ \E s \in SessionOf(req[r].tenant) : s.id = n.session}

(* _accumulating_run_id: the session's open run, or a new one.  The loser of
   a race looks again, and fails if the winner's run has been sealed since. *)
FindRun(r) ==
  /\ req[r].pc \in {"run", "runAgain"}
  /\ \/ \E n \in OpenRuns(r) : req' = [req EXCEPT ![r].pc = "files", ![r].run = n.id]
     \/ /\ OpenRuns(r) = {}
        /\ IF req[r].pc = "run" THEN Goto(r, "newRun") ELSE Fail(r)
  /\ UNCHANGED <<tenants, sessions, runs, rows, blobs, acked, nextId, purge, left, lost>>

CreateRun(r) ==
  /\ req[r].pc = "newRun"
  /\ IF OpenRuns(r) = {} /\ \E s \in sessions : s.id = req[r].session
       THEN /\ runs' = runs \cup {[id |-> nextId, session |-> req[r].session, open |-> TRUE,
                                   jobs |-> 0, sent |-> FALSE, state |-> "queued"]}
            /\ nextId' = nextId + 1
            /\ req' = [req EXCEPT ![r].pc = "files", ![r].run = nextId]
       ELSE Goto(r, "runAgain") /\ UNCHANGED <<runs, nextId>>
  /\ UNCHANGED <<tenants, sessions, rows, blobs, acked, purge, left, lost>>
-----------------------------------------------------------------------------
Blob(run, kind, bytes) == [run |-> run, kind |-> kind, bytes |-> bytes]

\* The objects one file needs.
Objects(run, f) ==
  {Blob(run, "input", f.bytes)} \cup
  (IF f.map = "held" THEN {Blob(run, "source_map", f.bytes)} ELSE {})

(* The files of an upload that are stored, by their places in it: oversized
   ones and repeats of a url with the same bytes are left out.             *)
Repeats(b, i) ==
  \E k \in DOMAIN Files[b] : /\ k < i /\ Files[b][k].url = Files[b][i].url
                             /\ Files[b][k].bytes = Files[b][i].bytes

Stored == [b \in Saves |->
  {i \in DOMAIN Files[b] : Files[b][i].bytes \notin Oversized /\ ~Repeats(b, i)}]

(* The loop of save_files: the objects are written before any row names
   them, one after the other.  A failed write fails the whole upload, and
   leaves what was written before it.                                      *)
PutFiles(r) ==
  /\ req[r].pc = "files"
  /\ \/ /\ blobs' = blobs \cup UNION {Objects(req[r].run, Files[r][i]) : i \in Stored[r]}
        /\ req' = [req EXCEPT ![r].pc = "rows"]
        /\ UNCHANGED left
     \/ /\ left.outages > 0 /\ left' = [left EXCEPT !.outages = @ - 1]
        /\ \E n \in Stored[r] :
             blobs' = blobs \cup UNION {Objects(req[r].run, Files[r][i]) : i \in {k \in Stored[r] : k < n}}
        /\ Fail(r)
  /\ UNCHANGED <<tenants, sessions, runs, rows, acked, nextId, purge, lost>>

Row(run, f, mark) == [run |-> run, url |-> f.url, mark |-> mark, bytes |-> f.bytes,
                      map |-> f.map, analysis |-> "pending"]
Key(row) == <<row.run, row.url, row.mark>>
Keys(set) == {Key(x) : x \in set}

\* The first file of each url takes the url's own row.
FirstOf(r) ==
  {Files[r][i] : i \in {j \in Stored[r] :
                          \A k \in Stored[r] : k < j => Files[r][k].url # Files[r][j].url}}

(* The first INSERT of add_captured_versions, ON CONFLICT DO NOTHING.  It
   waits for a row another transaction has inserted and not committed.     *)
AddFirst(r) ==
  /\ req[r].pc = "rows" /\ Stored[r] # {}
  /\ LET want == {Row(req[r].run, f, "first") : f \in FirstOf(r)}
         free == {x \in want : Key(x) \notin Keys(rows)} IN
     /\ \A o \in Requests \ {r} : Keys(req[o].held) \cap Keys(free) = {}
     /\ IF free # {} /\ Gone(req[r].run) THEN Fail(r)
        ELSE req' = [req EXCEPT ![r].pc = "versions", ![r].held = free]
  /\ UNCHANGED <<tenants, sessions, runs, rows, blobs, acked, nextId, purge, left, lost>>

\* Mutant: the first capture of a url is the only one.
AdmitNone(visible, run, r) == [new |-> {}, refused |-> {}]

(* The reads and the loop of add_captured_versions: a file whose bytes are
   held is a retry.  The others become versions in their order, as far as
   the cap of their url goes; past it, or if the url's row has gone since,
   a file is turned away.                                                  *)
Admit(visible, run, r) ==
  LET File(i) == Files[r][i]
      First(i) == {x \in visible : Key(x) = <<run, File(i).url, "first">>}
      Version(i) == Row(run, File(i), File(i).bytes)
      fresh == {i \in Stored[r] : /\ \A x \in First(i) : x.bytes # File(i).bytes
                                  /\ Key(Version(i)) \notin Keys(visible)}
      Ahead(i) == {k \in fresh : k < i /\ File(k).url = File(i).url}
      Versions(i) == {x \in visible : x.run = run /\ x.url = File(i).url /\ x.mark # "first"}
      admitted == {i \in fresh : /\ First(i) # {}
                                 /\ Cardinality(Versions(i)) + Cardinality(Ahead(i)) < MaxVersions}
  IN [new |-> {Version(i) : i \in admitted}, refused |-> fresh \ admitted]

ReadVersions(r) ==
  /\ req[r].pc = "versions"
  /\ LET seen == Admit(rows \cup req[r].held, req[r].run, r) IN
     req' = [req EXCEPT ![r].pc = "commit", ![r].new = seen.new, ![r].refused = seen.refused]
  /\ UNCHANGED <<tenants, sessions, runs, rows, blobs, acked, nextId, purge, left, lost>>

(* The second INSERT, and the commit. *)
AddVersions(r) ==
  /\ req[r].pc = "commit"
  /\ LET add == req[r].held \cup {x \in req[r].new : Key(x) \notin Keys(rows)} IN
     IF add # {} /\ Gone(req[r].run) THEN Fail(r) /\ UNCHANGED rows
     ELSE /\ rows' = rows \cup add
          /\ req' = [req EXCEPT ![r].pc = "reply", ![r].held = {}]
  /\ UNCHANGED <<tenants, sessions, runs, blobs, acked, nextId, purge, left, lost>>

(* The reply of save_files: a file that was turned away is not called
   stored, and the extension does not send it again.                       *)
Reply(r) ==
  /\ \/ req[r].pc = "reply"
     \/ req[r].pc = "rows" /\ Stored[r] = {}
  /\ acked' = acked \cup
       {[run |-> req[r].run, url |-> Files[r][i].url, bytes |-> Files[r][i].bytes] :
          i \in Stored[r] \ req[r].refused}
  /\ req' = [req EXCEPT ![r] = [Idle EXCEPT !.pc = "done"]]
  /\ UNCHANGED <<tenants, sessions, runs, rows, blobs, nextId, purge, left, lost>>
-----------------------------------------------------------------------------
RunsOf(s) == {n \in runs : n.session = s}
Newest(set) == CHOOSE n \in set : \A k \in set : k.id <= n.id
RowsOf(run) == {x \in rows : x.run = run}

(* analyze_start up to the seal: the session's newest run, its rows, and
   whether it has a job already.                                           *)
LookAtLatest(r) ==
  /\ req[r].pc = "latest"
  /\ LET latest == Newest(RunsOf(req[r].session)) IN
     IF RunsOf(req[r].session) = {} \/ RowsOf(latest.id) = {} THEN Answer(r)
     ELSE IF latest.jobs > 0 THEN Answer(r)
     ELSE req' = [req EXCEPT ![r].pc = "seal", ![r].run = latest.id,
                             ![r].known = {x.url : x \in RowsOf(latest.id)}]
  /\ UNCHANGED <<tenants, sessions, runs, rows, blobs, acked, nextId, purge, left, lost>>

(* The manifest of the rows seen is stored outside the transaction. *)
StoreManifest(r) ==
  /\ req[r].pc = "seal" /\ req[r].known # {}
  /\ \/ /\ blobs' = blobs \cup {Blob(req[r].run, "assets", req[r].known)}
        /\ req' = [req EXCEPT ![r].known = {}]
        /\ UNCHANGED left
     \/ /\ left.outages > 0 /\ left' = [left EXCEPT !.outages = @ - 1]
        /\ Fail(r) /\ UNCHANGED blobs
  /\ UNCHANGED <<tenants, sessions, runs, rows, acked, nextId, purge, lost>>

\* Mutant: the seal asks only that the run is there.
SealAny(r) ==
  /\ req[r].pc = "seal" /\ req[r].known = {}
  /\ \A o \in Requests : req[o].run = req[r].run => req[o].held = {}
  /\ IF Gone(req[r].run)
       THEN Answer(r) /\ UNCHANGED runs
       ELSE /\ runs' = {IF n.id = req[r].run
                          THEN [n EXCEPT !.open = FALSE, !.jobs = @ + 1] ELSE n : n \in runs}
            /\ Goto(r, "publish")
  /\ UNCHANGED <<tenants, sessions, rows, blobs, acked, nextId, purge, left, lost>>

(* One transaction: the marker is cleared if it is still set, and the run
   gets its event and its job.  Clearing a column of a unique key waits for
   the transactions that have added rows to the run.                       *)
Seal(r) ==
  /\ req[r].pc = "seal" /\ req[r].known = {}
  /\ \A o \in Requests : req[o].run = req[r].run => req[o].held = {}
  /\ IF \E n \in runs : n.id = req[r].run /\ n.open
       THEN /\ runs' = {IF n.id = req[r].run
                          THEN [n EXCEPT !.open = FALSE, !.jobs = @ + 1] ELSE n : n \in runs}
            /\ Goto(r, "publish")
       ELSE Answer(r) /\ UNCHANGED runs
  /\ UNCHANGED <<tenants, sessions, rows, blobs, acked, nextId, purge, left, lost>>

(* publish_stage_job, after the commit. *)
Publish(r) ==
  /\ req[r].pc = "publish"
  /\ runs' = {IF n.id = req[r].run THEN [n EXCEPT !.sent = TRUE] ELSE n : n \in runs}
  /\ Answer(r)
  /\ UNCHANGED <<tenants, sessions, rows, blobs, acked, nextId, purge, left, lost>>
-----------------------------------------------------------------------------
(* The worker, as this module sees it: the analyze stage lists the run's
   rows once, and the run ends analyzed or failed.                         *)
ListRows(n) ==
  /\ n.sent /\ n.state = "queued"
  /\ runs' = (runs \ {n}) \cup {[n EXCEPT !.state = "analyzing"]}
  /\ rows' = {IF x.run = n.id THEN [x EXCEPT !.analysis = "listed"] ELSE x : x \in rows}
  /\ UNCHANGED <<tenants, sessions, blobs, req, acked, nextId, purge, left, lost>>

EndRun(n) ==
  /\ n.state = "analyzing"
  /\ \/ /\ runs' = (runs \ {n}) \cup {[n EXCEPT !.state = "done"]}
        /\ rows' = {IF x.run = n.id /\ x.analysis = "listed"
                      THEN [x EXCEPT !.analysis = "ok"] ELSE x : x \in rows}
     \/ /\ runs' = (runs \ {n}) \cup {[n EXCEPT !.state = "failed"]}
        /\ UNCHANGED rows
  /\ UNCHANGED <<tenants, sessions, blobs, req, acked, nextId, purge, left, lost>>

(* delete_session: the runs and rows go with the session in one transaction,
   which waits for those that have added rows; then the objects of the runs
   it collected are swept.                                                 *)
DeleteSession(s) ==
  /\ left.deletes > 0
  /\ \A o \in Requests : req[o].session = s.id => req[o].held = {}
  /\ left' = [left EXCEPT !.deletes = @ - 1]
  /\ sessions' = sessions \ {s}
  /\ runs' = runs \ RunsOf(s.id)
  /\ rows' = {x \in rows : \E n \in runs' : n.id = x.run}
  /\ purge' = purge \cup {n.id : n \in RunsOf(s.id)}
  /\ UNCHANGED <<tenants, blobs, req, acked, nextId, lost>>

Sweep ==
  /\ purge # {}
  /\ blobs' = {b \in blobs : b.run \notin purge}
  /\ purge' = {}
  /\ UNCHANGED <<tenants, sessions, runs, rows, req, acked, nextId, left, lost>>

(* The process of a request dies: its transaction is rolled back, and the
   extension sends the request again.                                      *)
Crash(r) ==
  /\ left.crashes > 0 /\ req[r].pc \notin {"idle", "done"}
  /\ left' = [left EXCEPT !.crashes = @ - 1]
  /\ lost' = (lost \/ req[r].pc = "publish")
  /\ Fail(r)
  /\ UNCHANGED <<tenants, sessions, runs, rows, blobs, acked, nextId, purge>>
-----------------------------------------------------------------------------
Serve(r) ==
  \/ FindTenant(r) \/ CreateTenant(r) \/ FindSession(r)
  \/ CreateSession(r) \/ FindRun(r) \/ CreateRun(r) \/ PutFiles(r)
  \/ AddFirst(r) \/ ReadVersions(r) \/ AddVersions(r) \/ Reply(r)
  \/ LookAtLatest(r) \/ StoreManifest(r) \/ Seal(r) \/ Publish(r)

Work == \E n \in runs : ListRows(n) \/ EndRun(n)

Next ==
  \/ \E r \in Requests : Serve(r) \/ Crash(r)
  \/ Work \/ Sweep
  \/ \E s \in sessions : DeleteSession(s)

Spec == Init /\ [][Next]_vars

(* Each request is served, the worker takes what is published, and the
   extension sends again what failed.                                      *)
Fairness == (\A r \in Requests : WF_vars(Serve(r))) /\ WF_vars(Work)

FairSpec == Spec /\ Fairness
-----------------------------------------------------------------------------
\* Mutant: what the run leaves pending stays queued.
AssetProgressPending(row, run) ==
  IF row.analysis = "ok" THEN "completed"
  ELSE IF run.state = "analyzing" THEN "analyzing" ELSE "queued"

\* analyze_progress, over the newest run that has a job.
AssetProgress(row, run) ==
  IF row.analysis = "ok" THEN "completed"
  ELSE IF run.state \in {"done", "failed"} THEN "failed"
  ELSE IF run.state = "analyzing" THEN "analyzing" ELSE "queued"

Analyzed == {n \in runs : n.jobs > 0}

InFlight == Analyzed # {} /\ \E x \in RowsOf(Newest(Analyzed).id) :
              AssetProgress(x, Newest(Analyzed)) \in {"queued", "analyzing"}
-----------------------------------------------------------------------------
(* Properties. *)

\* A run of the extension has its job if and only if its marker is cleared,
\* and then exactly one (the invariant analyze_start states at its seal).
JobIffSealed == \A n \in runs : n.jobs = IF n.open THEN 0 ELSE 1

\* What a reply called stored is there while its run is: some row of the run
\* has the url and these bytes, whatever the other uploads brought, and the
\* objects the row names are stored (save_files, add_captured_versions).
AckedKept == \A a \in acked : Gone(a.run) \/
  \E x \in RowsOf(a.run) : x.url = a.url /\ x.bytes = a.bytes /\ Objects(x.run, x) \subseteq blobs

\* The popup stops waiting: unless a death between the seal and the message
\* left the run without one, nothing stays in flight (analyze_progress).
PopupSettles == <>[](lost \/ ~InFlight)
=============================================================================
