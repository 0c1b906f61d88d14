------------------------------ MODULE SessionRuns ------------------------------
(***************************************************************************)
(* Sessions and the runs started in them: their declared scope             *)
(* (sessions/service.py, fetch/egress.py), the ways a run is started       *)
(* (api/runs_router.py, runs/coordinator.py), the crawler or the browser   *)
(* a run launches (discover/crawl.py, capture/stage.py), what it fetches   *)
(* and stores (fetch/fetch.py, storage.py), and the deletion that purges   *)
(* it all.  A host is the sequence of its labels.                          *)
(***************************************************************************)
EXTENDS Integers, Sequences, FiniteSets, SequencesExt

CONSTANTS
  Hosts,       \* the hosts there are
  PublicSuffixes,    \* those anyone can have a subdomain of
  Literals,    \* those that are addresses
  Inside,      \* those that may resolve to an address that is not public
  Scopes,      \* the scopes a user declares
  Targets,     \* the hosts a user asks to crawl
  Hints,       \* those an upload is said to come from, or none
  Edits,       \* those a re-run's target is changed to, or none
  Redirects,   \* the hosts an answer may lead on to: redirects, maps, chunks
  SessionIds,  \* 1 .. bound of sessions
  RunIds,      \* 1 .. bound of runs
  Clients, Workers,
  AllowLocal,  \* allow_local_egress
  MaxUpsets    \* bound: crashes and failed calls to the store, in all

ConstantsOK ==
  /\ PublicSuffixes \subseteq Hosts /\ Literals \subseteq Hosts /\ Inside \subseteq Hosts
  /\ Targets \subseteq Hosts /\ Redirects \subseteq Hosts
  /\ \A scope \in Scopes : scope \subseteq Hosts
  /\ AllowLocal \in BOOLEAN /\ MaxUpsets \in Nat

\* No target: host_of gives it the empty host.
Absent == << >>

VARIABLES
  scope,     \* scope_hosts of each session that was made
  live,      \* the sessions there are
  declared,  \* history: what the authorization of each session named
  row,       \* each run made: [session, target, upload]
  rows,      \* the runs there are
  blobs,     \* <<run, kind>> in the object store
  refs,      \* <<run, kind>> that a committed row points to
  client,    \* each request: what it read and where it stands
  worker,    \* each worker: [pc, run, at, found], at the <<host, address>> last
             \* connected to, the hosts of the scripts found and kept so far
  purge,     \* the deletion at work: [pc, session, runs]
  excused,   \* history: runs whose purge was interrupted, reported or raced
  left       \* what is left of the bound of upsets

srvars == <<scope, live, declared, row, rows, blobs, refs, client, worker, purge, excused, left>>

IdleClient == [pc |-> "idle", session |-> 0, target |-> Absent, upload |-> FALSE, run |-> 0]
IdleWorker == [pc |-> "idle", run |-> 0, at |-> << >>, found |-> {}]
NoPurge == [pc |-> "idle", session |-> 0, runs |-> {}]

Init ==
  /\ scope = << >> /\ live = {} /\ declared = << >>
  /\ row = << >> /\ rows = {} /\ blobs = {} /\ refs = {}
  /\ client = [c \in Clients |-> IdleClient]
  /\ worker = [w \in Workers |-> IdleWorker]
  /\ purge = NoPurge /\ excused = {}
  /\ left = MaxUpsets
-----------------------------------------------------------------------------
\* is_valid_scope_entry
ValidScopeEntry(host) ==
  /\ host # << >> /\ (Len(host) >= 2 \/ AllowLocal)
  /\ host \notin Literals \cup PublicSuffixes

\* host_in_scope: a host, or a subdomain of one, that was declared.
InScope(host, hosts) ==
  \E entry \in hosts : ValidScopeEntry(entry) /\ IsSuffix(entry, host)

\* _resolve_scope_hosts: a blank scope is the target's host, if that can be one.
ScopeIsValid(hosts) == \A entry \in hosts : ValidScopeEntry(entry)
ResolveScope(hosts, target) ==
  IF hosts = {} /\ ValidScopeEntry(target) THEN {target} ELSE hosts

\* create_session, with an authorization: an invalid entry is refused.
AddSession(hosts, target) ==
  LET resolved == ResolveScope(hosts, target)
  IN /\ Len(scope) + 1 \in SessionIds
     /\ ScopeIsValid(hosts)
     /\ scope' = Append(scope, resolved)
     /\ declared' = Append(declared, resolved)
     /\ live' = live \cup {Len(scope) + 1}

CreateSession(hosts, target) ==
  /\ AddSession(hosts, target)
  /\ UNCHANGED <<row, rows, blobs, refs, client, worker, purge, excused, left>>

\* seed_scope_hosts_if_empty: what the extension declared, once.
SeedScope(s, hosts) ==
  /\ s \in live /\ scope[s] = {}
  /\ {h \in hosts : ValidScopeEntry(h)} # {}
  /\ scope' = [scope EXCEPT ![s] = {h \in hosts : ValidScopeEntry(h)}]
  /\ declared' = [declared EXCEPT ![s] = scope'[s]]
  /\ UNCHANGED <<live, row, rows, blobs, refs, client, worker, purge, excused, left>>
-----------------------------------------------------------------------------
\* POST /runs: the target must be in the scope of the session.
AskCrawl(c, s, target) ==
  /\ client[c].pc = "idle" /\ s \in live
  /\ InScope(target, scope[s])
  /\ client' = [client EXCEPT ![c] =
       [pc |-> "create", session |-> s, target |-> target, upload |-> FALSE, run |-> 0]]
  /\ UNCHANGED <<scope, live, declared, row, rows, blobs, refs, worker, purge, excused, left>>

\* POST /runs/upload: a target is the base URL of what is found.
AskUpload(c, s, target) ==
  /\ client[c].pc = "idle" /\ s \in live
  /\ client' = [client EXCEPT ![c] =
       [pc |-> "create", session |-> s, target |-> target, upload |-> TRUE, run |-> 0]]
  /\ UNCHANGED <<scope, live, declared, row, rows, blobs, refs, worker, purge, excused, left>>

\* _resolve_rerun_session
MustFork(cfg, hosts) ==
  \/ hosts # scope[cfg.session]
  \/ ~cfg.upload /\ cfg.target # Absent /\ ~InScope(cfg.target, scope[cfg.session])

\* Mutant: the new scope is written into the session of the source run.
WidenInPlace(cfg, hosts) ==
  /\ scope' = [scope EXCEPT ![cfg.session] = ResolveScope(hosts, cfg.target)]
  /\ UNCHANGED <<live, declared>>

\* A changed scope, or a target that left it, takes a session and an
\* authorization of its own.
Fork(cfg, hosts) ==
  AddSession(IF hosts # scope[cfg.session] THEN hosts ELSE {}, cfg.target)

\* edit_and_rerun: what run r was, read in one transaction, with a target and
\* a scope that were edited or not; a run with neither input nor target is refused.
AskRerun(c, r, target, hosts) ==
  LET upload == <<r, "input">> \in refs
      cfg == [row[r] EXCEPT !.target = target, !.upload = upload]
  IN /\ client[c].pc = "idle" /\ r \in rows
     /\ upload \/ target # Absent
     /\ IF MustFork(cfg, hosts) THEN Fork(cfg, hosts) ELSE UNCHANGED <<scope, live, declared>>
     /\ client' = [client EXCEPT ![c] =
          [pc |-> IF upload THEN "copy" ELSE "create",
           session |-> IF Len(scope') > Len(scope) THEN Len(scope') ELSE row[r].session,
           target |-> target, upload |-> upload, run |-> r]]
     /\ UNCHANGED <<row, rows, blobs, refs, worker, purge, excused, left>>

\* get_blob: the bytes of the source run, unless they were purged meanwhile.
CopyInput(c) ==
  /\ client[c].pc = "copy"
  /\ client' = [client EXCEPT ![c] = IF <<client[c].run, "input">> \in blobs
       THEN [@ EXCEPT !.pc = "create", !.run = 0] ELSE IdleClient]
  /\ UNCHANGED <<scope, live, declared, row, rows, blobs, refs, worker, purge, excused, left>>

\* create_run: the session's row must still be there.
CreateRun(c) ==
  LET at == client[c] IN
  /\ at.pc = "create"
  /\ IF at.session \in live
       THEN /\ Len(row) + 1 \in RunIds
            /\ row' = Append(row, [session |-> at.session, target |-> at.target,
                                   upload |-> at.upload])
            /\ rows' = rows \cup {Len(row) + 1}
            /\ client' = [client EXCEPT ![c] =
                 [IdleClient EXCEPT !.run = Len(row) + 1,
                                    !.pc = IF at.upload THEN "put" ELSE "enqueue"]]
       ELSE client' = [client EXCEPT ![c] = IdleClient] /\ UNCHANGED <<row, rows>>
  /\ UNCHANGED <<scope, live, declared, blobs, refs, worker, purge, excused, left>>

\* put_blob, before any row points to it.
PutInput(c) ==
  /\ client[c].pc = "put"
  /\ blobs' = blobs \cup {<<client[c].run, "input">>}
  /\ client' = [client EXCEPT ![c].pc = "point"]
  /\ UNCHANGED <<scope, live, declared, row, rows, refs, worker, purge, excused, left>>

\* The update of input_ref, of no row if the run was deleted.
PointToInput(c) ==
  /\ client[c].pc = "point"
  /\ refs' = IF client[c].run \in rows THEN refs \cup {<<client[c].run, "input">>} ELSE refs
  /\ client' = [client EXCEPT ![c].pc = "enqueue"]
  /\ UNCHANGED <<scope, live, declared, row, rows, blobs, worker, purge, excused, left>>

\* enqueue_stage: a worker takes the job of a run that is still there.
Enqueue(c, w) ==
  /\ client[c].pc = "enqueue"
  /\ IF client[c].run \in rows
       THEN /\ worker[w].pc = "idle"
            /\ worker' = [worker EXCEPT ![w] =
                 [pc |-> IF row[client[c].run].upload THEN "analyze" ELSE "crawl",
                  run |-> client[c].run, at |-> << >>, found |-> {}]]
       ELSE UNCHANGED worker
  /\ client' = [client EXCEPT ![c] = IdleClient]
  /\ UNCHANGED <<scope, live, declared, row, rows, blobs, refs, purge, excused, left>>
-----------------------------------------------------------------------------
\* is_public_ip: of the kinds of address a name may resolve to.
Addresses == {"public", "private"}
AddressesOf(host) == IF host \in Inside THEN Addresses ELSE {"public"}
MayConnect(address) == address = "public" \/ AllowLocal

\* validate_target: a host in the scope of the run, at an address that may be.
Validates(r, host, address) ==
  r \in rows /\ InScope(host, scope[row[r].session]) /\ MayConnect(address)

\* _fetch_hops, of the run's single asset, of one its manifest lists or of what
\* an answer leads on to: every hop is judged, and pinned to an address that was.
Hop(w, host) ==
  /\ \/ worker[w].pc = "crawl" /\ host = row[worker[w].run].target
     \/ worker[w].pc = "fetch" /\ host \in worker[w].found
     \/ worker[w].pc = "redirected" /\ host \in Redirects
  /\ \E address \in AddressesOf(host) :
       worker' = [worker EXCEPT ![w] = IF Validates(worker[w].run, host, address)
         THEN [pc |-> "redirected", run |-> @.run, at |-> <<host, address>>, found |-> {}]
         ELSE IdleWorker]
  /\ UNCHANGED <<scope, live, declared, row, rows, blobs, refs, client, purge, excused, left>>

\* discover_run and capture_run: the seed is judged before katana or the browser
\* is launched at it.
Launch(w) ==
  LET r == worker[w].run IN
  /\ worker[w].pc = "crawl"
  /\ \E address \in AddressesOf(row[r].target) :
       worker' = [worker EXCEPT ![w] = IF Validates(r, row[r].target, address)
         THEN [@ EXCEPT !.pc = "surf"] ELSE IdleWorker]
  /\ UNCHANGED <<scope, live, declared, row, rows, blobs, refs, client, purge, excused, left>>

\* Either resolves hosts and loads what a page asks for itself, with no pin.
Surf(w, host) ==
  /\ worker[w].pc = "surf"
  /\ \E address \in AddressesOf(host) : worker' = [worker EXCEPT ![w].at = <<host, address>>]
  /\ UNCHANGED <<scope, live, declared, row, rows, blobs, refs, client, purge, excused, left>>

\* Where it was last: each URL it reports is judged by itself.
FoundAt(at) == IF at = << >> THEN {} ELSE {at[1]}

\* _revalidate and store_manifest: what katana reports is listed if it is in
\* scope and resolves to such an address now, unless the run was deleted.
ListAssets(w) ==
  LET r == worker[w].run
      Kept(address) == {host \in FoundAt(worker[w].at) :
                          address \in AddressesOf(host) /\ Validates(r, host, address)}
  IN /\ worker[w].pc = "surf"
     /\ blobs' = blobs \cup {<<r, "artifact">>}
     /\ \E address \in Addresses :
          worker' = [worker EXCEPT ![w] = IF Kept(address) = {} THEN IdleWorker
            ELSE [pc |-> "fetch", run |-> r, at |-> << >>, found |-> Kept(address)]]
     /\ UNCHANGED <<scope, live, declared, row, rows, refs, client, purge, excused, left>>

\* _in_scope and _asset_rows: the scripts the browser ran are stored, if their
\* host is in scope by its name or is the target's; their maps are fetched next.
Capture(w) ==
  LET r == worker[w].run
      kept == {host \in FoundAt(worker[w].at) :
                 host = row[r].target \/ InScope(host, scope[row[r].session])}
  IN /\ worker[w].pc = "surf"
     /\ blobs' = IF kept = {} THEN blobs ELSE blobs \cup {<<r, "artifact">>}
     /\ worker' = [worker EXCEPT ![w] =
          [pc |-> "redirected", run |-> r, at |-> << >>, found |-> kept]]
     /\ UNCHANGED <<scope, live, declared, row, rows, refs, client, purge, excused, left>>

\* The input of an upload is read; what is fetched or recovered is stored.
PutArtifact(w) ==
  LET r == worker[w].run IN
  /\ \/ worker[w].pc = "redirected"
     \/ worker[w].pc = "analyze" /\ <<r, "input">> \in blobs
  /\ blobs' = blobs \cup {<<r, "artifact">>}
  /\ worker' = [worker EXCEPT ![w] = [IdleWorker EXCEPT !.pc = "record", !.run = r]]
  /\ UNCHANGED <<scope, live, declared, row, rows, refs, client, purge, excused, left>>

\* The bytes are gone: the stage fails.
NoInput(w) ==
  /\ worker[w].pc = "analyze" /\ <<worker[w].run, "input">> \notin blobs
  /\ worker' = [worker EXCEPT ![w] = IdleWorker]
  /\ UNCHANGED <<scope, live, declared, row, rows, blobs, refs, client, purge, excused, left>>

RecordArtifact(w) ==
  LET r == worker[w].run IN
  /\ worker[w].pc = "record"
  /\ refs' = IF r \in rows THEN refs \cup {<<r, "artifact">>} ELSE refs
  /\ worker' = [worker EXCEPT ![w] = IdleWorker]
  /\ UNCHANGED <<scope, live, declared, row, rows, blobs, client, purge, excused, left>>
-----------------------------------------------------------------------------
RunsOf(s) == {r \in rows : row[r].session = s}
\* Runs that someone is still storing bytes for.
Writing(r) == \/ \E c \in Clients : client[c].run = r /\ client[c].pc = "put"
              \/ \E w \in Workers : worker[w].run = r /\ worker[w].pc # "record"
BlobsOf(runs) == {b \in blobs : b[1] \in runs}

\* Mutant: the bytes are swept while the rows still point to them.
CollectAndSweep(s) ==
  /\ purge.pc = "idle" /\ s \in live
  /\ purge' = [pc |-> "collected", session |-> s, runs |-> RunsOf(s)]
  /\ blobs' = blobs \ BlobsOf(RunsOf(s))
  /\ UNCHANGED <<scope, live, declared, row, rows, refs, client, worker, excused, left>>

\* delete_session: the runs are collected in the transaction that will delete them.
Collect(s) ==
  /\ purge.pc = "idle" /\ s \in live
  /\ purge' = [pc |-> "collected", session |-> s, runs |-> RunsOf(s)]
  /\ UNCHANGED <<scope, live, declared, row, rows, blobs, refs, client, worker, excused, left>>

\* Mutant: the runs are looked up when their rows are gone.
NoneCollected(runs) == {}

\* What the sweep will go through.
ToSweep(runs) == runs

\* The commit takes every run of the session with it, also one made since.
CommitDelete ==
  LET s == purge.session IN
  /\ purge.pc = "collected"
  /\ live' = live \ {s}
  /\ rows' = rows \ RunsOf(s)
  /\ refs' = {f \in refs : f[1] \notin RunsOf(s)}
  /\ purge' = [purge EXCEPT !.pc = "sweep", !.runs = ToSweep(@)]
  /\ excused' = excused \cup (RunsOf(s) \ purge.runs) \cup {r \in RunsOf(s) : Writing(r)}
  /\ UNCHANGED <<scope, declared, row, blobs, client, worker, left>>

\* delete_run_blobs: a failure leaves some, is reported, and the next run is swept.
Sweep(r) ==
  /\ purge.pc = "sweep" /\ r \in purge.runs
  /\ \/ blobs' = blobs \ BlobsOf({r}) /\ UNCHANGED <<excused, left>>
     \/ /\ left > 0 /\ left' = left - 1
        /\ \E kept \in SUBSET BlobsOf({r}) : blobs' = (blobs \ BlobsOf({r})) \cup kept
        /\ excused' = excused \cup {r}
  /\ purge' = [purge EXCEPT !.runs = @ \ {r}]
  /\ UNCHANGED <<scope, live, declared, row, rows, refs, client, worker>>

EndPurge ==
  /\ purge.pc = "sweep" /\ purge.runs = {}
  /\ purge' = NoPurge
  /\ UNCHANGED <<scope, live, declared, row, rows, blobs, refs, client, worker, excused, left>>

\* The API server dies: its requests and its deletion end where they stand.
Crash ==
  /\ left > 0 /\ left' = left - 1
  /\ client' = [c \in Clients |-> IdleClient]
  /\ purge' = NoPurge
  /\ excused' = IF purge.pc = "sweep" THEN excused \cup purge.runs ELSE excused
  /\ UNCHANGED <<scope, live, declared, row, rows, blobs, refs, worker>>
-----------------------------------------------------------------------------
Next ==
  \/ \E hosts \in Scopes, target \in Targets \cup Hints : CreateSession(hosts, target)
  \/ \E s \in live, hosts \in Scopes : SeedScope(s, hosts)
  \/ \E c \in Clients :
       \/ \E s \in live, target \in Targets : AskCrawl(c, s, target)
       \/ \E s \in live, target \in Hints : AskUpload(c, s, target)
       \/ \E r \in rows : \E target \in Edits \cup {row[r].target},
            hosts \in Scopes \cup {scope[row[r].session]} : AskRerun(c, r, target, hosts)
       \/ CopyInput(c) \/ CreateRun(c) \/ PutInput(c) \/ PointToInput(c)
       \/ \E w \in Workers : Enqueue(c, w)
  \/ \E w \in Workers :
       \/ \E host \in Hosts : Hop(w, host) \/ Surf(w, host)
       \/ Launch(w) \/ ListAssets(w) \/ Capture(w)
       \/ PutArtifact(w) \/ NoInput(w) \/ RecordArtifact(w)
  \/ \E s \in live : Collect(s)
  \/ CommitDelete
  \/ \E r \in purge.runs : Sweep(r)
  \/ EndPurge \/ Crash

Spec == Init /\ [][Next]_srvars
-----------------------------------------------------------------------------
\* A row that is committed points to bytes that are there (the order that
\* delete_session and start_run_with_input keep).
NoDangling == refs \subseteq blobs

\* When a deletion is over, bytes are left of its runs only where the sweep
\* failed or died, the run was made after the runs were collected, or someone
\* was still storing for it (delete_session).
PurgeComplete == \A b \in blobs :
  \/ b[1] \in rows \cup excused \cup purge.runs

\* Whatever is edited, re-run or redirected, the fetcher connects only to hosts
\* that the authorization of the run's session named, at addresses that are
\* public.  A crawler or a browser, which connects wherever a page takes it, is
\* out only for a target that was named, and a script it found is kept only of
\* a host that was (_resolve_rerun_session, validate_target, _revalidate,
\* _in_scope).
OnlyDeclared == \A w \in Workers :
  LET job == worker[w]
      named == declared[row[job.run].session]
  IN /\ job.at # << >> /\ job.pc # "surf" =>
          InScope(job.at[1], named) /\ MayConnect(job.at[2])
     /\ job.pc = "surf" => InScope(row[job.run].target, named)
     /\ \A host \in job.found : InScope(host, named)
=============================================================================
