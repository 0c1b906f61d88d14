---------------------------- MODULE DiscoverStage ----------------------------
(***************************************************************************)
(* The discover stage of a run (discover/crawl.py, harness.py, manifest.py *)
(* and capture/stage.py): an external crawler, or a browser session, finds *)
(* the run's assets; a manifest of them is stored, and one transaction     *)
(* seeds their rows and records the event that marks the stage as done.    *)
(*                                                                         *)
(* An execution may die at any point, and a second one may take over a job *)
(* whose lease lapsed.                                                     *)
(***************************************************************************)
EXTENDS RunAssets, Sequences

CONSTANTS
  InScopeUrls,   \* urls the egress guard, or the scope, lets through
  WithMap,       \* scripts that refer to an external source map
  MaxKept,       \* crawl_max_assets, for a crawl
  Kinds,         \* what the run is: "upload", "asset", "crawl" or "capture"
  Discoverers,   \* workers
  Accidents      \* bound: crashes, lapsed leases, pauses, browsers that fail

DiscoverConstantsOK ==
  /\ InScopeUrls \subseteq Url /\ WithMap \subseteq Url /\ MaxKept \in Nat
  /\ Kinds \subseteq {"upload", "asset", "crawl", "capture"}
  /\ Accidents \subseteq [crashes : Nat, lapses : Nat, pauses : Nat, failures : Nat]

VARIABLES
  kind,      \* of this run
  allowed,   \* the session is authorized, and its seed passes the egress guard
  assets,    \* the run_asset table
  scripts,   \* scripts whose bytes are in object storage
  manifests, \* manifests in object storage: [found, status]
  recorded,  \* discover.assets events, in order
  signals,   \* fingerprint.signal events, each with the blob it names
  finder,    \* each worker's execution of discover_run
  over,      \* how the stage ended: "no", "done" or "failed"
  accidents  \* what is left of the bound

dvars == <<kind, allowed, assets, scripts, manifests, recorded, signals, finder, over, accidents>>

Resting == [pc |-> "idle", found |-> {}, status |-> "none", mapped |-> {}, missed |-> {}]
Running(w) == finder[w].pc # "idle"

Init ==
  /\ kind \in Kinds /\ allowed \in BOOLEAN
  /\ assets = NoRows
  /\ scripts = {} /\ manifests = {} /\ recorded = <<>> /\ signals = {}
  /\ finder = [w \in Discoverers |-> Resting]
  /\ over = "no" /\ accidents \in Accidents

At(w, pc) == finder[w].pc = pc
Becomes(w, pc) == finder' = [finder EXCEPT ![w].pc = pc]
Rests(w) == finder' = [finder EXCEPT ![w] = Resting]
Accident(what) == accidents[what] > 0 /\ accidents' = [accidents EXCEPT ![what] = @ - 1]

stores == <<assets, scripts, manifests, recorded, signals>>
-----------------------------------------------------------------------------
\* A worker takes the job: a second one only when the lease lapsed.
Take(w) ==
  /\ over = "no" /\ ~Running(w)
  /\ IF \E o \in Discoverers : Running(o) THEN Accident("lapses") ELSE UNCHANGED accidents
  /\ Becomes(w, "look")
  /\ UNCHANGED <<kind, allowed, stores, over>>

\* The stage is left; the worker's transition is refused if it was before.
Ends(w, how) ==
  /\ Rests(w)
  /\ over' = IF over = "no" THEN how ELSE over

(* discover_run: a run that was discovered, an upload, and a single asset
   have nothing to do; then the kill switch, the authorization and the
   egress guard, for which no retry helps.                                 *)
Look(w) ==
  /\ At(w, "look")
  /\ IF recorded # <<>> \/ kind \in {"upload", "asset"} THEN Ends(w, "done")
     ELSE IF ~allowed THEN Ends(w, "failed")
     ELSE Becomes(w, "browse") /\ UNCHANGED over
  /\ UNCHANGED <<kind, allowed, stores, accidents>>

\* _revalidate and the cap.
Kept(urls) ==
  IF Cardinality(urls \cap InScopeUrls) <= MaxKept THEN {urls \cap InScopeUrls}
  ELSE {k \in SUBSET (urls \cap InScopeUrls) : Cardinality(k) = MaxKept}

\* run_crawl: the crawler ends by itself, or is killed when it is out of time.
Crawl(w) ==
  /\ At(w, "browse") /\ kind = "crawl"
  /\ \E urls \in SUBSET Url, timedOut \in BOOLEAN : \E k \in Kept(urls) :
       finder' = [finder EXCEPT
         ![w].pc = "manifest", ![w].found = k,
         ![w].status = CASE timedOut -> "timeout"
                         [] ~timedOut /\ k # urls \cap InScopeUrls -> "capped"
                         [] OTHER -> "ok"]
  /\ UNCHANGED <<kind, allowed, stores, over, accidents>>

\* capture_scripts and _in_scope; a hard navigation failure is "blocked".
Browse(w) ==
  /\ At(w, "browse") /\ kind = "capture"
  /\ \E urls \in SUBSET Url, status \in {"ok", "blocked"} :
       finder' = [finder EXCEPT
         ![w].pc = "bytes", ![w].found = urls \cap InScopeUrls, ![w].status = status]
  /\ UNCHANGED <<kind, allowed, stores, over, accidents>>

\* A browser that cannot be launched or reached is retried.
BrowserFails(w) ==
  /\ At(w, "browse") /\ kind = "capture" /\ Accident("failures")
  /\ Rests(w)
  /\ UNCHANGED <<kind, allowed, stores, over>>

BytesStored(found) == scripts \cup found

\* _asset_rows: one blob for each script, under a url of its own.
StoreScripts(w) ==
  /\ At(w, "bytes")
  /\ scripts' = BytesStored(finder[w].found)
  /\ Becomes(w, "maps")
  /\ UNCHANGED <<kind, allowed, assets, manifests, recorded, signals, over, accidents>>

\* _augment_with_source_maps: each external map is stored, or missed.
FetchMaps(w) ==
  /\ At(w, "maps")
  /\ \E got \in SUBSET (finder[w].found \cap WithMap) :
       finder' = [finder EXCEPT
         ![w].pc = "manifest", ![w].mapped = got,
         ![w].missed = (finder[w].found \cap WithMap) \ got]
  /\ UNCHANGED <<kind, allowed, stores, over, accidents>>

Manifest(x) == [found |-> x.found, status |-> x.status]

\* store_manifest.
StoreManifest(w) ==
  /\ At(w, "manifest")
  /\ manifests' = manifests \cup {Manifest(finder[w])}
  /\ Becomes(w, "commit")
  /\ UNCHANGED <<kind, allowed, assets, scripts, recorded, signals, over, accidents>>

\* Mutant: the rows are left to a later transaction.
SeededNot(x) == assets

Seeded(x) ==
  IF kind = "crawl" THEN SeedPending(assets, x.found)
  ELSE SeedCaptured(assets, x.found, x.mapped, x.missed)

\* seed_pending or seed_captured, and record: one transaction.
Commit(w) ==
  /\ At(w, "commit")
  /\ assets' = Seeded(finder[w])
  /\ recorded' = Append(recorded, Manifest(finder[w]))
  /\ Becomes(w, IF kind = "capture" THEN "signal" ELSE "end")
  /\ UNCHANGED <<kind, allowed, scripts, manifests, signals, over, accidents>>

\* The fingerprint signal, after the stage's own commit.
RecordSignal(w) ==
  /\ At(w, "signal")
  /\ signals' = signals \cup {finder[w].found}
  /\ Becomes(w, "end")
  /\ UNCHANGED <<kind, allowed, assets, scripts, manifests, recorded, over, accidents>>

End(w) ==
  /\ At(w, "end") /\ Ends(w, "done")
  /\ UNCHANGED <<kind, allowed, stores, accidents>>

\* A pause is taken where a capture beats, and not in a crawl.
Pause(w) ==
  /\ kind = "capture" /\ finder[w].pc \in {"browse", "bytes", "maps"} /\ Accident("pauses")
  /\ Rests(w)
  /\ UNCHANGED <<kind, allowed, stores, over>>

Crash(w) ==
  /\ Running(w) /\ Accident("crashes")
  /\ Rests(w)
  /\ UNCHANGED <<kind, allowed, stores, over>>
-----------------------------------------------------------------------------
Discover(w) ==
  \/ Look(w) \/ Crawl(w) \/ Browse(w) \/ StoreScripts(w) \/ FetchMaps(w)
  \/ StoreManifest(w) \/ Commit(w) \/ RecordSignal(w) \/ End(w)

Next == \E w \in Discoverers :
  Take(w) \/ Discover(w) \/ BrowserFails(w) \/ Pause(w) \/ Crash(w)

Spec == Init /\ [][Next]_dvars
-----------------------------------------------------------------------------
\* A stage that counts as done left everything a later one reads: each asset
\* of the last recorded manifest has its row, that of a capture is fetched
\* and has its bytes, and the manifest itself is stored; a run that was to be
\* crawled or captured is never left without it (the short-circuit of
\* discover_run, the atomic manifest of capture_run).
DiscoveredMeansSeeded ==
  /\ over = "done" /\ kind \in {"crawl", "capture"} => recorded # <<>>
  /\ recorded # <<>> => LET last == recorded[Len(recorded)] IN
       /\ last \in manifests
       /\ last.found \subseteq Present(assets)
       /\ kind = "capture" =>
            last.found \subseteq {u \in scripts : assets[u].fetch = "ok"}
=============================================================================
