----------------------------- MODULE FetchStage -----------------------------
(***************************************************************************)
(* The fetch stage of a crawl run (fetch/fetch.py): the loop over the      *)
(* assets that have no bytes yet, the retry of one asset, its source map,  *)
(* and the lazily loaded chunks found in its code.                         *)
(*                                                                         *)
(* A step is what happens up to one commit, one stored blob or one answer  *)
(* from the target.  An execution may be interrupted where the code looks  *)
(* at the control flags, may die at any point, and may be joined by a      *)
(* second one that took the job over from a lease that lapsed.             *)
(***************************************************************************)
EXTENDS RunAssets

CONSTANTS
  Assets,        \* the urls discover seeded
  Chunks,        \* urls that appear only in fetched code
  Imports,       \* the chunks the code of a url names
  Webpack,       \* urls whose code is a webpack runtime: its chunk map is flat
  HasMap,        \* urls whose code references an external source map
  InScope,       \* urls the egress guard lets through
  Workers,
  Modes,         \* "crawl": a run with asset rows; "single": one target, no rows
  MaxAssets,     \* crawl_max_assets
  RetryAttempts, \* fetch_asset_retry_attempts
  Budget         \* bound: crashes, lapsed leases and pauses

ASSUME FetchAssumption ==
  /\ Url = Assets \cup Chunks /\ IsFiniteSet(Url)
  /\ Imports \in [Url -> SUBSET Chunks]
  /\ MaxAssets \in Nat /\ RetryAttempts \in Nat
  /\ Cardinality(Assets) <= MaxAssets
  /\ Modes \subseteq {"crawl", "single"}
  /\ Budget \subseteq [crashes : Nat, lapses : Nat, pauses : Nat]

VARIABLES
  rows,     \* the run_asset table
  blobs,    \* urls whose bytes are in object storage
  target,   \* the target of a run without rows: none, wanted or stored
  maps,     \* urls whose source map is in object storage
  stage,    \* the fetch job as the run sees it
  control,  \* a pause has been requested and not yet taken
  slot,     \* the host's politeness key: free, or taken until it expires
  ex,       \* each worker's execution of fetch_run
  left      \* what is left of the budget

vars == <<rows, target, blobs, maps, stage, control, slot, ex, left>>

Idle == [pc |-> "idle", todo |-> {}, cur |-> "none", try |-> 0, map |-> "none",
         buf |-> {}, queue |-> {}, known |-> {}, tries |-> 0, room |-> 0,
         then |-> "next"]

Running(w) == ex[w].pc # "idle"

Init ==
  /\ \E mode \in Modes :
       IF mode = "crawl" THEN rows = SeedPending(NoRows, Assets) /\ target = "none"
                         ELSE rows = NoRows /\ target = "wanted"
  /\ blobs = {} /\ maps = {}
  /\ stage = "running" /\ control = FALSE /\ slot = "free"
  /\ ex = [w \in Workers |-> Idle]
  /\ left \in Budget
-----------------------------------------------------------------------------
Goto(w, pc) == ex' = [ex EXCEPT ![w].pc = pc]

(* The job is claimed: the rows are read once, and the loop goes over that
   snapshot.  A second execution starts beside a live one only when the
   lease of the first has lapsed.                                          *)
Start(w) ==
  /\ stage = "running" /\ ~Running(w)
  /\ \/ /\ \A v \in Workers : ~Running(v)
        /\ UNCHANGED left
     \/ /\ \E v \in Workers : Running(v)
        /\ left.lapses > 0
        /\ left' = [left EXCEPT !.lapses = @ - 1]
  /\ ex' = [ex EXCEPT ![w] = [Idle EXCEPT
              !.pc = IF target = "wanted" THEN "single" ELSE "next",
              !.todo = {u \in Present(rows) : ~FetchSettled(rows[u])}]]
  /\ UNCHANGED <<rows, target, blobs, maps, stage, control, slot>>

(* ControlInterrupt: the execution ends and the run is paused. *)
EndInterrupted(w) ==
  /\ ex' = [ex EXCEPT ![w] = Idle]
  /\ stage' = IF stage = "running" THEN "paused" ELSE stage

Interrupted(w) == control /\ EndInterrupted(w)

(* raise_if_control_requested at the top of the loop. *)
NextAsset(w) ==
  /\ ex[w].pc = "next" /\ ex[w].todo # {}
  /\ \/ Interrupted(w)
     \/ /\ ~control
        /\ \E u \in ex[w].todo :
             ex' = [ex EXCEPT ![w] = [Idle EXCEPT !.pc = "asset", !.cur = u,
                                        !.try = 1, !.todo = ex[w].todo \ {u}]]
        /\ UNCHANGED stage
  /\ UNCHANGED <<rows, target, blobs, maps, control, slot, left>>

(* politeness.check: only the caller that takes the key sends its request. *)
TakeSlot == slot = "free" /\ slot' = "taken"

\* Mutant: the attempts are not counted.
FetchAssetForever(w) ==
  /\ ex[w].pc = "asset" /\ TakeSlot
  /\ \/ Goto(w, "store")
     \/ Goto(w, "asset")
  /\ UNCHANGED <<rows, target, blobs, maps, stage, control, left>>

(* One attempt at the asset.  A 429 or 5xx is tried again, after a look at
   the flags; any other failure, and the last attempt's, fails the asset.
   The flags are also read while the body arrives.                         *)
FetchAsset(w) ==
  /\ ex[w].pc = "asset" /\ TakeSlot
  /\ \/ /\ ex[w].cur \in InScope
        /\ Goto(w, "store")
        /\ UNCHANGED stage
     \/ /\ ex[w].cur \in InScope /\ ex[w].try <= RetryAttempts
        /\ ~control
        /\ ex' = [ex EXCEPT ![w].try = @ + 1]
        /\ UNCHANGED stage
     \/ ex[w].cur \in InScope /\ Interrupted(w)
     \/ /\ Goto(w, "fail")
        /\ UNCHANGED stage
  /\ UNCHANGED <<rows, target, blobs, maps, control, left>>

\* Mutant: the failure is logged and not recorded.
LogFailed(w) ==
  /\ ex[w].pc = "fail"
  /\ Goto(w, "next")
  /\ UNCHANGED <<rows, target, blobs, maps, stage, control, slot, left>>

MarkFailed(w) ==
  /\ ex[w].pc = "fail"
  /\ rows' = SetFetchFailed(rows, ex[w].cur)
  /\ Goto(w, "next")
  /\ UNCHANGED <<target, blobs, maps, stage, control, slot, left>>

(* put_blob, under a key made from the content: storing twice is storing once. *)
StoreAsset(w) ==
  /\ ex[w].pc = "store"
  /\ blobs' = blobs \cup {ex[w].cur}
  /\ Goto(w, IF ex[w].cur \in HasMap THEN "map" ELSE "commit")
  /\ UNCHANGED <<rows, target, maps, stage, control, slot, left>>

(* _fetch_and_store_source_map: any failure is a soft miss, an interrupt is not. *)
FetchMap(w) ==
  /\ ex[w].pc = "map" /\ TakeSlot
  /\ \/ /\ maps' = maps \cup {ex[w].cur}
        /\ ex' = [ex EXCEPT ![w].map = "ref", ![w].pc = "commit"]
        /\ UNCHANGED stage
     \/ /\ ex' = [ex EXCEPT ![w].map = "skipped", ![w].pc = "commit"]
        /\ UNCHANGED <<maps, stage>>
     \/ Interrupted(w) /\ UNCHANGED maps
  /\ UNCHANGED <<rows, target, blobs, control, left>>

\* Mutant: a missed map is recorded like a stored one.
CommitAnyMap(w) ==
  /\ ex[w].pc = "commit"
  /\ rows' = IF ex[w].map = "none" THEN SetFetchOk(rows, ex[w].cur)
             ELSE SetSourceMapRef(SetFetchOk(rows, ex[w].cur), ex[w].cur)
  /\ Goto(w, IF Imports[ex[w].cur] = {} THEN "next" ELSE "enumerate")
  /\ UNCHANGED <<target, blobs, maps, stage, control, slot, left>>

(* The asset's own transaction: its status and its map together. *)
CommitAsset(w) ==
  LET u == ex[w].cur
      ok == SetFetchOk(rows, u) IN
  /\ ex[w].pc = "commit"
  /\ rows' = CASE ex[w].map = "ref"     -> SetSourceMapRef(ok, u)
               [] ex[w].map = "skipped" -> SetSourceMapSkipped(ok, u)
               [] OTHER                 -> ok
  /\ Goto(w, IF Imports[u] = {} THEN "next" ELSE "enumerate")
  /\ UNCHANGED <<target, blobs, maps, stage, control, slot, left>>

(* The enumeration reads which urls the run has, and how many more it may. *)
Enumerate(w) ==
  /\ ex[w].pc = "enumerate"
  /\ ex' = [ex EXCEPT ![w].known = Present(rows),
                      ![w].room = IF Cardinality(Present(rows)) < MaxAssets
                                  THEN MaxAssets - Cardinality(Present(rows)) ELSE 0,
                      ![w].queue = Imports[ex[w].cur],
                      ![w].pc = IF Cardinality(Present(rows)) < MaxAssets
                                THEN "chunks" ELSE "next"]
  /\ UNCHANGED <<rows, target, blobs, maps, stage, control, slot, left>>

Untried(w) == ex[w].queue \ ex[w].known

MayFetchChunk(w) ==
  /\ Untried(w) # {}
  /\ Cardinality(ex[w].buf) < ex[w].room
  /\ ex[w].cur \in Webpack \/ ex[w].tries < MaxAssets

(* One more chunk, each url once; the bytes of a native-ESM chunk are searched
   in turn.  A chunk that cannot be had is dropped.                        *)
FetchChunk(w) ==
  /\ ex[w].pc = "chunks" /\ MayFetchChunk(w) /\ ~control
  /\ TakeSlot
  /\ \E c \in Untried(w) :
       \/ /\ c \in InScope
          /\ blobs' = blobs \cup {c}
          /\ ex' = [ex EXCEPT ![w].known = @ \cup {c}, ![w].tries = @ + 1,
                              ![w].buf = @ \cup {c},
                              ![w].queue = IF ex[w].cur \in Webpack THEN @
                                           ELSE @ \cup Imports[c]]
       \/ /\ ex' = [ex EXCEPT ![w].known = @ \cup {c}, ![w].tries = @ + 1]
          /\ UNCHANGED blobs
  /\ UNCHANGED <<rows, target, maps, stage, control, left>>

(* The loop ends, or an interrupt ends it: the finally seeds on either way out. *)
LeaveChunks(w) ==
  /\ ex[w].pc = "chunks"
  /\ \/ /\ ~MayFetchChunk(w)
        /\ ex' = [ex EXCEPT ![w].pc = "seed", ![w].then = "next"]
     \/ /\ control
        /\ ex' = [ex EXCEPT ![w].pc = "seed", ![w].then = "interrupted"]
  /\ UNCHANGED <<rows, target, blobs, maps, stage, control, slot, left>>

SeedChunks(w) ==
  /\ ex[w].pc = "seed"
  /\ rows' = SeedCaptured(rows, ex[w].buf, {}, {})
  /\ IF ex[w].then = "interrupted"
     THEN EndInterrupted(w)
     ELSE Goto(w, "next") /\ UNCHANGED stage
  /\ UNCHANGED <<target, blobs, maps, control, slot, left>>

(* A run without rows: a throttled or failed fetch raises, which the worker
   takes for a failed attempt, or for a failed stage when it is fatal.     *)
FetchSingle(w) ==
  /\ ex[w].pc = "single" /\ target = "wanted"
  /\ \/ /\ TakeSlot
        /\ Goto(w, "storeSingle")
        /\ UNCHANGED stage
     \/ /\ TakeSlot
        /\ Interrupted(w)
     \/ /\ ex' = [ex EXCEPT ![w] = Idle]
        /\ stage' \in IF stage = "running" THEN {"running", "failed"} ELSE {stage}
        /\ UNCHANGED slot
  /\ UNCHANGED <<rows, target, blobs, maps, control, left>>

StoreSingle(w) ==
  /\ ex[w].pc = "storeSingle"
  /\ target' = "stored"
  /\ Goto(w, "next")
  /\ UNCHANGED <<rows, blobs, maps, stage, control, slot, left>>

(* Nothing is left of the snapshot: the stage's work is done. *)
Finish(w) ==
  /\ ex[w].pc = "next" /\ ex[w].todo = {}
  /\ ex' = [ex EXCEPT ![w] = Idle]
  /\ stage' = IF stage = "running" THEN "done" ELSE stage
  /\ UNCHANGED <<rows, target, blobs, maps, control, slot, left>>
-----------------------------------------------------------------------------
(* The environment. *)
SlotExpires ==
  /\ slot = "taken" /\ slot' = "free"
  /\ UNCHANGED <<rows, target, blobs, maps, stage, control, ex, left>>

Pause ==
  /\ stage = "running" /\ ~control /\ left.pauses > 0
  /\ control' = TRUE
  /\ left' = [left EXCEPT !.pauses = @ - 1]
  /\ UNCHANGED <<rows, target, blobs, maps, stage, slot, ex>>

Resume ==
  /\ stage = "paused"
  /\ stage' = "running" /\ control' = FALSE
  /\ UNCHANGED <<rows, target, blobs, maps, slot, ex, left>>

Crash(w) ==
  /\ Running(w) /\ left.crashes > 0
  /\ ex' = [ex EXCEPT ![w] = Idle]
  /\ left' = [left EXCEPT !.crashes = @ - 1]
  /\ UNCHANGED <<rows, target, blobs, maps, stage, control, slot>>

Execute(w) ==
  \/ NextAsset(w) \/ FetchAsset(w) \/ MarkFailed(w) \/ StoreAsset(w)
  \/ FetchMap(w) \/ CommitAsset(w) \/ Enumerate(w) \/ FetchChunk(w)
  \/ LeaveChunks(w) \/ SeedChunks(w) \/ FetchSingle(w) \/ StoreSingle(w)
  \/ Finish(w)

Next ==
  \/ \E w \in Workers : Start(w) \/ Execute(w) \/ Crash(w)
  \/ SlotExpires \/ Pause \/ Resume

Spec == Init /\ [][Next]_vars

(* Workers take steps, the job of a dead worker is claimed again, a taken key
   expires and is won by each waiting worker in the end; somebody resumes.
   Nobody has to pause, and nothing has to die.                            *)
Fairness ==
  /\ \A w \in Workers : WF_vars(Start(w)) /\ SF_vars(Execute(w))
  /\ WF_vars(SlotExpires) /\ WF_vars(Resume)

FairSpec == Spec /\ Fairness
-----------------------------------------------------------------------------
(* A row never points at bytes that were not stored: the blob goes in before
   the row says so, whatever dies in between (_fetch_assets).              *)
BytesBehindRows ==
  \A u \in Present(rows) :
    /\ rows[u].fetch = "ok" => u \in blobs
    /\ rows[u].map => u \in maps

(* The stage is done only when each row it was to fetch has its verdict: the
   coordinator judges completeness by them.                                *)
DoneMeansSettled ==
  stage = "done" =>
    target # "wanted" /\ \A u \in Present(rows) : FetchSettled(rows[u])

(* The stage of a crawl ends: bounded retries, bounded chunk graphs, a
   politeness key that expires, and whatever the interrupts.               *)
FetchEnds == Present(rows) # {} ~> stage = "done"
=============================================================================
