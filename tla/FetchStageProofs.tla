--------------------------- MODULE FetchStageProofs ---------------------------
(***************************************************************************)
(* Theorems about FetchStage, for every set of assets and of workers,      *)
(* every graph of chunks, and every number of crashes, lapsed leases and   *)
(* pauses.                                                                 *)
(***************************************************************************)
EXTENDS FetchStage, FiniteSetTheorems, TLAPS

Pc == {"idle", "next", "asset", "fail", "store", "map", "commit", "enumerate",
       "chunks", "seed", "single", "storeSingle"}

Execution == [pc : Pc, todo : SUBSET Url, cur : Url \cup {"none"}, try : Nat,
              map : {"none", "ref", "skipped"}, buf : SUBSET Url,
              queue : SUBSET Url, known : SUBSET Url, tries : Nat, room : Nat,
              then : {"next", "interrupted"}]

Row == [fetch : Status \cup {"absent"}, analyze : Status, input : BOOLEAN,
        map : BOOLEAN, skipped : BOOLEAN]

\* The program points between taking an asset and settling its row.
OnAsset == {"asset", "fail", "store", "map", "commit"}

FetchTypeOK ==
  /\ rows \in [Url -> Row]
  /\ blobs \subseteq Url /\ maps \subseteq Url
  /\ target \in {"none", "wanted", "stored"}
  /\ ex \in [Workers -> Execution]

(* What an execution carries from one commit to the next: the bytes it is
   about to name are stored, and so is the map.                            *)
StoredFirst ==
  \A w \in Workers :
    /\ ex[w].pc \in {"map", "commit"} => ex[w].cur \in blobs
    /\ ex[w].pc = "commit" /\ ex[w].map = "ref" => ex[w].cur \in maps
    /\ ex[w].buf \subseteq blobs

(* An asset in hand is a url, and its map is not there before its own step. *)
OnUrl ==
  \A w \in Workers :
    /\ ex[w].pc \in OnAsset \cup {"enumerate", "chunks"} => ex[w].cur \in Url
    /\ ex[w].pc \in OnAsset /\ ex[w].map = "ref" => ex[w].pc = "commit"

(* What is not settled is still ahead of every execution: in its snapshot, or
   in its hands.                                                            *)
Ahead(w, u) == u \in ex[w].todo \/ (u = ex[w].cur /\ ex[w].pc \in OnAsset)

NoneSkipped ==
  \A w \in Workers :
    ex[w].pc \notin {"idle", "single", "storeSingle"} =>
      /\ target # "wanted"
      /\ \A u \in Present(rows) : FetchSettled(rows[u]) \/ Ahead(w, u)

FInv == /\ FetchTypeOK /\ OnUrl /\ StoredFirst /\ NoneSkipped
        /\ BytesBehindRows /\ DoneMeansSettled
-----------------------------------------------------------------------------
(* What a step may do: stored bytes stay, a row that is settled stays so, a new
   row is settled, and the target is not asked for again.                   *)
StoresGrow == blobs \subseteq blobs' /\ maps \subseteq maps'

RowsSettle ==
  /\ target' # target => target' # "wanted"
  /\ \A u \in Url : rows'[u] # Absent =>
       \/ rows[u] # Absent /\ (FetchSettled(rows[u]) => FetchSettled(rows'[u]))
       \/ FetchSettled(rows'[u])

RowsBacked ==
  \A u \in Url : rows'[u] # Absent =>
    /\ rows'[u].fetch = "ok" => (rows[u] # Absent /\ rows[u].fetch = "ok") \/ u \in blobs'
    /\ rows'[u].map => (rows[u] # Absent /\ rows[u].map) \/ u \in maps'

(* Of an execution: it goes on with what it has, or it does not run. *)
GoesOn(w) ==
  /\ ex'[w].pc \in OnAsset \cup {"enumerate", "chunks"} => ex'[w].cur \in Url
  /\ ex'[w].pc \in OnAsset /\ ex'[w].map = "ref" => ex'[w].pc = "commit"
  /\ ex'[w].pc \in {"map", "commit"} => ex'[w].cur \in blobs'
  /\ ex'[w].pc = "commit" /\ ex'[w].map = "ref" => ex'[w].cur \in maps'
  /\ ex'[w].buf \subseteq blobs'
  /\ ex'[w].pc \notin {"idle", "single", "storeSingle"} =>
       /\ target' # "wanted"
       /\ \A u \in Url : rows'[u] # Absent =>
            \/ FetchSettled(rows'[u])
            \/ u \in ex'[w].todo
            \/ u = ex'[w].cur /\ ex'[w].pc \in OnAsset

LEMMA SettlingKeeps ==
  ASSUME FInv, FetchTypeOK', StoresGrow, RowsSettle, RowsBacked, NEW w \in Workers, GoesOn(w),
         \A v \in Workers : v # w => ex'[v] = ex[v],
         stage' = "done" => \/ stage = "done"
                            \/ ex[w].pc = "next" /\ ex[w].todo = {} /\ rows' = rows
                                 /\ target' = target
  PROVE  FInv'
<1> USE DEF FInv
<1>1. StoredFirst'
  BY DEF StoredFirst, StoresGrow, GoesOn
<1>2. NoneSkipped'
  <2>1. ASSUME NEW v \in Workers, ex'[v].pc \notin {"idle", "single", "storeSingle"}
        PROVE  /\ target' # "wanted"
               /\ \A u \in Url : rows'[u] # Absent =>
                    \/ FetchSettled(rows'[u])
                    \/ u \in ex'[v].todo
                    \/ u = ex'[v].cur /\ ex'[v].pc \in OnAsset
    <3>1. CASE v = w
      BY <2>1, <3>1 DEF GoesOn
    <3>2. CASE v # w
      BY <2>1, <3>2 DEF NoneSkipped, RowsSettle, Present, Ahead
    <3> QED
      BY <3>1, <3>2
  <2> QED
    BY <2>1 DEF NoneSkipped, Present, Ahead
<1>3. BytesBehindRows'
  BY DEF BytesBehindRows, Present, RowsBacked, StoresGrow
<1>4. DoneMeansSettled'
  <2>1. CASE stage = "done"
    BY <2>1 DEF DoneMeansSettled, RowsSettle, Present
  <2>2. CASE stage' = "done" /\ stage # "done"
    <3>1. /\ ex[w].pc = "next" /\ ex[w].todo = {} /\ rows' = rows /\ target' = target
      BY <2>2
    <3>2. "next" \notin {"idle", "single", "storeSingle"} \cup OnAsset
      BY DEF OnAsset
    <3>3. target # "wanted" /\ \A u \in Present(rows) : FetchSettled(rows[u])
      BY <3>1, <3>2 DEF NoneSkipped, Ahead
    <3> QED
      BY <3>1, <3>3 DEF DoneMeansSettled, Present
  <2> QED
    BY <2>1, <2>2 DEF DoneMeansSettled
<1>5. OnUrl'
  BY DEF OnUrl, GoesOn
<1> QED
  BY <1>1, <1>2, <1>3, <1>4, <1>5
-----------------------------------------------------------------------------
(* Where nothing is stored and no row changes. *)
LEMMA NothingStored ==
  ASSUME FInv, UNCHANGED <<rows, target, blobs, maps>>
  PROVE  StoresGrow /\ RowsSettle /\ RowsBacked
BY DEF FInv, FetchTypeOK, StoresGrow, RowsSettle, RowsBacked, Present

(* An execution that ends or dies has nothing in its hands. *)
LEMMA IdleKeeps ==
  ASSUME FInv, NEW w \in Workers, ex' = [ex EXCEPT ![w] = Idle],
         UNCHANGED <<rows, target, blobs, maps>>, stage' = "done" => stage = "done"
  PROVE  FInv'
<1>1. Idle \in Execution /\ Idle.pc = "idle" /\ Idle.buf = {}
  BY DEF Idle, Execution, Pc
<1>2. ex'[w] = Idle /\ \A v \in Workers : v # w => ex'[v] = ex[v]
  BY DEF FInv, FetchTypeOK
<1>3. FetchTypeOK'
  BY <1>1 DEF FInv, FetchTypeOK
<1>4. GoesOn(w)
  BY <1>1, <1>2 DEF GoesOn, OnAsset
<1> QED
  BY <1>2, <1>3, <1>4, NothingStored, SettlingKeeps

(* An execution that moves on with what it has. *)
LEMMA Moved ==
  ASSUME FetchTypeOK, NEW w \in Workers, NEW pc \in Pc, ex' = [ex EXCEPT ![w].pc = pc]
  PROVE  /\ ex' \in [Workers -> Execution]
         /\ ex'[w].pc = pc /\ ex'[w].cur = ex[w].cur /\ ex'[w].map = ex[w].map
         /\ ex'[w].buf = ex[w].buf /\ ex'[w].todo = ex[w].todo
         /\ \A v \in Workers : v # w => ex'[v] = ex[v]
BY DEF FetchTypeOK, Execution

(* A stage that is interrupted is not done by that. *)
LEMMA InterruptKeeps ==
  ASSUME FInv, NEW w \in Workers, EndInterrupted(w), UNCHANGED <<rows, target, blobs, maps>>
  PROVE  FInv'
BY IdleKeeps DEF EndInterrupted

LEMMA StartKeeps ==
  ASSUME FInv, NEW w \in Workers, Start(w)
  PROVE  FInv'
<1> DEFINE pc == IF target = "wanted" THEN "single" ELSE "next"
           todo == {u \in Present(rows) : ~FetchSettled(rows[u])}
<1>1. ex' = [ex EXCEPT ![w] = [Idle EXCEPT !.pc = pc, !.todo = todo]]
  BY DEF Start
<1>2. todo \subseteq Url /\ pc \in {"single", "next"}
  BY DEF Present
<1>3. ex \in [Workers -> Execution]
  BY DEF FInv, FetchTypeOK
<1>4. /\ ex' \in [Workers -> Execution]
      /\ ex'[w].pc = pc /\ ex'[w].todo = todo /\ ex'[w].buf = {}
      /\ \A v \in Workers : v # w => ex'[v] = ex[v]
  <2> HIDE DEF pc, todo
  <2> QED
    BY <1>1, <1>2, <1>3 DEF Idle, Execution, Pc
<1>5. GoesOn(w)
  BY <1>4 DEF GoesOn, OnAsset, Start, Present
<1>6. FetchTypeOK'
  BY <1>4 DEF Start, FInv, FetchTypeOK
<1> QED
  BY <1>4, <1>5, <1>6, NothingStored, SettlingKeeps DEF Start

LEMMA NextAssetKeeps ==
  ASSUME FInv, NEW w \in Workers, NextAsset(w)
  PROVE  FInv'
<1>1. CASE Interrupted(w)
  BY <1>1, InterruptKeeps DEF NextAsset, Interrupted
<1>2. ASSUME NEW u \in ex[w].todo,
             ex' = [ex EXCEPT ![w] = [Idle EXCEPT !.pc = "asset", !.cur = u,
                                        !.try = 1, !.todo = ex[w].todo \ {u}]],
             UNCHANGED stage
      PROVE  FInv'
  <2>1. ex \in [Workers -> Execution] /\ ex[w].todo \subseteq Url
    BY DEF FInv, FetchTypeOK, Execution
  <2> DEFINE todo == ex[w].todo \ {u}
  <2>2. todo \subseteq Url /\ u \in Url
    BY <2>1
  <2>3. /\ ex' \in [Workers -> Execution]
        /\ ex'[w].pc = "asset" /\ ex'[w].todo = todo /\ ex'[w].cur = u /\ ex'[w].buf = {}
        /\ ex'[w].map = "none"
        /\ \A v \in Workers : v # w => ex'[v] = ex[v]
    <3>1. ex' = [ex EXCEPT ![w] = [Idle EXCEPT !.pc = "asset", !.cur = u,
                                     !.try = 1, !.todo = todo]]
      BY <1>2
    <3> HIDE DEF todo
    <3> QED
      BY <2>1, <2>2, <3>1 DEF Idle, Execution, Pc
  <2>4. GoesOn(w)
    <3>1. ex[w].pc = "next" /\ UNCHANGED <<rows, target, blobs, maps>>
      BY DEF NextAsset
    <3>2. target # "wanted" /\ \A v \in Url : rows[v] # Absent =>
            FetchSettled(rows[v]) \/ v \in ex[w].todo
      BY <3>1 DEF FInv, NoneSkipped, Ahead, Present, OnAsset
    <3>3. \A v \in ex[w].todo : v \in todo \/ v = u
      OBVIOUS
    <3> HIDE DEF todo
    <3> QED
      BY <2>2, <2>3, <3>1, <3>2, <3>3 DEF GoesOn, OnAsset
  <2>5. FetchTypeOK'
    BY <2>3 DEF NextAsset, FInv, FetchTypeOK
  <2> QED
    BY <1>2, <2>3, <2>4, <2>5, NothingStored, SettlingKeeps DEF NextAsset
<1> QED
  BY <1>1, <1>2 DEF NextAsset

LEMMA FetchAssetKeeps ==
  ASSUME FInv, NEW w \in Workers, FetchAsset(w)
  PROVE  FInv'
<1>0. FetchTypeOK /\ UNCHANGED <<rows, target, blobs, maps>>
  BY DEF FInv, FetchAsset
<1>1. CASE Interrupted(w)
  BY <1>0, <1>1, InterruptKeeps DEF Interrupted
<1>2. ASSUME NEW pc \in {"store", "fail"}, Goto(w, pc), UNCHANGED stage PROVE FInv'
  <2>1. pc \in Pc /\ ex' = [ex EXCEPT ![w].pc = pc]
    BY <1>2 DEF Pc, Goto
  <2>2. /\ ex' \in [Workers -> Execution]
        /\ ex'[w].pc = pc /\ ex'[w].todo = ex[w].todo /\ ex'[w].cur = ex[w].cur
        /\ ex'[w].buf = ex[w].buf /\ ex'[w].map = ex[w].map
        /\ \A v \in Workers : v # w => ex'[v] = ex[v]
    BY <1>0, <2>1, Moved
  <2>3. ex[w].pc = "asset" /\ ex[w].cur \in Url /\ ex[w].map # "ref"
    BY DEF FetchAsset, FInv, OnUrl, OnAsset
  <2>4. GoesOn(w)
    BY <1>0, <1>2, <2>2, <2>3
       DEF GoesOn, OnAsset, FInv, StoredFirst, NoneSkipped, Ahead, Present
  <2> QED
    BY <1>0, <1>2, <2>2, <2>4, NothingStored, SettlingKeeps DEF FetchTypeOK
<1>3. CASE ex' = [ex EXCEPT ![w].try = @ + 1] /\ UNCHANGED stage
  <2>1. /\ ex' \in [Workers -> Execution]
        /\ ex'[w].pc = "asset" /\ ex'[w].todo = ex[w].todo /\ ex'[w].cur = ex[w].cur
        /\ ex'[w].buf = ex[w].buf /\ ex'[w].map = ex[w].map
        /\ \A v \in Workers : v # w => ex'[v] = ex[v]
    BY <1>0, <1>3 DEF FetchTypeOK, Execution, FetchAsset
  <2>2. GoesOn(w)
    BY <1>0, <2>1 DEF GoesOn, FetchAsset, OnAsset, FInv, OnUrl, StoredFirst, NoneSkipped, Ahead, Present
  <2> QED
    BY <1>0, <1>3, <2>1, <2>2, NothingStored, SettlingKeeps DEF FetchTypeOK
<1> QED
  BY <1>1, <1>2, <1>3 DEF FetchAsset

(* What the statements on one row make of the table. *)
LEMMA FailedRow ==
  ASSUME rows \in [Url -> Row], NEW u
  PROVE  /\ SetFetchFailed(rows, u) \in [Url -> Row]
         /\ \A v \in Url : v # u => SetFetchFailed(rows, u)[v] = rows[v]
         /\ u \in Url => /\ FetchSettled(SetFetchFailed(rows, u)[u])
                         /\ SetFetchFailed(rows, u)[u].fetch = "failed"
                         /\ SetFetchFailed(rows, u)[u].map = rows[u].map
BY DEF SetFetchFailed, FetchSettled, Row, Status

LEMMA OkRow ==
  ASSUME rows \in [Url -> Row], NEW u
  PROVE  /\ SetFetchOk(rows, u) \in [Url -> Row]
         /\ \A v \in Url : v # u => SetFetchOk(rows, u)[v] = rows[v]
         /\ u \in Url => /\ SetFetchOk(rows, u)[u].fetch = "ok"
                         /\ SetFetchOk(rows, u)[u].map = rows[u].map
BY DEF SetFetchOk, Row, Status

LEMMA MapRow ==
  ASSUME NEW table \in [Url -> Row], NEW u
  PROVE  /\ SetSourceMapRef(table, u) \in [Url -> Row]
         /\ SetSourceMapSkipped(table, u) \in [Url -> Row]
         /\ \A v \in Url : v # u => /\ SetSourceMapRef(table, u)[v] = table[v]
                                    /\ SetSourceMapSkipped(table, u)[v] = table[v]
         /\ u \in Url => /\ SetSourceMapRef(table, u)[u].fetch = table[u].fetch
                         /\ SetSourceMapSkipped(table, u)[u].fetch = table[u].fetch
                         /\ SetSourceMapSkipped(table, u)[u].map = table[u].map
BY DEF SetSourceMapRef, SetSourceMapSkipped, Row, Status

LEMMA AbsentHas == Absent.map = FALSE /\ Absent.fetch = "absent" /\ Absent.input = FALSE
BY DEF Absent, NewRow

LEMMA MarkFailedKeeps ==
  ASSUME FInv, NEW w \in Workers, MarkFailed(w)
  PROVE  FInv'
<1> DEFINE u == ex[w].cur
<1>0. /\ FetchTypeOK /\ ex[w].pc = "fail" /\ ex' = [ex EXCEPT ![w].pc = "next"]
      /\ rows' = SetFetchFailed(rows, u) /\ UNCHANGED <<target, blobs, maps, stage>>
  BY DEF FInv, MarkFailed, Goto
<1>1. /\ ex' \in [Workers -> Execution]
      /\ ex'[w].pc = "next" /\ ex'[w].todo = ex[w].todo /\ ex'[w].buf = ex[w].buf
      /\ \A v \in Workers : v # w => ex'[v] = ex[v]
  BY <1>0, Moved DEF Pc
<1>2. /\ rows' \in [Url -> Row]
      /\ \A v \in Url : v # u => rows'[v] = rows[v]
      /\ u \in Url => /\ FetchSettled(rows'[u]) /\ rows'[u].fetch = "failed"
                      /\ rows'[u].map = rows[u].map
  BY <1>0, FailedRow DEF FetchTypeOK
<1>3. StoresGrow /\ RowsSettle /\ RowsBacked
  BY <1>0, <1>2, AbsentHas DEF StoresGrow, RowsSettle, RowsBacked
<1>4. GoesOn(w)
  BY <1>0, <1>1, <1>2 DEF GoesOn, OnAsset, FInv, OnUrl, StoredFirst, NoneSkipped, Ahead, Present
<1> QED
  BY <1>0, <1>1, <1>2, <1>3, <1>4, SettlingKeeps DEF FetchTypeOK

LEMMA StoreAssetKeeps ==
  ASSUME FInv, NEW w \in Workers, StoreAsset(w)
  PROVE  FInv'
<1> DEFINE pc == IF ex[w].cur \in HasMap THEN "map" ELSE "commit"
<1>0. /\ FetchTypeOK /\ ex[w].pc = "store" /\ ex' = [ex EXCEPT ![w].pc = pc]
      /\ blobs' = blobs \cup {ex[w].cur} /\ UNCHANGED <<rows, target, maps, stage>>
  BY DEF FInv, StoreAsset, Goto
<1>1. /\ ex' \in [Workers -> Execution] /\ ex'[w].cur = ex[w].cur
      /\ ex'[w].pc = pc /\ ex'[w].todo = ex[w].todo /\ ex'[w].buf = ex[w].buf
      /\ ex'[w].map = ex[w].map
      /\ \A v \in Workers : v # w => ex'[v] = ex[v]
  BY <1>0, Moved DEF Pc
<1>2. ex[w].cur \in Url /\ (ex[w].map = "ref" => ex[w].cur \in maps)
  BY <1>0 DEF FInv, OnUrl, OnAsset
<1>3. StoresGrow /\ RowsSettle /\ RowsBacked
  BY <1>0 DEF StoresGrow, RowsSettle, RowsBacked, Present
<1>4. GoesOn(w)
  BY <1>0, <1>1, <1>2 DEF GoesOn, OnAsset, FInv, OnUrl, StoredFirst, NoneSkipped, Ahead, Present
<1> QED
  BY <1>0, <1>1, <1>2, <1>3, <1>4, SettlingKeeps DEF FetchTypeOK

LEMMA FetchMapKeeps ==
  ASSUME FInv, NEW w \in Workers, FetchMap(w)
  PROVE  FInv'
<1>0. /\ FetchTypeOK /\ ex[w].pc = "map" /\ UNCHANGED <<rows, target, blobs>>
  BY DEF FInv, FetchMap
<1>1. ex[w].cur \in Url /\ ex[w].cur \in blobs
  BY <1>0 DEF FInv, OnUrl, StoredFirst, OnAsset
<1>2. CASE Interrupted(w) /\ UNCHANGED maps
  BY <1>0, <1>2, InterruptKeeps DEF Interrupted
<1>3. ASSUME NEW map \in {"ref", "skipped"}, UNCHANGED stage,
             ex' = [ex EXCEPT ![w].map = map, ![w].pc = "commit"],
             maps \subseteq maps', maps' \subseteq Url, map = "ref" => ex[w].cur \in maps'
      PROVE  FInv'
  <2>1. /\ ex' \in [Workers -> Execution]
        /\ ex'[w].pc = "commit" /\ ex'[w].map = map
        /\ ex'[w].todo = ex[w].todo /\ ex'[w].cur = ex[w].cur /\ ex'[w].buf = ex[w].buf
        /\ \A v \in Workers : v # w => ex'[v] = ex[v]
    BY <1>0, <1>3 DEF FetchTypeOK, Execution, Pc
  <2>2. StoresGrow /\ RowsSettle /\ RowsBacked
    BY <1>0, <1>3 DEF StoresGrow, RowsSettle, RowsBacked
  <2>3. GoesOn(w)
    BY <1>0, <1>1, <1>3, <2>1
       DEF GoesOn, OnAsset, FInv, StoredFirst, NoneSkipped, Ahead, Present
  <2> QED
    BY <1>0, <1>3, <2>1, <2>2, <2>3, SettlingKeeps DEF FetchTypeOK
<1>4. maps \subseteq Url
  BY <1>0 DEF FetchTypeOK
<1> QED
  BY <1>1, <1>2, <1>3, <1>4 DEF FetchMap

LEMMA CommitAssetKeeps ==
  ASSUME FInv, NEW w \in Workers, CommitAsset(w)
  PROVE  FInv'
<1> DEFINE u == ex[w].cur
           ok == SetFetchOk(rows, u)
           pc == IF Imports[u] = {} THEN "next" ELSE "enumerate"
<1>0. /\ FetchTypeOK /\ ex[w].pc = "commit" /\ ex' = [ex EXCEPT ![w].pc = pc]
      /\ UNCHANGED <<target, blobs, maps, stage>>
  BY DEF FInv, CommitAsset, Goto
<1>1. u \in Url /\ u \in blobs /\ (ex[w].map = "ref" => u \in maps)
  BY <1>0 DEF FInv, OnUrl, StoredFirst, OnAsset
<1>2. /\ ex' \in [Workers -> Execution] /\ ex'[w].cur = u
      /\ ex'[w].pc \in {"next", "enumerate"}
      /\ ex'[w].todo = ex[w].todo /\ ex'[w].buf = ex[w].buf
      /\ \A v \in Workers : v # w => ex'[v] = ex[v]
  BY <1>0, Moved DEF Pc
<1>3. /\ ok \in [Url -> Row] /\ \A v \in Url : v # u => ok[v] = rows[v]
      /\ ok[u].fetch = "ok" /\ ok[u].map = rows[u].map
  BY <1>0, <1>1, OkRow DEF FetchTypeOK
<1>4. /\ rows' \in [Url -> Row] /\ \A v \in Url : v # u => rows'[v] = rows[v]
      /\ rows'[u].fetch = "ok"
      /\ ex[w].map = "ref" \/ rows'[u].map = rows[u].map
  <2>1. rows' \in {ok, SetSourceMapRef(ok, u), SetSourceMapSkipped(ok, u)}
        /\ (ex[w].map # "ref" => rows' \in {ok, SetSourceMapSkipped(ok, u)})
    BY DEF CommitAsset
  <2> HIDE DEF ok
  <2> QED
    BY <1>1, <1>3, <2>1, MapRow
<1>5. StoresGrow /\ RowsSettle /\ RowsBacked
  BY <1>0, <1>1, <1>4, AbsentHas
     DEF StoresGrow, RowsSettle, RowsBacked, FetchSettled
<1>6. GoesOn(w)
  BY <1>0, <1>1, <1>2, <1>4
     DEF GoesOn, OnAsset, FInv, StoredFirst, NoneSkipped, Ahead, Present, FetchSettled
<1> QED
  BY <1>0, <1>2, <1>4, <1>5, <1>6, SettlingKeeps DEF FetchTypeOK

(* An execution at work on the chunks of an asset stores what it buffers. *)
LEMMA ChunksKeep ==
  ASSUME FInv, NEW w \in Workers, ex[w].pc \in {"enumerate", "chunks"},
         blobs \subseteq blobs', blobs' \subseteq Url,
         UNCHANGED <<rows, target, maps, stage>>,
         ex' \in [Workers -> Execution], \A v \in Workers : v # w => ex'[v] = ex[v],
         ex'[w].pc \in {"next", "chunks", "seed"}, ex'[w].cur = ex[w].cur, ex'[w].todo = ex[w].todo,
         ex'[w].buf \subseteq blobs'
  PROVE  FInv'
<1>1. StoresGrow /\ RowsSettle /\ RowsBacked
  BY DEF StoresGrow, RowsSettle, RowsBacked
<1>2. GoesOn(w)
  BY DEF GoesOn, OnAsset, FInv, OnUrl, StoredFirst, NoneSkipped, Ahead, Present
<1>3. FetchTypeOK'
  BY DEF FInv, FetchTypeOK
<1> QED
  BY <1>1, <1>2, <1>3, SettlingKeeps

(* The same, where nothing new is stored. *)
LEMMA QuietChunks ==
  ASSUME FInv, NEW w \in Workers, ex[w].pc \in {"enumerate", "chunks"},
         UNCHANGED <<rows, target, blobs, maps, stage>>,
         ex' \in [Workers -> Execution], \A v \in Workers : v # w => ex'[v] = ex[v],
         ex'[w].pc \in {"next", "chunks", "seed"}, ex'[w].cur = ex[w].cur,
         ex'[w].todo = ex[w].todo, ex'[w].buf = ex[w].buf
  PROVE  FInv'
<1>1. blobs \subseteq blobs' /\ blobs' \subseteq Url /\ ex'[w].buf \subseteq blobs'
  BY DEF FInv, FetchTypeOK, StoredFirst
<1> QED
  BY <1>1, ChunksKeep

LEMMA EnumerateKeeps ==
  ASSUME FInv, NEW w \in Workers, Enumerate(w)
  PROVE  FInv'
<1> DEFINE room == IF Cardinality(Present(rows)) < MaxAssets
                   THEN MaxAssets - Cardinality(Present(rows)) ELSE 0
           pc == IF Cardinality(Present(rows)) < MaxAssets THEN "chunks" ELSE "next"
           known == Present(rows)
           queue == Imports[ex[w].cur]
<1>1. known \subseteq Url /\ Cardinality(known) \in Nat
  BY FetchAssumption, FS_Subset, FS_CardinalityType DEF Present
<1>2. room \in Nat /\ pc \in {"chunks", "next"}
  BY <1>1, FetchAssumption
<1>3. /\ ex \in [Workers -> Execution] /\ ex[w].pc = "enumerate"
      /\ UNCHANGED <<rows, target, blobs, maps, stage>>
      /\ ex' = [ex EXCEPT ![w].known = known, ![w].room = room, ![w].queue = queue,
                          ![w].pc = pc]
  BY DEF Enumerate, FInv, FetchTypeOK
<1>4. queue \subseteq Url
  BY <1>3, FetchAssumption DEF FInv, OnUrl
<1>5. /\ ex' \in [Workers -> Execution]
      /\ ex'[w].pc = pc /\ ex'[w].cur = ex[w].cur /\ ex'[w].todo = ex[w].todo
      /\ ex'[w].buf = ex[w].buf
      /\ \A v \in Workers : v # w => ex'[v] = ex[v]
  <2> HIDE DEF room, pc, known, queue
  <2> QED
    BY <1>1, <1>2, <1>3, <1>4 DEF Execution, Pc
<1> QED
  BY <1>2, <1>3, <1>5, QuietChunks

LEMMA FetchChunkKeeps ==
  ASSUME FInv, NEW w \in Workers, FetchChunk(w)
  PROVE  FInv'
<1>1. /\ ex \in [Workers -> Execution] /\ ex[w].pc = "chunks"
      /\ UNCHANGED <<rows, target, maps, stage>>
  BY DEF FetchChunk, FInv, FetchTypeOK
<1>2. PICK c \in Untried(w) :
        \/ /\ blobs' = blobs \cup {c}
           /\ ex' = [ex EXCEPT ![w].known = @ \cup {c}, ![w].tries = @ + 1,
                               ![w].buf = @ \cup {c},
                               ![w].queue = IF ex[w].cur \in Webpack THEN @
                                            ELSE @ \cup Imports[c]]
        \/ /\ ex' = [ex EXCEPT ![w].known = @ \cup {c}, ![w].tries = @ + 1]
           /\ blobs' = blobs
  BY DEF FetchChunk
<1>3. c \in Url
  BY <1>1 DEF Untried, Execution
<1>4. Imports[c] \subseteq Url
  BY <1>3, FetchAssumption
<1>5. CASE blobs' = blobs /\ ex' = [ex EXCEPT ![w].known = @ \cup {c}, ![w].tries = @ + 1]
  <2>1. /\ ex' \in [Workers -> Execution]
        /\ ex'[w].pc = "chunks" /\ ex'[w].cur = ex[w].cur /\ ex'[w].todo = ex[w].todo
        /\ ex'[w].buf = ex[w].buf
        /\ \A v \in Workers : v # w => ex'[v] = ex[v]
    BY <1>1, <1>3, <1>5 DEF Execution
  <2> QED
    BY <1>1, <1>5, <2>1, QuietChunks
<1>6. CASE /\ blobs' = blobs \cup {c}
           /\ ex' = [ex EXCEPT ![w].known = @ \cup {c}, ![w].tries = @ + 1,
                               ![w].buf = @ \cup {c},
                               ![w].queue = IF ex[w].cur \in Webpack THEN @
                                            ELSE @ \cup Imports[c]]
  <2> DEFINE queue == IF ex[w].cur \in Webpack THEN ex[w].queue
                      ELSE ex[w].queue \cup Imports[c]
  <2>1. queue \subseteq Url
    BY <1>1, <1>4 DEF Execution
  <2>2. ex' = [ex EXCEPT ![w].known = @ \cup {c}, ![w].tries = @ + 1,
                         ![w].buf = @ \cup {c}, ![w].queue = queue]
    BY <1>1, <1>6
  <2>3. /\ ex' \in [Workers -> Execution]
        /\ ex'[w].pc = "chunks" /\ ex'[w].cur = ex[w].cur /\ ex'[w].todo = ex[w].todo
        /\ ex'[w].buf = ex[w].buf \cup {c}
        /\ \A v \in Workers : v # w => ex'[v] = ex[v]
    <3> HIDE DEF queue
    <3> QED
      BY <1>1, <1>3, <2>1, <2>2 DEF Execution
  <2>4. blobs \subseteq blobs' /\ blobs' \subseteq Url /\ ex'[w].buf \subseteq blobs'
    BY <1>3, <1>6, <2>3 DEF FInv, FetchTypeOK, StoredFirst
  <2> QED
    BY <1>1, <2>3, <2>4, ChunksKeep
<1> QED
  BY <1>2, <1>5, <1>6

LEMMA LeaveChunksKeeps ==
  ASSUME FInv, NEW w \in Workers, LeaveChunks(w)
  PROVE  FInv'
<1>1. PICK way \in {"next", "interrupted"} :
        ex' = [ex EXCEPT ![w].pc = "seed", ![w].then = way]
  BY DEF LeaveChunks
<1>2. /\ ex \in [Workers -> Execution] /\ ex[w].pc = "chunks"
      /\ UNCHANGED <<rows, target, blobs, maps, stage>>
  BY ZenonT(40) DEF LeaveChunks, FInv, FetchTypeOK
<1>3. [ex[w] EXCEPT !.pc = "seed", !.then = way] \in Execution
  BY <1>2, ZenonT(40) DEF Execution, Pc
<1>4. /\ ex' \in [Workers -> Execution]
      /\ ex'[w].pc = "seed" /\ ex'[w].cur = ex[w].cur /\ ex'[w].todo = ex[w].todo
      /\ ex'[w].buf = ex[w].buf
      /\ \A v \in Workers : v # w => ex'[v] = ex[v]
  <2>1. ex' = [ex EXCEPT ![w] = [ex[w] EXCEPT !.pc = "seed", !.then = way]]
    BY <1>1, <1>2
  <2>2. ex' \in [Workers -> Execution]
    BY <1>2, <1>3, <2>1
  <2>3. ex'[w] = [ex[w] EXCEPT !.pc = "seed", !.then = way]
    BY <1>2, <2>1
  <2>4. /\ ex'[w].pc = "seed" /\ ex'[w].cur = ex[w].cur /\ ex'[w].todo = ex[w].todo
        /\ ex'[w].buf = ex[w].buf
    BY <1>2, <2>3 DEF Execution
  <2> QED
    BY <1>2, <2>1, <2>2, <2>4
<1> QED
  BY <1>2, <1>4, QuietChunks

LEMMA SeedChunksKeeps ==
  ASSUME FInv, NEW w \in Workers, SeedChunks(w)
  PROVE  FInv'
<1> DEFINE buf == ex[w].buf
<1>1. /\ FetchTypeOK /\ ex[w].pc = "seed" /\ UNCHANGED <<target, blobs, maps>>
      /\ rows' = SeedCaptured(rows, buf, {}, {})
  BY DEF SeedChunks, FInv
<1>2. buf \subseteq blobs
  BY DEF FInv, StoredFirst
<1>3. /\ rows' \in [Url -> Row]
      /\ \A u \in Url : \/ rows'[u] = rows[u]
                        \/ /\ u \in buf /\ rows'[u].fetch = "ok"
                           /\ rows'[u].map = FALSE
  <2> DEFINE new(u) == [NewRow EXCEPT !.fetch = "ok", !.input = TRUE,
                                      !.map = u \in {}, !.skipped = u \in {}]
  <2>1. ASSUME NEW u \in Url PROVE new(u) \in Row /\ new(u).fetch = "ok" /\ new(u).map = FALSE
    <3> DEFINE no == u \in {}
    <3>1. no = FALSE
      OBVIOUS
    <3>2. new(u) = [fetch |-> "ok", analyze |-> "pending", input |-> TRUE,
                    map |-> FALSE, skipped |-> FALSE]
      <4>1. new(u) = [NewRow EXCEPT !.fetch = "ok", !.input = TRUE,
                                    !.map = no, !.skipped = no]
        BY Zenon
      <4> HIDE DEF no, new
      <4> QED
        BY <3>1, <4>1 DEF NewRow
    <3> HIDE DEF new
    <3> QED
      BY <3>2 DEF Row, Status
  <2>2. rows' = [u \in Url |-> IF u \in buf /\ rows[u] = Absent THEN new(u) ELSE rows[u]]
    BY <1>1 DEF SeedCaptured
  <2> HIDE DEF new
  <2> QED
    BY <1>1, <2>1, <2>2 DEF FetchTypeOK
<1>4. /\ ex' \in [Workers -> Execution]
      /\ \/ ex'[w].pc = "idle" /\ ex'[w].buf = {}
         \/ ex'[w].pc = "next" /\ ex'[w].buf = buf /\ ex'[w].todo = ex[w].todo
      /\ \A v \in Workers : v # w => ex'[v] = ex[v]
      /\ stage' = "done" => stage = "done"
  <2>1. CASE EndInterrupted(w)
    <3>1. Idle \in Execution /\ Idle.pc = "idle" /\ Idle.buf = {}
      BY DEF Idle, Execution, Pc
    <3> QED
      BY <1>1, <2>1, <3>1 DEF EndInterrupted, FetchTypeOK
  <2>2. CASE Goto(w, "next") /\ UNCHANGED stage
    BY <1>1, <2>2, Moved DEF Goto, Pc
  <2> QED
    BY <2>1, <2>2 DEF SeedChunks
<1>5. StoresGrow /\ RowsSettle /\ RowsBacked
  BY <1>1, <1>2, <1>3 DEF StoresGrow, RowsSettle, RowsBacked, FetchSettled
<1>6. GoesOn(w)
  BY <1>1, <1>2, <1>3, <1>4
     DEF GoesOn, OnAsset, FInv, NoneSkipped, Ahead, Present, FetchSettled
<1> QED
  BY <1>1, <1>3, <1>4, <1>5, <1>6, SettlingKeeps DEF FetchTypeOK
-----------------------------------------------------------------------------
(* A run without rows never gets any, and its executions pass through the
   fetch of the target only.                                               *)
SinglePc == {"idle", "single", "storeSingle", "next"}

Single ==
  /\ \A w \in Workers : ex[w].pc \in {"single", "storeSingle"} => target # "none"
  /\ target # "none" => /\ Present(rows) = {}
                        /\ \A w \in Workers : ex[w].pc \in SinglePc /\ ex[w].todo = {}

LEMMA SingleMoves ==
  ASSUME Single, NEW w \in Workers, \A v \in Workers : v # w => ex'[v] = ex[v],
         target' = target, rows' = rows \/ target = "none",
         ex'[w].pc \in {"single", "storeSingle"} => target # "none",
         target # "none" => ex'[w].pc \in SinglePc /\ ex'[w].todo = {}
  PROVE  Single'
<1>1. \A v \in Workers : ex'[v].pc \in {"single", "storeSingle"} => target' # "none"
  BY DEF Single
<1>2. ASSUME target' # "none"
      PROVE  Present(rows)' = {} /\ \A v \in Workers : ex'[v].pc \in SinglePc /\ ex'[v].todo = {}
  BY <1>2 DEF Single, Present
<1> QED
  BY <1>1, <1>2 DEF Single

(* The steps of the loop over the rows are not taken in such a run. *)
LEMMA SingleKeepsOut ==
  ASSUME Single, NEW w \in Workers, \A v \in Workers : v # w => ex'[v] = ex[v],
         target' = target, ex[w].pc \notin SinglePc \/ ex[w].todo # {},
         ex'[w].pc \notin {"single", "storeSingle"}
  PROVE  Single'
BY SingleMoves DEF Single

LEMMA IdleSingle ==
  ASSUME FetchTypeOK, Single, NEW w \in Workers, ex' = [ex EXCEPT ![w] = Idle],
         UNCHANGED <<rows, target>>
  PROVE  Single'
<1>1. Idle.pc = "idle" /\ Idle.todo = {}
  BY DEF Idle
<1>2. ex'[w] = Idle /\ \A v \in Workers : v # w => ex'[v] = ex[v]
  BY DEF FetchTypeOK
<1> QED
  BY <1>1, <1>2, SingleMoves DEF SinglePc

LEMMA FetchSingleKeeps ==
  ASSUME FInv, Single, NEW w \in Workers, FetchSingle(w)
  PROVE  FInv' /\ Single'
<1>1. FetchTypeOK /\ UNCHANGED <<rows, target, blobs, maps>> /\ ex[w].pc = "single"
  BY DEF FInv, FetchSingle
<1>2. CASE ex' = [ex EXCEPT ![w] = Idle] /\ (stage' = "done" => stage = "done")
  BY <1>1, <1>2, IdleKeeps, IdleSingle
<1>3. CASE Goto(w, "storeSingle") /\ UNCHANGED stage
  <2>1. /\ ex' \in [Workers -> Execution]
        /\ ex'[w].pc = "storeSingle" /\ ex'[w].todo = ex[w].todo /\ ex'[w].buf = ex[w].buf
        /\ \A v \in Workers : v # w => ex'[v] = ex[v]
    BY <1>1, <1>3, Moved DEF Goto, Pc
  <2>2. GoesOn(w)
    BY <1>1, <2>1 DEF GoesOn, OnAsset, FInv, StoredFirst
  <2>3. FInv'
    BY <1>1, <1>3, <2>1, <2>2, NothingStored, SettlingKeeps DEF FetchTypeOK
  <2>4. Single'
    BY <1>1, <2>1, SingleMoves DEF Single, SinglePc
  <2> QED
    BY <2>3, <2>4
<1> QED
  BY <1>2, <1>3 DEF FetchSingle, Interrupted, EndInterrupted

LEMMA StoreSingleKeeps ==
  ASSUME FInv, Single, NEW w \in Workers, StoreSingle(w)
  PROVE  FInv' /\ Single'
<1>1. /\ FetchTypeOK /\ UNCHANGED <<rows, blobs, maps, stage>> /\ target' = "stored"
      /\ ex[w].pc = "storeSingle" /\ ex' = [ex EXCEPT ![w].pc = "next"]
  BY DEF FInv, StoreSingle, Goto
<1>2. /\ ex' \in [Workers -> Execution]
      /\ ex'[w].pc = "next" /\ ex'[w].todo = ex[w].todo /\ ex'[w].buf = ex[w].buf
      /\ \A v \in Workers : v # w => ex'[v] = ex[v]
  BY <1>1, Moved DEF Pc
<1>3. target # "none" /\ Present(rows) = {}
  BY <1>1 DEF Single
<1>4. GoesOn(w)
  BY <1>1, <1>2, <1>3 DEF GoesOn, OnAsset, FInv, StoredFirst, Present
<1>5. StoresGrow /\ RowsSettle /\ RowsBacked
  BY <1>1 DEF StoresGrow, RowsSettle, RowsBacked
<1>6. FInv'
  BY <1>1, <1>2, <1>4, <1>5, SettlingKeeps DEF FetchTypeOK
<1>7. \A v \in Workers : ex'[v].pc \in SinglePc /\ ex'[v].todo = {}
  BY <1>2, <1>3 DEF Single, SinglePc
<1> QED
  BY <1>1, <1>3, <1>6, <1>7 DEF Single, Present

LEMMA FinishKeeps ==
  ASSUME FInv, NEW w \in Workers, Finish(w)
  PROVE  FInv'
<1>1. Idle \in Execution /\ Idle.pc = "idle" /\ Idle.buf = {}
  BY DEF Idle, Execution, Pc
<1>2. ex'[w] = Idle /\ \A v \in Workers : v # w => ex'[v] = ex[v]
  BY DEF Finish, FInv, FetchTypeOK
<1>3. FetchTypeOK'
  BY <1>1 DEF Finish, FInv, FetchTypeOK
<1>4. GoesOn(w)
  BY <1>1, <1>2 DEF GoesOn, OnAsset
<1> QED
  BY <1>2, <1>3, <1>4, NothingStored, SettlingKeeps DEF Finish

(* Which steps of the loop leave a run without rows as it is: all of them. *)
LEMMA ExecuteSingle ==
  ASSUME FInv, Single, NEW w \in Workers, Execute(w),
         ~FetchSingle(w), ~StoreSingle(w)
  PROVE  Single'
<1>0. FetchTypeOK
  BY DEF FInv
<1>1. CASE \E pc \in Pc \ {"single", "storeSingle"} :
             /\ ex' = [ex EXCEPT ![w].pc = pc] /\ target' = target
             /\ ex[w].pc \notin SinglePc
  BY <1>0, <1>1, Moved, SingleKeepsOut
<1>2. CASE ex' = [ex EXCEPT ![w] = Idle] /\ UNCHANGED <<rows, target>>
  BY <1>0, <1>2, IdleSingle
<1>3. CASE /\ \A v \in Workers : v # w => ex'[v] = ex[v]
           /\ target' = target /\ (ex[w].pc \notin SinglePc \/ ex[w].todo # {})
           /\ ex'[w].pc \notin {"single", "storeSingle"}
  BY <1>3, SingleKeepsOut
<1>4. CASE NextAsset(w)
  <2>1. ASSUME NEW u \in ex[w].todo,
               ex' = [ex EXCEPT ![w] = [Idle EXCEPT !.pc = "asset", !.cur = u,
                                          !.try = 1, !.todo = ex[w].todo \ {u}]]
        PROVE  Single'
    <3>1. ex'[w].pc = "asset" /\ \A v \in Workers : v # w => ex'[v] = ex[v]
      BY <1>0, <2>1 DEF FetchTypeOK, Idle
    <3> QED
      BY <1>3, <1>4, <3>1 DEF NextAsset
  <2> QED
    BY <1>2, <1>4, <2>1 DEF NextAsset, Interrupted, EndInterrupted
<1>5. CASE FetchAsset(w)
  <2>1. ex[w].pc = "asset" /\ "asset" \notin SinglePc
    BY <1>5 DEF FetchAsset, SinglePc
  <2> QED
    BY <1>0, <1>1, <1>2, <1>3, <1>5, <2>1
       DEF FetchAsset, Interrupted, EndInterrupted, Goto, FetchTypeOK, Execution, Pc
<1>6. CASE MarkFailed(w)
  BY <1>1, <1>6 DEF MarkFailed, Goto, Pc, SinglePc
<1>7. CASE StoreAsset(w)
  BY <1>1, <1>7 DEF StoreAsset, Goto, Pc, SinglePc
<1>8. CASE FetchMap(w)
  BY <1>0, <1>2, <1>3, <1>8
     DEF FetchMap, Interrupted, EndInterrupted, FetchTypeOK, Execution, SinglePc
<1>9. CASE CommitAsset(w)
  BY <1>1, <1>9 DEF CommitAsset, Goto, Pc, SinglePc
<1>10. CASE Enumerate(w)
  BY <1>0, <1>3, <1>10 DEF Enumerate, FetchTypeOK, Execution, SinglePc
<1>11. CASE FetchChunk(w)
  BY <1>0, <1>3, <1>11 DEF FetchChunk, FetchTypeOK, Execution, SinglePc
<1>12. CASE LeaveChunks(w)
  BY <1>0, <1>3, <1>12 DEF LeaveChunks, FetchTypeOK, Execution, SinglePc
<1>13. CASE SeedChunks(w)
  BY <1>0, <1>3, <1>13
     DEF SeedChunks, EndInterrupted, Goto, FetchTypeOK, Execution, SinglePc, Idle
<1>14. CASE Finish(w)
  BY <1>2, <1>14 DEF Finish
<1> QED
  BY <1>4, <1>5, <1>6, <1>7, <1>8, <1>9, <1>10, <1>11, <1>12, <1>13, <1>14 DEF Execute

LEMMA StartSingle ==
  ASSUME FInv, Single, NEW w \in Workers, Start(w)
  PROVE  Single'
<1> DEFINE pc == IF target = "wanted" THEN "single" ELSE "next"
           todo == {u \in Present(rows) : ~FetchSettled(rows[u])}
<1>1. /\ ex' = [ex EXCEPT ![w] = [Idle EXCEPT !.pc = pc, !.todo = todo]]
      /\ UNCHANGED <<rows, target>> /\ ex \in [Workers -> Execution]
  BY DEF Start, FInv, FetchTypeOK
<1>2. /\ ex'[w].pc = pc /\ ex'[w].todo = todo
      /\ \A v \in Workers : v # w => ex'[v] = ex[v]
  <2> HIDE DEF pc, todo
  <2> QED
    BY <1>1 DEF Idle
<1>3. pc = "single" => target # "none"
  OBVIOUS
<1>4. target # "none" => todo = {}
  BY DEF Single
<1>5. pc \in SinglePc
  BY DEF SinglePc
<1> HIDE DEF pc, todo
<1>6. ex'[w].pc \in {"single", "storeSingle"} => target # "none"
  BY <1>2, <1>3, <1>5 DEF SinglePc, pc
<1> QED
  BY <1>1, <1>2, <1>4, <1>5, <1>6, SingleMoves

LEMMA ExecuteKeeps ==
  ASSUME FInv, Single, NEW w \in Workers, Execute(w)
  PROVE  FInv' /\ Single'
<1>1. FInv'
  BY NextAssetKeeps, FetchAssetKeeps, MarkFailedKeeps, StoreAssetKeeps, FetchMapKeeps,
     CommitAssetKeeps, EnumerateKeeps, FetchChunkKeeps, LeaveChunksKeeps, SeedChunksKeeps,
     FetchSingleKeeps, StoreSingleKeeps, FinishKeeps DEF Execute
<1>2. Single'
  BY ExecuteSingle, FetchSingleKeeps, StoreSingleKeeps
<1> QED
  BY <1>1, <1>2

(* The environment touches neither the rows nor the executions. *)
LEMMA QuietKeeps ==
  ASSUME FInv, Single, UNCHANGED <<rows, target, blobs, maps, ex>>,
         stage' = "done" => stage = "done"
  PROVE  FInv' /\ Single'
BY DEF FInv, Single, FetchTypeOK, OnUrl, StoredFirst, NoneSkipped, Ahead, BytesBehindRows,
       DoneMeansSettled, Present

LEMMA FetchInit ==
  ASSUME Init
  PROVE  FInv /\ Single
<1>1. Idle \in Execution /\ Idle.pc = "idle" /\ Idle.buf = {} /\ Idle.todo = {}
  BY DEF Idle, Execution, Pc
<1>2. /\ ex = [w \in Workers |-> Idle] /\ blobs = {} /\ maps = {} /\ stage = "running"
      /\ target \in {"none", "wanted"}
  BY DEF Init
<1>3. /\ rows \in [Url -> Row]
      /\ \A u \in Url : rows[u] = Absent \/ rows[u] = NewRow
      /\ target # "none" => \A u \in Url : rows[u] = Absent
  <2>1. Absent \in Row /\ NewRow \in Row
    BY DEF Absent, NewRow, Row, Status
  <2>2. \/ rows = SeedPending(NoRows, Assets) /\ target = "none"
        \/ rows = NoRows /\ target = "wanted"
    BY DEF Init
  <2> QED
    BY <2>1, <2>2 DEF SeedPending, NoRows
<1>4. NewRow.fetch = "pending" /\ NewRow.map = FALSE
  BY DEF NewRow
<1>5. BytesBehindRows
  BY <1>2, <1>3, <1>4 DEF BytesBehindRows, Present
<1> QED
  BY <1>1, <1>2, <1>3, <1>5
     DEF FInv, FetchTypeOK, OnUrl, OnAsset, StoredFirst, NoneSkipped, DoneMeansSettled,
         Single, SinglePc, Present

LEMMA FetchInduction == Spec => [](FInv /\ Single)
<1>1. Init => FInv /\ Single
  BY FetchInit
<1>2. FInv /\ Single /\ [Next]_vars => (FInv /\ Single)'
  <2> SUFFICES ASSUME FInv, Single, [Next]_vars
               PROVE  FInv' /\ Single'
    OBVIOUS
  <2>1. ASSUME NEW w \in Workers, Start(w) PROVE FInv' /\ Single'
    BY <2>1, StartKeeps, StartSingle
  <2>2. ASSUME NEW w \in Workers, Execute(w) PROVE FInv' /\ Single'
    BY <2>2, ExecuteKeeps
  <2>3. ASSUME NEW w \in Workers, Crash(w) PROVE FInv' /\ Single'
    BY <2>3, IdleKeeps, IdleSingle DEF Crash, FInv
  <2>4. CASE SlotExpires \/ Pause \/ Resume \/ UNCHANGED vars
    BY <2>4, QuietKeeps DEF SlotExpires, Pause, Resume, vars
  <2> QED
    BY <2>1, <2>2, <2>3, <2>4 DEF Next
<1> QED
  BY <1>1, <1>2, PTL DEF Spec

(* A row that says its bytes, or its source map, are stored is right, whatever
   dies, is paused or runs twice in between: put_blob comes before the row's
   own transaction in _fetch_assets, and before the one that seeds chunks.   *)
THEOREM RowsNeverAhead == Spec => []BytesBehindRows
<1>1. FInv /\ Single => BytesBehindRows
  BY DEF FInv
<1> QED
  BY <1>1, FetchInduction, PTL

(* The stage does not succeed with an asset left behind: what is not settled is
   in the snapshot or the hands of every execution, so of the one that ends,
   even when another has done part of the work beside it (fetch_run).        *)
THEOREM DoneIsComplete == Spec => []DoneMeansSettled
<1>1. FInv /\ Single => DoneMeansSettled
  BY DEF FInv
<1> QED
  BY <1>1, FetchInduction, PTL
=============================================================================
