------------------------------ MODULE PageCapture ------------------------------
(***************************************************************************)
(* The capture of a page's scripts in the extension's service worker       *)
(* (background.js: handleRequest, processQueue, processFile) and the       *)
(* session they belong to (modules/capture-session.js).  The worker may be *)
(* torn down between any two awaits; what it stored survives.              *)
(***************************************************************************)
EXTENDS Integers, Sequences, FiniteSets, SequencesExt

CONSTANTS
  Urls, Inline,       \* the scripts; those whose text is read from the page
  Hashes, Served,     \* the contents there are; those each URL may have
  Needs, Size,        \* the URLs a content imports, and its bytes
  Processors,         \* the runs of processQueue that overlap
  Sessions,           \* 1 .. bound of session ids
  Acts,               \* bound of what pages and the user do
  MaxBatch, MaxFiles, MaxBytes, MaxAsset, InlineCap,
  Respawns,           \* bound of teardowns of the worker
  Spoils              \* bound of writes to the outbox and the dedup store that fail

CaptureConstants ==
  /\ Inline \subseteq Urls
  /\ Served \in [Urls -> SUBSET Hashes] /\ Needs \in [Hashes -> SUBSET Urls]
  /\ Size \in [Hashes -> Nat]
  /\ 1 \in Sessions /\ MaxBatch \in Nat \ {0}

VARIABLES
  mem,       \* what the worker holds
  stored,    \* what chrome.storage and the dedup store hold
  proc,      \* each run of processQueue
  turn,      \* the transition to another session: idle, flush, rotate, adopt
  sent,      \* history: <<session, content>> put in the outbox
  held,      \* those whose put failed, which only the worker's memory has
  torn,      \* history: those that were held when the worker was torn down
  respawns,
  spoilt,    \* what is used of Spoils
  asked      \* what is used of Acts

pvars == <<mem, stored, proc, turn, sent, held, torn, respawns, spoilt, asked>>
queued == <<sent, held, torn, spoilt>>

NoFiles == << >>
\* Nothing captured: _clear and _resetCounters.
Empty(sid, capturing) ==
  [sid |-> sid, capturing |-> capturing, files |-> NoFiles, hashes |-> {}, bytes |-> 0,
   queue |-> << >>, timer |-> FALSE, inline |-> 0, metaDue |-> FALSE]
IdleProc == [pc |-> "idle", batch |-> << >>, hash |-> "", sid |-> 0]

Init ==
  /\ mem = Empty(1, FALSE)
  /\ stored = [sid |-> 1, dedup |-> {}, meta |-> NoFiles, capturing |-> FALSE]
  /\ proc = [p \in Processors |-> IdleProc]
  /\ turn = "idle" /\ sent = {} /\ held = {} /\ torn = {} /\ respawns = 0 /\ spoilt = 0 /\ asked = 0
-----------------------------------------------------------------------------
BytesOf(files) ==
  LET SizeAt(u) == Size[files[u]] IN MapThenSumSet(SizeAt, DOMAIN files)

SetCapturing(on) ==
  /\ mem' = [mem EXCEPT !.capturing = on] /\ stored' = [stored EXCEPT !.capturing = on]

\* startCapture, stopCapture
Toggle ==
  /\ asked < Acts /\ asked' = asked + 1
  /\ SetCapturing(~mem.capturing)
  /\ UNCHANGED <<proc, turn, queued, respawns>>

Push(items) == [mem EXCEPT !.queue = @ \o items, !.timer = TRUE]

\* handleRequest, handleDynamicScript: a URL the gate lets through.
SeeScript(url) ==
  /\ mem.capturing /\ url \notin Inline /\ asked < Acts /\ asked' = asked + 1
  /\ mem' = Push(<<[url |-> url, body |-> ""]>>)
  /\ UNCHANGED <<stored, proc, turn, queued, respawns>>

\* handleInlineScript: the text is at hand, and a page has so many of them.
SeeInline(url, hash) ==
  /\ mem.capturing /\ url \in Inline /\ asked < Acts /\ asked' = asked + 1
  /\ mem.inline < InlineCap
  /\ mem' = [Push(<<[url |-> url, body |-> hash]>>) EXCEPT !.inline = @ + 1]
  /\ UNCHANGED <<stored, proc, turn, queued, respawns>>
-----------------------------------------------------------------------------
Taken == IF Len(mem.queue) < MaxBatch THEN Len(mem.queue) ELSE MaxBatch

\* processQueue: the timer of scheduleQueueProcessing fires, or that of a run
\* that left something; neither waits for a run that is at work.
TakeBatch(p) ==
  /\ \/ proc[p].pc = "idle" /\ mem.timer
     \/ proc[p].pc = "again"
  /\ proc' = [proc EXCEPT ![p] = [IdleProc EXCEPT
       !.pc = IF mem.queue = << >> THEN "idle" ELSE "fetch",
       !.batch = SubSeq(mem.queue, 1, Taken)]]
  /\ mem' = [mem EXCEPT !.queue = SubSeq(@, Taken + 1, Len(@)),
                        !.timer = @ /\ proc[p].pc = "again"]
  /\ UNCHANGED <<stored, turn, queued, respawns, asked>>

\* A write that its handler swallows fails.
Spoil == spoilt < Spoils /\ spoilt' = spoilt + 1

Item(p) == proc[p].batch[1]
\* Mutant: a run that ends does not look at the queue again.
EndsQuietly(p, queue) ==
  IF Len(proc[p].batch) > 1
    THEN [IdleProc EXCEPT !.pc = "fetch", !.batch = Tail(proc[p].batch)]
    ELSE IdleProc

\* The next item of the batch, or the timer for what was pushed meanwhile.
NextItem(p, queue) ==
  IF Len(proc[p].batch) > 1
    THEN [IdleProc EXCEPT !.pc = "fetch", !.batch = Tail(proc[p].batch)]
    ELSE [IdleProc EXCEPT !.pc = IF queue = << >> THEN "idle" ELSE "again"]

\* enforceLimits
WithinLimits(hash) ==
  Cardinality(DOMAIN mem.files) < MaxFiles /\ mem.bytes + Size[hash] <= MaxBytes

\* The content came: too large an asset is skipped, and a limit stops the capture.
FetchContent(p, hash) ==
  LET item == Item(p) IN
  /\ proc[p].pc = "fetch"
  /\ IF item.body = "" THEN hash \in Served[item.url] ELSE hash = item.body
  /\ IF Size[hash] <= MaxAsset /\ WithinLimits(hash)
       THEN proc' = [proc EXCEPT ![p].pc = "hash", ![p].hash = hash]
       ELSE proc' = [proc EXCEPT ![p] = NextItem(p, mem.queue)]
  /\ IF Size[hash] <= MaxAsset /\ ~WithinLimits(hash)
       THEN SetCapturing(FALSE) ELSE UNCHANGED <<mem, stored>>
  /\ UNCHANGED <<turn, queued, respawns, asked>>

\* Fetch, fallback or decompression failed.
FetchFails(p) ==
  /\ proc[p].pc = "fetch" /\ Item(p).body = ""
  /\ proc' = [proc EXCEPT ![p] = NextItem(p, mem.queue)]
  /\ UNCHANGED <<mem, stored, turn, queued, respawns, asked>>

Seen(hash) == hash \in mem.hashes

SkipSeen(p) ==
  /\ proc[p].pc = "hash" /\ Seen(proc[p].hash)
  /\ proc' = [proc EXCEPT ![p] = NextItem(p, mem.queue)]
  /\ UNCHANGED <<mem, stored, turn, queued, respawns, asked>>

\* Mutant: the hash is marked before its file is queued.
MarkedFirst(old, hash) == (stored.dedup \ old) \cup {hash}

\* What the dedup store holds when a file is kept, before it is queued.
StillMarked(old, hash) == stored.dedup \ old

\* The hash came, in one turn: what the URL held is forgotten, the file and its
\* hash are kept, and the file is stamped with the session of now.  What the store
\* is to forget stays there if that fails.
KeepFile(p) ==
  LET url == Item(p).url
      hash == proc[p].hash
      old == {mem.files[u] : u \in {url} \cap DOMAIN mem.files} \ {hash}
  IN /\ proc[p].pc = "hash" /\ ~Seen(hash)
     /\ mem' = [mem EXCEPT
          !.files = [u \in DOMAIN @ \cup {url} |-> IF u = url THEN hash ELSE @[u]],
          !.hashes = (@ \ old) \cup {hash}]
     /\ \/ stored' = [stored EXCEPT !.dedup = StillMarked(old, hash)] /\ UNCHANGED spoilt
        \/ old # {} /\ Spoil /\ UNCHANGED stored
     /\ proc' = [proc EXCEPT ![p].pc = "queue", ![p].sid = mem.sid]
     /\ UNCHANGED <<turn, sent, held, torn, respawns, asked>>

\* enqueue: the outbox entry.  A put that fails is logged, and the file is then
\* in memory only.
PutOutbox(p) ==
  LET at == proc[p] IN
  /\ at.pc = "queue"
  /\ \/ sent' = sent \cup {<<at.sid, at.hash>>} /\ UNCHANGED <<held, spoilt>>
     \/ Spoil /\ held' = held \cup {<<at.sid, at.hash>>} /\ UNCHANGED sent
  /\ proc' = [proc EXCEPT ![p].pc = "mark"]
  /\ UNCHANGED <<mem, stored, turn, torn, respawns, asked>>

\* dedupStore.put, whatever became of the outbox entry; it may fail too.
PutDedup(p) ==
  /\ proc[p].pc = "mark"
  /\ \/ stored' = [stored EXCEPT !.dedup = @ \cup {proc[p].hash}]
        /\ UNCHANGED spoilt
     \/ Spoil /\ UNCHANGED stored
  /\ proc' = [proc EXCEPT ![p].pc = "count"]
  /\ UNCHANGED <<mem, turn, sent, held, torn, respawns, asked>>

\* The bytes are counted, the projection is due, the imports are queued.
CountAndFollow(p) ==
  LET new == Needs[proc[p].hash] \ DOMAIN mem.files
      pushed == mem.queue \o SetToSeq({[url |-> u, body |-> ""] : u \in new})
  IN /\ proc[p].pc = "count"
     /\ mem' = [mem EXCEPT !.bytes = @ + Size[proc[p].hash], !.metaDue = TRUE, !.queue = pushed]
     /\ proc' = [proc EXCEPT ![p] = NextItem(p, pushed)]
     /\ UNCHANGED <<stored, turn, queued, respawns, asked>>

\* schedulePersistCapturedMeta: the timer fires.
PersistMeta ==
  /\ mem.metaDue
  /\ mem' = [mem EXCEPT !.metaDue = FALSE]
  /\ stored' = [stored EXCEPT !.meta = mem.files]
  /\ UNCHANGED <<proc, turn, queued, respawns, asked>>
-----------------------------------------------------------------------------
\* clearCaptured: the id stays.
ClearFiles ==
  /\ turn = "idle" /\ asked < Acts /\ asked' = asked + 1
  /\ mem' = Empty(mem.sid, mem.capturing)
  /\ stored' = [stored EXCEPT !.dedup = {}, !.meta = NoFiles]
  /\ UNCHANGED <<proc, turn, queued, respawns>>

\* startNew waits for the outbox and the history, startStandalone does not.
Leave(next) ==
  /\ turn = "idle" /\ stored.sid + 1 \in Sessions
  /\ asked < Acts /\ asked' = asked + 1
  /\ mem' = [mem EXCEPT !.queue = << >>]
  /\ turn' = next
  /\ UNCHANGED <<stored, proc, queued, respawns>>

Flushed ==
  /\ turn = "flush" /\ turn' = "rotate"
  /\ UNCHANGED <<mem, stored, proc, queued, respawns, asked>>

\* SessionStore.rotate: the new id is durable first.
Rotate ==
  /\ turn = "rotate" /\ turn' = "adopt"
  /\ stored' = [stored EXCEPT !.sid = @ + 1]
  /\ UNCHANGED <<mem, proc, queued, respawns, asked>>

\* The continuation, in one turn: the id, _clear and onRotated.
Adopt ==
  /\ turn = "adopt" /\ turn' = "idle"
  /\ mem' = [Empty(stored.sid, mem.capturing) EXCEPT !.queue = mem.queue, !.timer = mem.timer]
  /\ stored' = [stored EXCEPT !.dedup = {}, !.meta = NoFiles]
  /\ UNCHANGED <<proc, queued, respawns, asked>>

\* The worker is torn down, and its next life restores what was stored.
Respawn ==
  /\ respawns < Respawns /\ respawns' = respawns + 1
  /\ mem' = [Empty(stored.sid, stored.capturing) EXCEPT
       !.hashes = stored.dedup, !.files = stored.meta, !.bytes = BytesOf(stored.meta)]
  /\ proc' = [p \in Processors |-> IdleProc]
  /\ turn' = "idle"
  /\ held' = {} /\ torn' = torn \cup held
  /\ UNCHANGED <<stored, sent, spoilt, asked>>
-----------------------------------------------------------------------------
Next ==
  \/ Toggle
  \/ \E url \in Urls : SeeScript(url)
  \/ \E url \in Inline : \E hash \in Served[url] : SeeInline(url, hash)
  \/ \E p \in Processors :
       \/ TakeBatch(p)
       \/ \E hash \in Hashes : FetchContent(p, hash)
       \/ FetchFails(p) \/ SkipSeen(p) \/ KeepFile(p)
       \/ PutOutbox(p) \/ PutDedup(p) \/ CountAndFollow(p)
  \/ PersistMeta \/ ClearFiles
  \/ \E next \in {"flush", "rotate"} : Leave(next)
  \/ Flushed \/ Rotate \/ Adopt \/ Respawn

Spec == Init /\ [][Next]_pvars
-----------------------------------------------------------------------------
\* A content that the store says was seen was put in the outbox, or its put
\* failed: it is then in the worker's memory, until a teardown, which loses it
\* (enqueue, processFile, D43d).
SeenMeansQueued == \A h \in stored.dedup : \E sid \in Sessions : <<sid, h>> \in sent \cup held \cup torn

\* Whatever was seen is taken up: a queue has a timer or a run that will look
\* at it again (scheduleQueueProcessing, processQueue).
NothingForgotten == mem.queue # << >> => mem.timer \/ \E p \in Processors : proc[p].pc # "idle"

\* Nothing that was seen is dropped on its way to the uploader, neither between
\* two runs of the queue nor by a teardown, but for a content whose put in the
\* outbox failed before it: that one is lost for good.
SeenIsKept == SeenMeansQueued /\ NothingForgotten
=============================================================================
