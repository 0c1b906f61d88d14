------------------------------- MODULE Services -------------------------------
(***************************************************************************)
(* The services that share no state with one another, composed: a          *)
(* behaviour is one of one of them, named by part, and the others stay as  *)
(* they began.  The login limit is extended rather than instanced: its     *)
(* properties are stated of every behaviour.                               *)
(***************************************************************************)
EXTENDS LoginLimit, Sequences

CONSTANTS
  Parts,                               \* the services a behaviour may be of
  Bundle, Mapped, Unreadable, Indexers, Openers, Trouble,  \* SourceIndex
  Gens, Failures,                                          \* ThreatModel
  Path, Cap, Slots, Hitches                                \* RunEvents

VARIABLES
  part,
  text, lists, gone, key, marker, chain, indexer, opener, trouble,
  row, gen, latest, overrun, kept, failures,
  at, paused, log, stream, held, link, page, got, asked, gap, forgot, blind,
  gaveUp, hitches

I == INSTANCE SourceIndex
T == INSTANCE ThreatModel
E == INSTANCE RunEvents

ASSUME ServicesAssumption ==
  /\ I!ConstantsOK /\ T!ConstantsOK /\ E!ConstantsOK /\ ConstantsOK
-----------------------------------------------------------------------------
indexVars == <<text, lists, gone, key, marker, chain, indexer, opener,
               trouble>>
threatsVars == <<row, gen, latest, overrun, kept, failures>>
eventsVars == <<at, paused, log, stream, held, link, page, got, asked, gap,
                forgot, blind, gaveUp, hitches>>
allVars == <<part, indexVars, threatsVars, eventsVars, lvars>>

\* Where a module may begin in several ways, one of them will do for the others.
FixOthers ==
  /\ IF part = "index" THEN TRUE ELSE trouble = CHOOSE v \in Trouble : TRUE
  /\ IF part = "threats" THEN TRUE ELSE failures = CHOOSE v \in Failures : TRUE
  /\ IF part = "events" THEN TRUE ELSE hitches = CHOOSE v \in Hitches : TRUE

AnyInit ==
  /\ part \in Parts
  /\ FixOthers
  /\ I!Init /\ T!Init /\ E!Init /\ Init

OnlySourceIndex == part = "index" /\ UNCHANGED <<part, threatsVars, eventsVars, lvars>>
OnlyThreatModel == part = "threats" /\ UNCHANGED <<part, indexVars, eventsVars, lvars>>
OnlyRunEvents == part = "events" /\ UNCHANGED <<part, indexVars, threatsVars, lvars>>
OnlyLoginLimit == part = "login" /\ UNCHANGED <<part, indexVars, threatsVars, eventsVars>>

AnyNext ==
  \/ \E w \in Indexers, m \in chain : OnlySourceIndex /\ I!TakeSlice(w, m)
  \/ \E w \in Indexers : OnlySourceIndex /\ I!CheckOwner(w)
  \/ \E w \in Indexers : OnlySourceIndex /\ I!ListingFails(w)
  \/ \E w \in Indexers : OnlySourceIndex /\ I!OutOfTime(w)
  \/ \E w \in Indexers : OnlySourceIndex /\ I!AtEnd(w)
  \/ \E w \in Indexers : OnlySourceIndex /\ I!Renew(w)
  \/ \E w \in Indexers : OnlySourceIndex /\ I!IndexOriginals(w)
  \/ \E w \in Indexers : OnlySourceIndex /\ I!NoMap(w)
  \/ \E w \in Indexers : OnlySourceIndex /\ I!IndexText(w)
  \/ \E w \in Indexers : OnlySourceIndex /\ I!PutText(w)
  \/ \E w \in Indexers : OnlySourceIndex /\ I!EndChain(w)
  \/ \E w \in Indexers : OnlySourceIndex /\ I!MarkDone(w)
  \/ \E w \in Indexers : OnlySourceIndex /\ I!Succeed(w)
  \/ \E w \in Indexers : OnlySourceIndex /\ I!SendNext(w)
  \/ \E w \in Indexers : OnlySourceIndex /\ I!AckSlice(w)
  \/ \E w \in Indexers : OnlySourceIndex /\ I!IndexerCrash(w)
  \/ \E c \in Openers : OnlySourceIndex /\ I!Open(c)
  \/ \E c \in Openers : OnlySourceIndex /\ I!ClaimJob(c)
  \/ \E c \in Openers : OnlySourceIndex /\ I!SendFirst(c)
  \/ \E c \in Openers : OnlySourceIndex /\ I!OpenerCrash(c)
  \/ OnlySourceIndex /\ I!KeyLapses
  \/ OnlySourceIndex /\ I!RetryLapses
  \/ OnlySourceIndex /\ I!DeleteRun
  \/ \E g \in Gens : OnlyThreatModel /\ T!TriggerReads(g)
  \/ \E g \in Gens : OnlyThreatModel /\ T!TriggerWrites(g)
  \/ \E g \in Gens : OnlyThreatModel /\ T!ClaimRow(g)
  \/ \E g \in Gens : OnlyThreatModel /\ T!AssembleContext(g)
  \/ \E g \in Gens : OnlyThreatModel /\ T!LinkCall(g)
  \/ \E g \in Gens : OnlyThreatModel /\ T!ProviderAnswers(g)
  \/ \E g \in Gens : OnlyThreatModel /\ T!StoreResults(g)
  \/ \E g \in Gens : OnlyThreatModel /\ T!SetFailed(g)
  \/ OnlyThreatModel /\ T!Restart
  \/ OnlyThreatModel /\ T!Ages
  \/ OnlyThreatModel /\ T!DeleteModel
  \/ OnlyRunEvents /\ E!Advance
  \/ OnlyRunEvents /\ E!Pause
  \/ OnlyRunEvents /\ E!Unpause
  \/ OnlyRunEvents /\ E!RedisRestarts
  \/ OnlyRunEvents /\ E!Replay
  \/ OnlyRunEvents /\ E!TailStream
  \/ OnlyRunEvents /\ E!KeepAlive
  \/ OnlyRunEvents /\ E!TimesOut
  \/ OnlyRunEvents /\ E!Connect
  \/ OnlyRunEvents /\ E!Receive
  \/ OnlyRunEvents /\ E!Break
  \/ OnlyRunEvents /\ E!CleanClose
  \/ OnlyRunEvents /\ E!CheckTerminal
  \/ \E e \in log : OnlyRunEvents /\ E!PublishEvent(e)
  \/ \E s \in Slots : OnlyRunEvents /\ E!ReadStatus(s)
  \/ \E s \in Slots : OnlyRunEvents /\ E!Snapshot(s)
  \/ \E s \in Slots : OnlyRunEvents /\ E!RefreshFails(s)
  \/ \E c \in Callers, u \in Users : OnlyLoginLimit /\ CheckLimit(c, u)
  \/ \E c \in Callers : OnlyLoginLimit /\ VerifyPassword(c)
  \/ \E c \in Callers : OnlyLoginLimit /\ RecordFailure(c)
  \/ \E c \in Callers : OnlyLoginLimit /\ ClearFailures(c)
  \/ \E u \in Users : OnlyLoginLimit /\ UserWindowPasses(u)
  \/ OnlyLoginLimit /\ WindowOfAllPasses

\* Each part is scheduled as its module says; nothing need happen to a login.
AnySpec == AnyInit /\ [][AnyNext]_allVars /\
  \/ part = "index" /\ I!Fairness
  \/ part = "threats" /\ T!Fairness
  \/ part = "events" /\ E!Fairness
  \/ part = "login"
-----------------------------------------------------------------------------
\* A run is called indexed for a month only if everything that makes it so is
\* stored (source_index.handle).
DoneIsComplete == part = "index" => I!DoneIsComplete

\* A run whose page is opened again has every bundle that can be read indexed
\* in the end (source_index.index_slice).
EventuallyIndexed == part = "index" => I!EventuallyIndexed

\* One generation pays at a time, and a finished row shows its threats and its
\* call, unless the row was reset under one at work; until then no call but its
\* own, unless the reset was of a row read before another's call was linked
\* (trigger_generation, run_generation).
OneGeneration == part = "threats" => T!OneGeneration

\* A generation that is asked for again ends, however it was interrupted.
GenerationEnds == part = "threats" => T!GenerationEnds

\* Before the last event it has received, a page misses those that were trimmed
\* or lost with Redis when a connection came to read them, and no others, unless
\* a connection found nothing to replay (events/stream.py, _event_stream).
Gapless == part = "events" => E!Gapless

\* A page comes to show the run's end, and keeps showing it, unless its watch
\* ended on a failed request or three failures in a row (checkTerminal,
\* supersedes, streamRunEvents).
PageSettles == part = "events" => E!PageSettles
=============================================================================
