----------------------------- MODULE SourceIndex -----------------------------
(***************************************************************************)
(* The background indexing of a run's sources (probe/source_index.py,      *)
(* probe/recovered_store.py): each bundle's served text, and for a bundle  *)
(* with a source map the list of its originals, are stored by a chain of   *)
(* short queue messages.  A key in Redis names the message that may go on. *)
(***************************************************************************)
EXTENDS Integers, Sequences, FiniteSets

CONSTANTS
  Bundle,     \* the run's bundles in the cursor's order: a sequence
  Mapped,     \* those with a source map
  Unreadable, \* those whose text can never be stored
  Indexers,   \* worker processes
  Openers,    \* clients that open the Sources page
  Trouble     \* bound: sets of crashes, outages, early lapses and deletions

Bundles == {Bundle[i] : i \in DOMAIN Bundle}

ConstantsOK ==
  /\ Bundle \in Seq(Bundles) /\ Cardinality(Bundles) = Len(Bundle)
  /\ Mapped \subseteq Bundles /\ Unreadable \subseteq Bundles
  /\ Trouble \subseteq [crashes : Nat, outages : Nat, lapses : Nat, deletes : Nat]

VARIABLES
  text,    \* bundles whose served text is stored
  lists,   \* bundles whose originals are stored, or recorded as tried
  gone,    \* the run is deleted
  key,     \* index:{run} is set
  marker,  \* indexed:v2:{run}: "none", "done" for a month, "retry" for an hour
  chain,   \* messages not acknowledged: [cursor, owns]
  indexer, \* each worker's progress through handle
  opener,  \* each client's progress through request_index
  trouble  \* what is left of the bound

ivars == <<text, lists, gone, key, marker, chain, indexer, opener, trouble>>

(* A token is only ever compared with the one in the key, and never drawn
   twice: what holds it is said to own the job, and to have lost it once the
   key is changed.  Messages that have lost it are all alike.              *)
Lost == [cursor |-> 0, owns |-> FALSE]
First == [cursor |-> 1, owns |-> TRUE]

AtRest == [pc |-> "idle", msg |-> Lost, from |-> 0, at |-> 0, owns |-> FALSE,
           seenText |-> {}, seenLists |-> {}]
Closed == [pc |-> "idle", owns |-> FALSE]

Init ==
  /\ text = {} /\ lists = {} /\ gone = FALSE
  /\ key = FALSE /\ marker = "none" /\ chain = {}
  /\ indexer = [w \in Indexers |-> AtRest]
  /\ opener = [c \in Openers |-> Closed]
  /\ trouble \in Trouble

\* Everyone else's token when the key is set to a new one, or deleted.
LostChain == {Lost : m \in chain}
LostIndexer == [w \in Indexers |-> [indexer[w] EXCEPT !.msg = Lost, !.owns = FALSE]]
LostOpener == [c \in Openers |-> [opener[c] EXCEPT !.owns = FALSE]]

\* status: every unit of the run is stored; a deleted run has none.
Complete == gone \/ (text = Bundles /\ lists = Mapped)

Spend(what) == trouble[what] > 0 /\ trouble' = [trouble EXCEPT ![what] = @ - 1]
-----------------------------------------------------------------------------
(* request_index: on every open of the Sources page. *)

Open(c) ==
  /\ opener[c].pc = "idle" /\ ~gone /\ marker = "none" /\ ~Complete
  /\ opener' = [opener EXCEPT ![c].pc = "claim"]
  /\ UNCHANGED <<text, lists, gone, key, marker, chain, indexer, trouble>>

\* SET NX.
ClaimJob(c) ==
  /\ opener[c].pc = "claim"
  /\ IF key THEN opener' = [opener EXCEPT ![c] = Closed]
     ELSE opener' = [opener EXCEPT ![c] = [pc |-> "send", owns |-> TRUE]]
  /\ key' = TRUE
  /\ UNCHANGED <<text, lists, gone, marker, chain, indexer, trouble>>

SendFirst(c) ==
  /\ opener[c].pc = "send"
  /\ chain' = chain \cup {IF opener[c].owns THEN First ELSE Lost}
  /\ opener' = [opener EXCEPT ![c] = Closed]
  /\ UNCHANGED <<text, lists, gone, key, marker, indexer, trouble>>

OpenerCrash(c) ==
  /\ opener[c].pc = "send" /\ Spend("crashes")
  /\ opener' = [opener EXCEPT ![c] = Closed]
  /\ UNCHANGED <<text, lists, gone, key, marker, chain, indexer>>
-----------------------------------------------------------------------------
(* handle and index_slice, on a worker. *)

Step(w, pc) == indexer' = [indexer EXCEPT ![w].pc = pc]

\* The worker acknowledges its message whatever handle returned.
AckSlice(w) ==
  /\ indexer[w].pc = "ack"
  /\ chain' = chain \ {indexer[w].msg}
  /\ indexer' = [indexer EXCEPT ![w] = AtRest]
  /\ UNCHANGED <<text, lists, gone, key, marker, opener, trouble>>

(* A message is delivered again when its worker is dead, or outran the lease
   of the delivery.                                                        *)
TakeSlice(w, m) ==
  /\ indexer[w].pc = "idle"
  /\ IF \E v \in Indexers : indexer[v].msg = m THEN Spend("lapses") ELSE UNCHANGED trouble
  /\ indexer' = [indexer EXCEPT ![w].pc = "owner", ![w].msg = m]
  /\ UNCHANGED <<text, lists, gone, key, marker, chain, opener>>

\* Only the message the key names goes on; the listings are read once.
CheckOwner(w) ==
  /\ indexer[w].pc = "owner"
  /\ indexer' = IF ~indexer[w].msg.owns
       THEN [indexer EXCEPT ![w].pc = "ack"]
       ELSE [indexer EXCEPT ![w].pc = "bundle", ![w].from = indexer[w].msg.cursor,
               ![w].at = indexer[w].msg.cursor, ![w].seenText = text, ![w].seenLists = lists]
  /\ UNCHANGED <<text, lists, gone, key, marker, chain, opener, trouble>>

\* An exception in a listing: the key goes, so that a later open starts over.
ListingFails(w) ==
  /\ indexer[w].pc = "bundle" /\ indexer[w].at = indexer[w].from
  /\ Spend("outages")
  /\ key' = FALSE /\ chain' = LostChain /\ opener' = LostOpener
  /\ indexer' = [LostIndexer EXCEPT ![w] = [AtRest EXCEPT !.pc = "ack"]]
  /\ UNCHANGED <<text, lists, gone, marker>>

AtBundle(w) == indexer[w].pc = "bundle" /\ ~gone /\ indexer[w].at <= Len(Bundle)
Current(w) == Bundle[indexer[w].at]
NeedsMap(w) == Current(w) \in Mapped \ indexer[w].seenLists

\* The slice's time is up: at least one bundle was looked at.
OutOfTime(w) ==
  /\ AtBundle(w) /\ indexer[w].at > indexer[w].from
  /\ Step(w, "next")
  /\ UNCHANGED <<text, lists, gone, key, marker, chain, opener, trouble>>

\* The end of the bundles, or a deleted run, whose listing is empty.
AtEnd(w) ==
  /\ indexer[w].pc = "bundle" /\ (gone \/ indexer[w].at > Len(Bundle))
  /\ Step(w, "end")
  /\ UNCHANGED <<text, lists, gone, key, marker, chain, opener, trouble>>

\* Before a whole map, the job is taken over: a second delivery of this
\* message then finds a newer owner.
Renew(w) ==
  /\ AtBundle(w) /\ NeedsMap(w)
  /\ key' = TRUE /\ chain' = LostChain /\ opener' = LostOpener
  /\ indexer' = [LostIndexer EXCEPT ![w].pc = "map"]
  /\ UNCHANGED <<text, lists, gone, marker, trouble>>

(* _index_originals: the list is written, or recorded as tried; a deleted
   run, a download or a write that fails leaves the bundle without one.  The
   slice ends here if the text is stored already.                          *)
IndexOriginals(w) ==
  /\ indexer[w].pc = "map"
  /\ \/ /\ IF gone THEN UNCHANGED lists ELSE lists' = lists \cup {Current(w)}
        /\ UNCHANGED trouble
     \/ Spend("outages") /\ UNCHANGED lists
  /\ indexer' = IF Current(w) \in indexer[w].seenText
       THEN [indexer EXCEPT ![w].pc = "next", ![w].at = @ + 1]
       ELSE [indexer EXCEPT ![w].pc = "text"]
  /\ UNCHANGED <<text, gone, key, marker, chain, opener>>

\* A bundle that needs no map: to its text.
NoMap(w) ==
  /\ AtBundle(w) /\ ~NeedsMap(w)
  /\ indexer' = IF Current(w) \in indexer[w].seenText
       THEN [indexer EXCEPT ![w].at = @ + 1]
       ELSE [indexer EXCEPT ![w].pc = "text"]
  /\ UNCHANGED <<text, lists, gone, key, marker, chain, opener, trouble>>

\* Mutant: the chain goes on from what is still missing.
IndexTextRetries(w) ==
  /\ indexer[w].pc = "text"
  /\ IF Current(w) \in Unreadable
       THEN Step(w, "next")
       ELSE indexer' = [indexer EXCEPT ![w].pc = IF gone THEN "end" ELSE "put"]
  /\ UNCHANGED <<text, lists, gone, key, marker, chain, opener, trouble>>

\* A bundle that cannot be read is passed over; a deleted run ends the chain.
IndexText(w) ==
  /\ indexer[w].pc = "text"
  /\ IF Current(w) \in Unreadable
       THEN indexer' = [indexer EXCEPT ![w].pc = "bundle", ![w].at = @ + 1]
       ELSE indexer' = [indexer EXCEPT ![w].pc = IF gone THEN "end" ELSE "put"]
  /\ UNCHANGED <<text, lists, gone, key, marker, chain, opener, trouble>>

\* store_served: a failed write is logged and the next bundle is taken.
PutText(w) ==
  /\ indexer[w].pc = "put"
  /\ \/ text' = text \cup {Current(w)} /\ UNCHANGED trouble
     \/ Spend("outages") /\ UNCHANGED text
  /\ indexer' = [indexer EXCEPT ![w].pc = "bundle", ![w].at = @ + 1]
  /\ UNCHANGED <<lists, gone, key, marker, chain, opener>>

\* The chain ends: the key is deleted, whoever has set it since.
EndChain(w) ==
  /\ indexer[w].pc = "end"
  /\ key' = FALSE /\ chain' = LostChain /\ opener' = LostOpener
  /\ indexer' = [LostIndexer EXCEPT ![w] = [AtRest EXCEPT !.pc = "mark"]]
  /\ UNCHANGED <<text, lists, gone, marker, trouble>>

\* Mutant: the end of the chain is taken for done.
MarkDoneAlways(w) ==
  /\ indexer[w].pc = "mark"
  /\ marker' = "done" /\ Step(w, "ack")
  /\ UNCHANGED <<text, lists, gone, key, chain, opener, trouble>>

(* The run is called done if a new listing shows every unit stored.  A
   listing that fails here raises out of handle: the message stays, and its
   next delivery finds no key.                                             *)
MarkDone(w) ==
  /\ indexer[w].pc = "mark"
  /\ \/ /\ marker' = IF Complete THEN "done" ELSE "retry"
        /\ Step(w, "ack") /\ UNCHANGED trouble
     \/ /\ Spend("outages") /\ UNCHANGED marker
        /\ indexer' = [indexer EXCEPT ![w] = AtRest]
  /\ UNCHANGED <<text, lists, gone, key, chain, opener>>

\* The successor's token is in force before its message exists.
Succeed(w) ==
  /\ indexer[w].pc = "next"
  /\ key' = TRUE /\ chain' = LostChain /\ opener' = LostOpener
  /\ indexer' = [LostIndexer EXCEPT ![w] =
                   [AtRest EXCEPT !.pc = "send", !.owns = TRUE, !.at = indexer[w].at]]
  /\ UNCHANGED <<text, lists, gone, marker, trouble>>

SendNext(w) ==
  /\ indexer[w].pc = "send"
  /\ chain' = chain \cup
       {IF indexer[w].owns THEN [cursor |-> indexer[w].at, owns |-> TRUE] ELSE Lost}
  /\ indexer' = [indexer EXCEPT ![w] = [AtRest EXCEPT !.pc = "ack", !.msg = indexer[w].msg]]
  /\ UNCHANGED <<text, lists, gone, key, marker, opener, trouble>>

IndexerCrash(w) ==
  /\ indexer[w].pc # "idle" /\ Spend("crashes")
  /\ indexer' = [indexer EXCEPT ![w] = AtRest]
  /\ UNCHANGED <<text, lists, gone, key, marker, chain, opener>>
-----------------------------------------------------------------------------
(* The key's ten minutes pass: a job nobody works on any more, or, within
   the bound, one that is only slow or waits in the queue.                 *)
JobIsLive == \/ \E m \in chain : m.owns
             \/ \E c \in Openers : opener[c].owns
             \/ \E w \in Indexers : indexer[w].pc # "idle"

KeyLapses ==
  /\ key
  /\ IF JobIsLive THEN Spend("lapses") ELSE UNCHANGED trouble
  /\ key' = FALSE /\ chain' = LostChain /\ opener' = LostOpener /\ indexer' = LostIndexer
  /\ UNCHANGED <<text, lists, gone, marker>>

RetryLapses ==
  /\ marker = "retry" /\ marker' = "none"
  /\ UNCHANGED <<text, lists, gone, key, chain, indexer, opener, trouble>>

\* delete_session, and the sweep of its objects.
DeleteRun ==
  /\ ~gone /\ Spend("deletes")
  /\ gone' = TRUE /\ text' = {} /\ lists' = {}
  /\ UNCHANGED <<key, marker, chain, indexer, opener>>
-----------------------------------------------------------------------------
Indexing(w) ==
  \/ (\E m \in chain : TakeSlice(w, m)) \/ CheckOwner(w) \/ OutOfTime(w) \/ AtEnd(w)
  \/ Renew(w) \/ IndexOriginals(w) \/ NoMap(w) \/ IndexText(w) \/ PutText(w)
  \/ EndChain(w) \/ MarkDone(w) \/ Succeed(w) \/ SendNext(w) \/ AckSlice(w)

Opening(c) == Open(c) \/ ClaimJob(c) \/ SendFirst(c)

Next ==
  \/ \E w \in Indexers : Indexing(w) \/ ListingFails(w) \/ IndexerCrash(w)
  \/ \E c \in Openers : Opening(c) \/ OpenerCrash(c)
  \/ KeyLapses \/ RetryLapses \/ DeleteRun

(* Workers work, the page is opened again and again, and the two markers
   expire.                                                                 *)
Fairness ==
  /\ \A w \in Indexers : WF_ivars(Indexing(w))
  /\ \A c \in Openers : WF_ivars(Opening(c))
  /\ WF_ivars(KeyLapses) /\ WF_ivars(RetryLapses)

Spec == Init /\ [][Next]_ivars /\ Fairness
-----------------------------------------------------------------------------
\* A run is called indexed for a month only if everything that makes it so is
\* stored, however its writes failed and whichever messages were delivered
\* twice (handle).
DoneIsComplete == marker = "done" => Complete

\* Whatever crashed, lapsed or failed, a run whose page is opened again has
\* every bundle that can be read indexed in the end, those after an unreadable
\* one included (index_slice).
EventuallyIndexed == <>(gone \/ (Bundles \ Unreadable \subseteq text /\ lists = Mapped))
=============================================================================
