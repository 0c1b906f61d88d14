------------------------------ MODULE RunEvents ------------------------------
(***************************************************************************)
(* How a browser follows a run: events are recorded with the change they   *)
(* tell of, and published to the run's stream after it (events/log.py,     *)
(* events/stream.py); a connection replays the stream and then tails it    *)
(* (api/runs_router.py); the page applies what it receives, and snapshots  *)
(* of the run's status, to the state it shows (sseClient.ts, runData.tsx). *)
(*                                                                         *)
(* A connection is read in the order of the ids it was written in, so what *)
(* is on the wire is a set of ids, of which the least arrives next.        *)
(***************************************************************************)
EXTENDS Integers, Sequences, FiniteSetsExt

CONSTANTS
  Path,     \* the states a run goes through without a pause
  Cap,      \* entries the stream is sure to keep (event_stream_maxlen)
  Slots,    \* status requests the page has out at a time
  Hitches   \* bound: lost publishes, broken connections, failed requests,
            \* restarts of Redis, pauses

ConstantsOK ==
  /\ Cap \in Nat
  /\ Hitches \subseteq [lost : Nat, broken : Nat, requests : Nat, restarts : Nat, pauses : Nat]

VARIABLES
  at,      \* the run's position on Path
  paused,  \* the run is paused
  log,     \* recorded events that are not published yet: the states they tell of
  stream,  \* all that was added to the run's stream; an entry's id is its position
  held,    \* the ids that are still there
  link,    \* the connection: [pc, cursor, wire]
  page,    \* the page: [pc, lastId, shown, failures]
  got,     \* ids of the entries the page has received
  asked,   \* status requests of the page: "none", "asked", or the state read
  gap,     \* history: ids that were gone when a connection came to read them
  forgot,  \* history: the last id that went with a restart of Redis
  blind,   \* history: a connection tailed the stream from "$"
  gaveUp,  \* history: the watch ended on a failed request, or on the third
           \* failure in a row
  hitches  \* what is left of the bound

evars == <<at, paused, log, stream, held, link, page, got, asked, gap, forgot,
           blind, gaveUp, hitches>>

Final == Path[Len(Path)]
State == IF paused THEN "paused" ELSE Path[at]
Over == at = Len(Path)

NoLink == [pc |-> "closed", cursor |-> 0, wire |-> {}]
NoState == "unknown"
Free == "none"

Init ==
  /\ at = 1 /\ paused = FALSE /\ log = {} /\ stream = <<>>
  /\ link = NoLink
  /\ page = [pc |-> "connect", lastId |-> 0, shown |-> NoState, failures |-> 0]
  /\ got = {} /\ asked = [s \in Slots |-> Free]
  /\ held = {} /\ gap = {} /\ forgot = 0 /\ blind = FALSE /\ gaveUp = FALSE
  /\ hitches \in Hitches

Hitch(what) == hitches[what] > 0 /\ hitches' = [hitches EXCEPT ![what] = @ - 1]
-----------------------------------------------------------------------------
(* The run, and its events. *)

histories == <<gap, forgot, blind, gaveUp>>
reader == <<link, page, got, asked, histories>>

\* record_event in the transaction of the change.
Advance ==
  /\ ~Over /\ ~paused
  /\ at' = at + 1 /\ log' = log \cup {Path[at + 1]}
  /\ UNCHANGED <<paused, stream, held, reader, hitches>>

Pause ==
  /\ ~Over /\ ~paused /\ at > 1 /\ Hitch("pauses")
  /\ paused' = TRUE /\ log' = log \cup {"paused"}
  /\ UNCHANGED <<at, stream, held, reader>>

\* A resumed run goes on from the stage it left.
Unpause ==
  /\ paused
  /\ paused' = FALSE /\ log' = log \cup {Path[at]}
  /\ UNCHANGED <<at, stream, held, reader, hitches>>

(* publish, after the commit and by whichever process committed: in any
   order, and not at all when it dies or Redis fails.  XADD trims what is
   older than the last Cap entries, or some of it: the cap is approximate. *)
PublishEvent(e) ==
  /\ e \in log /\ log' = log \ {e}
  /\ \/ /\ stream' = Append(stream, e)
        /\ LET now == held \cup {Len(stream')}
           IN held' \in {now} \cup {{i \in now : i > n} : n \in 1 .. Len(stream') - Cap}
        /\ UNCHANGED hitches
     \/ Hitch("lost") /\ UNCHANGED <<stream, held>>
  /\ UNCHANGED <<at, paused, reader>>

\* Redis comes back without its last entries, or with none at all.
RedisRestarts ==
  /\ Hitch("restarts") /\ held # {}
  /\ held' \in {{i \in held : i < n} : n \in held}
  /\ forgot' = Len(stream)
  /\ UNCHANGED <<at, paused, log, stream, link, page, got, asked, gap, blind, gaveUp>>
-----------------------------------------------------------------------------
(* The server's side of a connection: _event_stream. *)

writer == <<at, paused, log, stream, held, forgot>>

\* What is sent ends with the first event that tells of the run's end.
UpToFinal(ids) ==
  LET ends == {i \in ids : stream[i] = Final}
  IN {i \in ids : \A e \in ends : i <= e}

Newer(id) == {i \in held : i > id}

Send(id) ==
  LET sent == UpToFinal(Newer(id))
      ended == \E i \in sent : stream[i] = Final
  IN [link EXCEPT !.wire = @ \cup sent,
        !.pc = IF ended THEN "ending" ELSE "tail",
        !.cursor = IF sent = {} THEN @ ELSE Max(sent)]

\* Nobody tells the connection of the entries that are gone.
Skipped(id) == {i \in DOMAIN stream \ held : i > id}

\* Mutant: the tail starts at the stream's end, whatever was replayed.
ReplayThenNow ==
  /\ link.pc = "replay"
  /\ link' = [Send(link.cursor) EXCEPT !.cursor = 0]
  /\ gap' = gap \cup Skipped(link.cursor)
  /\ UNCHANGED <<writer, page, got, asked, blind, gaveUp, hitches>>

\* Everything after the page's last id; a cursor of 0 is then "$".
Replay ==
  /\ link.pc = "replay"
  /\ link' = Send(link.cursor)
  /\ gap' = gap \cup Skipped(link.cursor)
  /\ blind' = (blind \/ link'.cursor = 0)
  /\ UNCHANGED <<writer, page, got, asked, gaveUp, hitches>>

\* One XREAD that returns entries.  From "$" it returns those published
\* while it waits: any number of the last ones.
TailStream ==
  /\ link.pc = "tail"
  /\ \E id \in (IF link.cursor = 0 THEN {i - 1 : i \in Newer(0)} ELSE {link.cursor}) :
       /\ Newer(id) # {}
       /\ link' = Send(id)
       /\ gap' = gap \cup Skipped(id)
  /\ UNCHANGED <<writer, page, got, asked, blind, gaveUp, hitches>>

\* One that returns nothing: the stream is closed if the run has ended, or
\* has been open for five minutes.
KeepAlive ==
  /\ link.pc = "tail" /\ (link.cursor = 0 \/ Newer(link.cursor) = {})
  /\ Over
  /\ link' = [link EXCEPT !.pc = "ending"]
  /\ UNCHANGED <<writer, page, got, asked, gap, blind, gaveUp, hitches>>

TimesOut ==
  /\ link.pc = "tail" /\ link' = [link EXCEPT !.pc = "ending"]
  /\ UNCHANGED <<writer, page, got, asked, gap, blind, gaveUp, hitches>>
-----------------------------------------------------------------------------
(* The page. *)

Rank(s) == IF \E i \in DOMAIN Path : Path[i] = s
             THEN CHOOSE i \in DOMAIN Path : Path[i] = s ELSE 0

\* supersedes: a state that may replace the one shown.
Supersedes(next, shown) ==
  \/ shown = NoState
  \/ shown # Final /\ (next \in {Final, "paused"} \/ shown = "paused" \/ Rank(next) >= Rank(shown))

Shown(next) == IF Supersedes(next, page.shown) THEN next ELSE page.shown

\* refresh: ask for the status, if a slot is free (bound: Slots).
Ask(set) == IF \E s \in Slots : asked[s] = Free
              THEN [asked EXCEPT ![CHOOSE s \in Slots : asked[s] = Free] = "asked"]
              ELSE asked

\* The stream answers: failures are forgotten and the status is asked for.
Connect ==
  /\ page.pc = "connect" /\ link.pc = "closed"
  /\ page' = [page EXCEPT !.pc = "open", !.failures = 0]
  /\ link' = [NoLink EXCEPT !.pc = "replay", !.cursor = page.lastId]
  /\ asked' = Ask("status")
  /\ UNCHANGED <<writer, got, gap, blind, gaveUp, hitches>>

\* A frame arrives: its id is kept for the next connection.
Receive ==
  /\ page.pc = "open" /\ link.wire # {}
  /\ LET id == Min(link.wire)
         to == stream[id]
         ends == to = Final /\ Supersedes(to, page.shown)
     IN /\ page' = [page EXCEPT !.lastId = id, !.shown = Shown(to),
                      !.pc = IF to = Final THEN "stopped" ELSE @]
        /\ got' = got \cup {id}
        /\ asked' = IF ends THEN Ask("status") ELSE asked
        /\ link' = IF to = Final THEN NoLink ELSE [link EXCEPT !.wire = @ \ {id}]
  /\ UNCHANGED <<writer, gap, blind, gaveUp, hitches>>

\* The connection breaks, and what was on the wire is lost.  The third
\* failure in a row ends the watch with one last look.
Break ==
  /\ page.pc \in {"connect", "open"} /\ Hitch("broken")
  /\ page' = [page EXCEPT !.failures = @ + 1,
                !.pc = IF page.failures + 1 >= 3 THEN "stopped" ELSE "connect"]
  /\ gaveUp' = (gaveUp \/ page'.pc = "stopped")
  /\ asked' = IF page'.pc = "stopped" THEN Ask("status") ELSE asked
  /\ link' = NoLink
  /\ UNCHANGED <<writer, got, gap, blind>>

\* The server closes without the run's end on the wire.
CleanClose ==
  /\ page.pc = "open" /\ link.pc = "ending" /\ link.wire = {}
  /\ page' = [page EXCEPT !.pc = "check"] /\ link' = NoLink
  /\ UNCHANGED <<writer, got, asked, gap, blind, gaveUp, hitches>>

\* Mutant: a clean close is taken for the end of the run.
CheckNothing ==
  /\ page.pc = "check"
  /\ page' = [page EXCEPT !.pc = "stopped"]
  /\ UNCHANGED <<writer, link, got, asked, gap, blind, gaveUp, hitches>>

\* checkTerminal: the status says whether to connect again.  A request that
\* fails ends the watch on what is shown.
CheckTerminal ==
  /\ page.pc = "check"
  /\ \/ /\ page' = [page EXCEPT !.shown = Shown(State), !.pc = IF Over THEN "stopped" ELSE "connect"]
        /\ asked' = IF Over THEN Ask("status") ELSE asked
        /\ UNCHANGED <<gaveUp, hitches>>
     \/ /\ Hitch("requests")
        /\ page' = [page EXCEPT !.pc = "stopped"] /\ gaveUp' = TRUE
        /\ UNCHANGED asked
  /\ UNCHANGED <<writer, link, got, gap, blind>>

\* A status request is read by the server, and its answer arrives later.
ReadStatus(s) ==
  /\ asked[s] = "asked"
  /\ asked' = [asked EXCEPT ![s] = State]
  /\ UNCHANGED <<writer, link, page, got, gap, blind, gaveUp, hitches>>

Snapshot(s) ==
  /\ asked[s] \notin {Free, "asked"}
  /\ page' = [page EXCEPT !.shown = Shown(asked[s])]
  /\ asked' = [asked EXCEPT ![s] = Free]
  /\ UNCHANGED <<writer, link, got, gap, blind, gaveUp, hitches>>

\* A refresh that fails, or whose findings do, changes nothing that is shown.
RefreshFails(s) ==
  /\ asked[s] # Free /\ Hitch("requests")
  /\ asked' = [asked EXCEPT ![s] = Free]
  /\ UNCHANGED <<writer, link, page, got, gap, blind, gaveUp>>
-----------------------------------------------------------------------------
Next ==
  \/ Advance \/ Pause \/ Unpause \/ (\E e \in log : PublishEvent(e))
  \/ RedisRestarts \/ Replay \/ TailStream \/ KeepAlive \/ TimesOut
  \/ Connect \/ Receive \/ Break \/ CleanClose \/ CheckTerminal
  \/ \E s \in Slots : ReadStatus(s) \/ Snapshot(s) \/ RefreshFails(s)

(* The run goes on, the server answers and closes what it must, and the page
   reads.                                                                  *)
Fairness ==
  /\ WF_evars(Advance) /\ WF_evars(Unpause)
  /\ WF_evars(Replay) /\ WF_evars(TailStream) /\ WF_evars(KeepAlive)
  /\ WF_evars(Connect) /\ WF_evars(Receive) /\ WF_evars(CleanClose) /\ WF_evars(CheckTerminal)
  /\ \A s \in Slots : WF_evars(ReadStatus(s)) /\ WF_evars(Snapshot(s))

Spec == Init /\ [][Next]_evars /\ Fairness
-----------------------------------------------------------------------------
\* Up to the last entry it has received, a page misses exactly those that were
\* gone when a connection came to read them, across broken and timed-out
\* connections, unless one of them found nothing to replay; and what was gone had
\* Cap newer entries, or went with a restart of Redis (events/stream.py, and the
\* note of _event_stream).
Gapless ==
  /\ ~blind => got = (1 .. page.lastId) \ gap
  /\ \A i \in gap : i <= Len(stream) - Cap \/ i <= forgot

\* Even if the event that ends the run is never published, the watch ends, and
\* the page comes to show the run's end and keeps showing it whatever snapshot
\* arrives late, unless the watch ended on a status request that failed or on
\* the third failure in a row (checkTerminal, supersedes, streamRunEvents).
PageSettles == <>[](page.pc = "stopped" /\ (page.shown = Final \/ gaveUp))
=============================================================================
