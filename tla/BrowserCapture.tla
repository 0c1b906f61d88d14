---------------------------- MODULE BrowserCapture ----------------------------
(***************************************************************************)
(* The browser session of a runtime capture (capture/driver.py, cdp.py and *)
(* interaction.py): one thread attaches to the targets of a headless       *)
(* browser, asks for the source of every script as it is announced,        *)
(* scrolls and clicks through the page, and walks the page's links.        *)
(*                                                                         *)
(* The browser is external: it carries out each session's orders in turn,  *)
(* and the news of one sender arrives in the order it was sent.            *)
(***************************************************************************)
EXTENDS Integers, Sequences, FiniteSets

CONSTANTS
  Scripts,    \* [target, doc, text]: run by the target's doc-th document
  Routes,     \* bound: links the seed page shows, capture_max_routes of them
  Acts,       \* bound: scrolls and clicks of a page
  MaxScripts, \* capture_max_scripts
  Upsets      \* bound: targets that end, navigations of the page's own,
              \* browsers that die

Workers == {s.target : s \in Scripts} \ {"page"}
Targets == {"page"} \cup Workers
Senders == Targets \cup {"browser"}

CaptureConstantsOK ==
  /\ \A s \in Scripts : s.doc \in Nat \ {0}
  /\ Upsets \subseteq [ends : Nat, moves : Nat, deaths : Nat]

VARIABLES
  target,   \* browser: each target, [life, debug, doc]
  ran,      \* browser: scripts that ran
  orders,   \* commands on their way to each session
  news,     \* events and replies on their way to the driver, by sender
  drive,    \* driver: [step, route, acts, want, moved]
  parsed,   \* driver: scripts announced to it (parsed_keys)
  pending,  \* driver: scripts whose source it waits for (pending_fetch)
  out,      \* driver: texts captured (out, seen_sha)
  detached, \* driver: targets it knows to be gone
  blocked,  \* driver: nav_error is set
  excused,  \* history: scripts whose context ended before it was known to the driver
  upsets    \* what is left of the bound

browser == <<target, ran>>
found == <<parsed, pending, out, detached, blocked>>
cvars == <<target, ran, orders, news, drive, found, excused, upsets>>

Init ==
  /\ target = [t \in Targets |-> [life |-> "absent", debug |-> FALSE, doc |-> 0]]
  /\ ran = {}
  /\ orders = [t \in Targets |-> <<>>]
  /\ news = [t \in Senders |-> <<>>]
  /\ drive = [step |-> "load", route |-> 0, acts |-> 0, want |-> 0, moved |-> FALSE]
  /\ parsed = {} /\ pending = {} /\ out = {} /\ detached = {} /\ blocked = FALSE
  /\ excused = {} /\ upsets \in Upsets

Upset(what) == upsets[what] > 0 /\ upsets' = [upsets EXCEPT ![what] = @ - 1]
Dead == [t \in Targets |-> [life |-> "dead", debug |-> FALSE, doc |-> 0]]
Tell(from, n) == news' = [news EXCEPT ![from] = Append(@, n)]
Holds(q, x) == \E i \in 1..Len(q) : q[i] = x

\* The browser is killed when the session is over, however it ends.
Ended == drive.step \in {"over", "raised", "interrupted"}
Alive == target["page"].life # "dead" /\ ~Ended
InDocument(s) == target[s.target].life = "running" /\ target[s.target].doc = s.doc
OfPage(d) == {s \in Scripts : s.target = "page" /\ s.doc = d}
-----------------------------------------------------------------------------
(* The browser. *)

\* A target starts, paused, once it is auto-attached; workers start from the page.
Attach(t) ==
  /\ Alive /\ target[t].life = "absent"
  /\ t \in Workers => target["page"].life = "running"
  /\ target' = [target EXCEPT ![t] = [life |-> "paused", debug |-> FALSE,
                                      doc |-> IF t = "page" THEN 0 ELSE 1]]
  /\ Tell("browser", <<"attached", t>>)
  /\ UNCHANGED <<ran, orders, drive, found, excused, upsets>>

RunScript(s) ==
  /\ Alive /\ InDocument(s) /\ s \notin ran
  /\ ran' = ran \cup {s}
  /\ IF target[s.target].debug THEN Tell(s.target, <<"parsed", s>>) ELSE UNCHANGED news
  /\ UNCHANGED <<target, orders, drive, found, excused, upsets>>

\* The head of a session's orders is carried out and answered.
Answered(t, reply) ==
  /\ orders' = [orders EXCEPT ![t] = Tail(@)]
  /\ IF reply = <<>> THEN UNCHANGED news ELSE Tell(t, reply)

CarryOut(t) ==
  LET order == Head(orders[t])
      x == target[t]
  IN
  /\ Alive /\ orders[t] # <<>>
  /\ \/ /\ order[1] = "enable" /\ x.life # "gone"
        /\ target' = [target EXCEPT ![t].debug = TRUE]
        /\ Answered(t, <<>>)
     \/ /\ order[1] = "release" /\ x.life # "gone"
        /\ target' = [target EXCEPT ![t].life = "running"]
        /\ Answered(t, <<>>)
     \/ /\ order[1] = "source"
        /\ \/ Answered(t, <<"source", order[2], x.life # "gone" /\ x.doc = order[2].doc>>)
           \/ x.life = "gone" /\ Answered(t, <<>>)
        /\ UNCHANGED target
     \/ /\ order[1] = "go" /\ x.life # "gone"
        /\ \/ /\ target' = [target EXCEPT ![t].doc = @ + 1]
              /\ Answered(t, <<"ack", order[2], TRUE>>)
           \/ Answered(t, <<"ack", order[2], FALSE>>) /\ UNCHANGED target
     \/ /\ order[1] = "eval" /\ x.life # "gone"
        /\ Answered(t, <<"ack", order[2], TRUE>>) /\ UNCHANGED target
     \/ /\ x.life = "gone" /\ order[1] # "source"
        /\ Answered(t, <<>>) /\ UNCHANGED target
  /\ UNCHANGED <<ran, drive, found, excused, upsets>>

\* The page leaves its document by itself, or by a click.
PageMoves ==
  /\ Alive /\ target["page"].life = "running" /\ target["page"].doc > 0 /\ Upset("moves")
  /\ target' = [target EXCEPT !["page"].doc = @ + 1]
  /\ excused' = excused \cup OfPage(target["page"].doc)
  /\ UNCHANGED <<ran, orders, news, drive, found>>

\* A worker ends, or the page crashes; the reply to an order may never come.
TargetEnds(t) ==
  /\ Alive /\ target[t].life \in {"paused", "running"} /\ Upset("ends")
  /\ target' = [target EXCEPT ![t].life = "gone"]
  /\ Tell("browser", <<"detached", t>>)
  /\ excused' = excused \cup {s \in Scripts : s.target = t}
  /\ UNCHANGED <<ran, orders, drive, found>>

\* The browser dies, and the connection closes.
BrowserDies ==
  /\ Alive /\ Upset("deaths")
  /\ target' = Dead
  /\ orders' = [t \in Targets |-> <<>>]
  /\ UNCHANGED <<ran, news, drive, found, excused>>
-----------------------------------------------------------------------------
(* The driver: what it does with a message (_route). *)

Pumping == drive.step \in {"load", "eval", "settle", "collect", "going", "flush", "meta"}

\* Mutant: the target is released before its scripts are watched.
ReleaseThenWatch(go) == <<<<"release">>, <<"enable">>>> \o go

\* _on_attached: watched before it is released, so that no script is missed.
WatchThenRelease(go) == <<<<"enable">>>> \o go \o <<<<"release">>>>

OnAttached(t) ==
  LET goes == t = "page" /\ ~drive.moved IN
  /\ orders' = [orders EXCEPT ![t] =
                  @ \o WatchThenRelease(IF goes THEN <<<<"go", 0>>>> ELSE <<>>)]
  /\ drive' = [drive EXCEPT !.moved = @ \/ goes]
  /\ UNCHANGED <<found, excused>>

(* The context of a script that is announced this late is gone, or an order
   to leave it is on its way; or the browser session is as good as over.   *)
TooLate(s) ==
  \/ s.target = "page" /\ target["page"].doc # s.doc
  \/ s.target = "page" /\ \E i \in 1..Len(orders["page"]) : orders["page"][i][1] = "go"
  \/ drive.step = "meta"

AtCap == Cardinality(parsed) >= MaxScripts

\* _on_parsed: the source is asked for at once, below the cap.
OnParsed(s) ==
  /\ IF AtCap
       THEN UNCHANGED <<parsed, pending, orders>>
       ELSE /\ parsed' = parsed \cup {s}
            /\ IF s.target \in detached
                 THEN UNCHANGED <<pending, orders>>
                 ELSE /\ pending' = pending \cup {s}
                      /\ orders' = [orders EXCEPT ![s.target] = Append(@, <<"source", s>>)]
  /\ excused' = IF TooLate(s) THEN excused \cup {s} ELSE excused
  /\ UNCHANGED <<drive, out, detached, blocked>>

\* _on_source: the same text is kept once.
OnSource(s, ok) ==
  /\ pending' = pending \ {s}
  /\ out' = IF s \in pending /\ ok THEN out \cup {s.text} ELSE out
  /\ UNCHANGED <<orders, drive, parsed, detached, blocked, excused>>

Owed(p, t) == {s \in p : s.target # t}

OnDetached(t) ==
  /\ detached' = detached \cup {t}
  /\ pending' = Owed(pending, t)
  /\ UNCHANGED <<orders, drive, parsed, out, blocked, excused>>

\* What the driver does once its wait is over.
WaitOver(step) == CASE step \in {"eval", "going"} -> "settle"
                 [] step = "collect" -> "next"
                 [] step = "meta" -> "over"
                 [] OTHER -> step

\* A reply: the one waited for ends the wait; the failure of the first
\* navigation is the capture's (_on_nav_ack).
OnAck(id, ok) ==
  /\ blocked' = (blocked \/ (id = 0 /\ ~ok))
  /\ drive' = IF id > 0 /\ id = drive.want THEN [drive EXCEPT !.step = WaitOver(@)] ELSE drive
  /\ UNCHANGED <<orders, parsed, pending, out, detached, excused>>

\* The driver answers these, and to send on a closed connection raises.
Asks(n) ==
  \/ n[1] = "attached"
  \/ n[1] = "parsed" /\ ~AtCap /\ n[2].target \notin detached

Receive(from) ==
  LET n == Head(news[from]) IN
  /\ Pumping /\ ~blocked /\ news[from] # <<>>
  /\ Alive \/ ~Asks(n)
  /\ news' = [news EXCEPT ![from] = Tail(@)]
  /\ CASE n[1] = "attached" -> OnAttached(n[2])
       [] n[1] = "parsed"   -> OnParsed(n[2])
       [] n[1] = "source"   -> OnSource(n[2], n[3])
       [] n[1] = "detached" -> OnDetached(n[2])
       [] n[1] = "ack"      -> OnAck(n[2], n[3])
  /\ UNCHANGED <<browser, upsets>>

\* An exception ends the session: nothing is returned.
Aborts(step) ==
  /\ drive' = [step |-> step, route |-> 0, acts |-> 0, want |-> 0, moved |-> TRUE]
  /\ target' = Dead /\ ran' = {}
  /\ orders' = [t \in Targets |-> <<>>] /\ news' = [t \in DOMAIN news |-> <<>>]
  /\ parsed' = {} /\ pending' = {} /\ detached' = {} /\ excused' = {}
  /\ UNCHANGED <<out, blocked, upsets>>

ReceiveRaises(from) ==
  /\ Pumping /\ ~blocked /\ news[from] # <<>> /\ ~Alive /\ Asks(Head(news[from]))
  /\ Aborts("raised")
-----------------------------------------------------------------------------
(* The driver: what it does next (_drive, interaction.run). *)

\* _settled: everything the driver asked for has come, and the page is quiet.
Settled == drive.moved /\ parsed # {} /\ pending = {}

\* What follows a phase: with interaction or without; the next scroll or
\* click or the end of this page; nothing more of it at the cap (_stop).
After ==
  CASE drive.step = "load" ->
         IF drive.moved /\ ~blocked THEN {"act", "generator"} ELSE {"generator"}
    [] drive.step = "settle" ->
         IF AtCap THEN {"flush"} ELSE {"leave"} \cup (IF drive.acts < Acts THEN {"act"} ELSE {})
    [] drive.step = "flush" -> {"generator"}

PhaseEnds ==
  /\ drive.step \in {"load", "settle", "flush"}
  /\ \E step \in After : drive' = [drive EXCEPT !.step = step]
  /\ blocked' = (blocked \/ (drive.step = "load" /\ ~drive.moved))
  /\ UNCHANGED <<browser, orders, news, parsed, pending, out, detached, upsets>>

PhaseSettles == Settled /\ PhaseEnds /\ UNCHANGED excused

\* The phase or the session is out of time, the connection is closed, or the
\* first navigation failed: sources still to come may be left behind.
PhaseTimesOut == PhaseEnds /\ excused' = excused \cup pending

\* As above: there is no result, and no link to follow.
ReplyTimesOut ==
  /\ drive.step \in {"eval", "going", "collect", "meta"}
  /\ drive' = [drive EXCEPT !.step = IF @ = "collect" THEN "flush" ELSE WaitOver(@)]
  /\ excused' = excused \cup pending
  /\ UNCHANGED <<browser, orders, news, found, upsets>>

(* A command to the page, which the driver waits for: none is sent to a page
   that is known to be gone (evaluate, navigate_page).                     *)
NoPage == "page" \in detached \/ ~drive.moved

Sends(order, d, waits, skips) ==
  IF ~NoPage /\ ~Alive THEN Aborts("raised")
  ELSE /\ IF NoPage
            THEN drive' = [d EXCEPT !.step = skips] /\ UNCHANGED orders
            ELSE /\ orders' = [orders EXCEPT !["page"] = Append(@, <<order, d.want + 1>>)]
                 /\ drive' = [d EXCEPT !.step = waits, !.want = @ + 1]
       /\ UNCHANGED <<browser, news, found, excused, upsets>>

\* _autoscroll, _click_all: one scroll, snapshot or click.
Act ==
  /\ drive.step = "act"
  /\ Sends("eval", [drive EXCEPT !.acts = @ + 1], "eval", "settle")

\* _collect_routes, once the seed page is done.
CollectRoutes ==
  /\ drive.step = "leave" /\ drive.route = 0
  /\ Sends("eval", drive, "collect", "flush")

NextRoute ==
  /\ drive.step = "next" \/ (drive.step = "leave" /\ drive.route > 0)
  /\ drive.route < Routes
  /\ Sends("go", [drive EXCEPT !.route = @ + 1, !.acts = 0], "going", "settle")

\* There are no more links, or there is no more time.
EndRoutes ==
  /\ drive.step \in {"leave", "next"}
  /\ drive' = [drive EXCEPT !.step = "flush"]
  /\ UNCHANGED <<browser, orders, news, found, excused, upsets>>

\* The <meta name=generator> of the page is read last, whatever came before.
ReadGenerator ==
  /\ drive.step = "generator"
  /\ Sends("eval", drive, "meta", "over")

\* A beat finds the run paused or cancelled.
Interrupt ==
  /\ Pumping /\ Aborts("interrupted")
-----------------------------------------------------------------------------
Next ==
  \/ \E t \in Targets : Attach(t) \/ CarryOut(t) \/ TargetEnds(t)
  \/ \E s \in Scripts : RunScript(s)
  \/ PageMoves \/ BrowserDies
  \/ \E from \in Senders : Receive(from) \/ ReceiveRaises(from)
  \/ PhaseSettles \/ PhaseTimesOut \/ ReplyTimesOut
  \/ Act \/ CollectRoutes \/ NextRoute \/ EndRoutes \/ ReadGenerator \/ Interrupt

Spec == Init /\ [][Next]_cvars
-----------------------------------------------------------------------------
Returns == drive.step \notin {"raised", "interrupted"}

\* Every script that runs is captured: until then it is announced or asked
\* for, unless its context ended before it was, the wait for it was out of
\* time, or the cap was reached (_on_attached, _on_parsed, _settled).
NoScriptMissed == Returns => \A s \in ran :
  \/ s.text \in out \/ s \in excused \/ AtCap
  \/ Holds(news[s.target], <<"parsed", s>>)
  \/ s \in pending /\ drive.step # "over"
=============================================================================
