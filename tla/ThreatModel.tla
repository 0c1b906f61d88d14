----------------------------- MODULE ThreatModel -----------------------------
(***************************************************************************)
(* The generation of a session's threat model (threat_model/service.py and *)
(* router.py, llm/calls.py): a request resets the session's one row and    *)
(* queues a background task; the task claims the row, makes one paid call  *)
(* to the language model and stores what came back.                        *)
(*                                                                         *)
(* A step is one transaction, or one statement of the request's, which     *)
(* reads the row and writes it back without a lock.                        *)
(***************************************************************************)
EXTENDS Integers, FiniteSets

CONSTANTS
  Gens,     \* requests at a time, each with the task it may queue
  Failures  \* bound: restarts, generations slower than five minutes, failed
            \* writes of a result, deletions of the session

ConstantsOK == Failures \subseteq [restarts : Nat, slow : Nat, writes : Nat, deletes : Nat]

VARIABLES
  row,      \* the session_threat_model row; its status is "none" before there is one,
            \* and "gone" when its session is deleted
  gen,      \* each request and its task
  latest,   \* history: the generation that claimed the row last
  overrun,  \* history: the row was last reset while a generation was at work
  kept,     \* history: it was last reset by a request that had read it before the
            \* call it held was linked
  failures  \* what is left of the bound

tvars == <<row, gen, latest, overrun, kept, failures>>

(* age: the row was last updated five minutes ago.  threats and call name
   the generation they come from; call is llm_call_id.  seen: what the
   request has read of the row.                                            *)
NoRow == [status |-> "none", age |-> FALSE, threats |-> "none", call |-> "none"]
Read(r) == [status |-> r.status, call |-> r.call]
NoGen == [pc |-> "idle", seen |-> Read(NoRow)]

Init ==
  /\ row = NoRow
  /\ gen = [g \in Gens |-> NoGen]
  /\ latest = "none" /\ overrun = FALSE /\ kept = FALSE
  /\ failures \in Failures

At(g, pc) == gen[g].pc = pc
Becomes(g, pc) == gen' = [gen EXCEPT ![g].pc = pc]
Ends(g) == gen' = [gen EXCEPT ![g] = NoGen]
Fails(what) == failures[what] > 0 /\ failures' = [failures EXCEPT ![what] = @ - 1]

Working == {g \in Gens : gen[g].pc \in {"context", "link", "call", "store", "fail"}}
HasRow == row.status \notin {"none", "gone"}
-----------------------------------------------------------------------------
(* trigger_generation: the row is read, and reset unless a generation is
   pending or has run for less than five minutes.                          *)

\* Mutant: a generation that is running is never reset.
MayResetNever(r) == r.status \notin {"pending", "gone", "running"}

MayReset(r) == r.status \notin {"pending", "gone"} /\ (r.status = "running" => r.age)

TriggerReads(g) ==
  /\ At(g, "idle")
  /\ \/ /\ MayReset(row)
        /\ gen' = [gen EXCEPT ![g] = [pc |-> "reset", seen |-> Read(row)]]
     \/ /\ row.status = "pending"
        /\ Becomes(g, "queued")
  /\ UNCHANGED <<row, latest, overrun, kept, failures>>

(* The flush writes the columns whose new value differs from what was read.
   The status does, and updated_at; llm_call_id only if a call was linked by
   then.  The threats stay until others replace them.                      *)
ResetRow(r, seen) == [r EXCEPT !.status = "pending", !.age = FALSE,
                               !.call = IF seen.call = "none" THEN @ ELSE "none"]

LinkedSince(r, seen) == seen.call = "none" /\ r.call # "none"

(* The write, whatever the row has become since: only a second insert, and
   an update of a row that is gone, fail.  The router queues the task.     *)
TriggerWrites(g) ==
  /\ At(g, "reset")
  /\ IF gen[g].seen.status = "none"
       THEN IF row.status = "none"
              THEN row' = [NoRow EXCEPT !.status = "pending"] /\ Becomes(g, "queued")
              ELSE Ends(g) /\ UNCHANGED row
       ELSE IF HasRow THEN row' = ResetRow(row, gen[g].seen) /\ Becomes(g, "queued")
            ELSE Ends(g) /\ UNCHANGED row
  /\ IF gen'[g].pc = "queued"
       THEN overrun' = (Working # {}) /\ kept' = LinkedSince(row, gen[g].seen)
       ELSE UNCHANGED <<overrun, kept>>
  /\ UNCHANGED <<latest, failures>>
-----------------------------------------------------------------------------
(* run_generation. *)

\* Mutant: the task takes the row whatever its status is.
MayClaimAny == HasRow

MayClaim == row.status = "pending"

\* One UPDATE ... WHERE status = 'pending'.
ClaimRow(g) ==
  /\ At(g, "queued")
  /\ IF MayClaim
       THEN /\ row' = [row EXCEPT !.status = "running", !.age = FALSE]
            /\ latest' = g
            /\ Becomes(g, "context")
       ELSE Ends(g) /\ UNCHANGED <<row, latest>>
  /\ UNCHANGED <<overrun, kept, failures>>

\* _assemble_context and run_choice.resolve: no completed run, no key, or a
\* key that does not decrypt fail the generation.
AssembleContext(g) ==
  /\ At(g, "context")
  /\ Becomes(g, "link") \/ Becomes(g, "fail")
  /\ UNCHANGED <<row, latest, overrun, kept, failures>>

\* _link_llm_call: before the call, whatever the row's status is.
LinkCall(g) ==
  /\ At(g, "link")
  /\ row' = IF HasRow THEN [row EXCEPT !.call = g] ELSE row
  /\ Becomes(g, "call")
  /\ UNCHANGED <<latest, overrun, kept, failures>>

(* calls.generate: the provider answers or raises.  Either is recorded, and a
   record that cannot be written is only logged: it changes nothing here.  *)
ProviderAnswers(g) ==
  /\ At(g, "call")
  /\ Becomes(g, "store") \/ Becomes(g, "fail")
  /\ UNCHANGED <<row, latest, overrun, kept, failures>>

\* _store_results: the threats are replaced and the status is done, in one
\* transaction; when it fails, the exception leaves the row running.
StoreResults(g) ==
  /\ At(g, "store")
  /\ \/ /\ row' = IF HasRow THEN [row EXCEPT !.status = "done", !.age = FALSE, !.threats = g]
                  ELSE row
        /\ UNCHANGED failures
     \/ Fails("writes") /\ UNCHANGED row
  /\ Ends(g)
  /\ UNCHANGED <<latest, overrun, kept>>

\* _set_status(failed), whatever the row's status is.
SetFailed(g) ==
  /\ At(g, "fail")
  /\ \/ /\ row' = IF HasRow THEN [row EXCEPT !.status = "failed", !.age = FALSE] ELSE row
        /\ UNCHANGED failures
     \/ Fails("writes") /\ UNCHANGED row
  /\ Ends(g)
  /\ UNCHANGED <<latest, overrun, kept>>

\* The server restarts: its requests and background tasks are gone.
Restart ==
  /\ Fails("restarts")
  /\ gen' = [g \in Gens |-> NoGen]
  /\ UNCHANGED <<row, latest, overrun, kept>>

\* Five minutes pass since the row was written: for a generation at work,
\* within the bound.
Ages ==
  /\ row.status = "running" /\ ~row.age
  /\ IF Working = {} THEN UNCHANGED failures ELSE Fails("slow")
  /\ row' = [row EXCEPT !.age = TRUE]
  /\ UNCHANGED <<gen, latest, overrun, kept>>

\* The session is deleted, and its row with it.
DeleteModel ==
  /\ HasRow /\ Fails("deletes")
  /\ row' = [NoRow EXCEPT !.status = "gone"]
  /\ UNCHANGED <<gen, latest, overrun, kept>>
-----------------------------------------------------------------------------
Generating(g) ==
  \/ TriggerWrites(g) \/ ClaimRow(g) \/ AssembleContext(g) \/ LinkCall(g)
  \/ ProviderAnswers(g) \/ StoreResults(g) \/ SetFailed(g)

Next ==
  \/ \E g \in Gens : TriggerReads(g) \/ Generating(g)
  \/ Restart \/ Ages \/ DeleteModel

(* Tasks run, time passes, and the user asks again. *)
Fairness ==
  /\ \A g \in Gens : WF_tvars(Generating(g)) /\ WF_tvars(TriggerReads(g))
  /\ WF_tvars(Ages)

Spec == Init /\ [][Next]_tvars /\ Fairness
-----------------------------------------------------------------------------
\* However many tasks are queued, one paid call is made at a time, and a finished
\* row shows the threats and the call of the generation that claimed it last,
\* unless the row was reset under one at work.  Until then it shows no call but
\* that generation's own, and none while it waits, unless the request that reset
\* it had read it before another's call was linked: its flush leaves that call in
\* place (trigger_generation, run_generation, _link_llm_call, _store_results).
OneGeneration == ~overrun =>
  /\ Cardinality(Working) <= 1
  /\ row.status = "done" => row.threats = latest /\ row.call = latest
  /\ ~kept => /\ row.call \in {"none", latest}
              /\ row.status = "pending" => row.call = "none"

\* However it was interrupted, a generation that is asked for again ends
\* (the five minutes of trigger_generation).
GenerationEnds == []<>(row.status \in {"none", "done", "failed", "gone"})
=============================================================================
