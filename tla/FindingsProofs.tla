---------------------------- MODULE FindingsProofs ----------------------------
(***************************************************************************)
(* Theorems about the parts of Findings, one after the other, and then of  *)
(* every behaviour of the composition: the spec diff, for any endpoints,   *)
(* documents and rules and any number of tasks; the discover stage; the    *)
(* matcher of the correlate stage; the browser capture; and the chunks of  *)
(* a bundle.                                                               *)
(***************************************************************************)
EXTENDS Findings, FiniteSetTheorems, SequenceTheorems, WellFoundedInduction, TLAPS

(* What a verdict may not be, of one endpoint. *)
Sound(v, e) == IsShadow(v.reason) /\ ~v.misled => ~IsDocumented(e, v.spec)

Refs == DOMAIN Bodies \union {NoSpec}
Reasons == {"none", "non-http", "partial", "documented", "suffix-verify",
            "undocumented-method", "undocumented-path"}
Verdicts == [reason : Reasons, spec : Refs, misled : BOOLEAN]
Pcs == {"idle", "read", "rows", "context", "commit"}
Task == [pc : Pcs, attaches : BOOLEAN, spec : Refs, rows : SUBSET Endpoints,
         verdicts : [Endpoints -> Verdicts], alone : BOOLEAN]

(* The verdicts a task holds are sound before they are stored: what they are
   made of may change in between, what they say of their document does not. *)
SInv ==
  /\ spec \in Refs
  /\ occ \subseteq UNION Assets
  /\ task \in [Tasks -> Task]
  /\ verdict \in [Endpoints -> Verdicts]
  /\ \A t \in Tasks : task[t].pc \in {"rows", "context", "commit"} => task[t].spec \in DOMAIN Bodies
  /\ \A t \in Tasks, e \in Endpoints : Sound(task[t].verdicts[e], e)
  /\ \A e \in Endpoints : Sound(verdict[e], e)
-----------------------------------------------------------------------------
(* classify_operation: a path that spells the real one of a documented
   operation is not a shadow, for it is found, or what it ends in is.      *)
LEMMA SpelledIsNoShadow ==
  ASSUME NEW e \in Endpoints, NEW docs, NEW path, NEW d \in docs,
         d.method = e.method, Key(d.path) = Key(e.real),
         IsPartial(path) \/ Spells(path, e.real)
  PROVE  ~IsShadow(Classify(e.method, path, docs))
<1>1. CASE e.method \notin HttpMethods
  BY <1>1 DEF Classify, IsShadow
<1>2. CASE e.method \in HttpMethods /\ IsPartial(path)
  BY <1>2 DEF Classify, IsShadow
<1>3. CASE e.method \in HttpMethods /\ ~IsPartial(path)
  <2>1. CASE Key(path) = Key(e.real)
    BY <1>3, <2>1 DEF Classify, IsShadow
  <2>2. CASE IsProperSuffix(Key(path), Key(e.real))
    <3>1. Overlap(Key(path), Key(d.path))
      BY <2>2 DEF Overlap
    <3> QED  BY <1>3, <3>1 DEF Classify, IsShadow
  <2> QED  BY <1>3, <2>1, <2>2 DEF Spells
<1> QED  BY <1>1, <1>2, <1>3

(* _classify_session: the path that is classified is the finding's own, what
   follows its variable, or the finding's after a base: each of them spells
   the real one unless it is unknown or the rule misleads.                 *)
LEMMA ClassifiedSpells ==
  ASSUME NEW e \in Endpoints,
         Captured(e) \/ \A r \in Rebasing(e) : ~Misleads(r, e)
  PROVE  IsPartial(ClassifiedPath(e)) \/ Spells(ClassifiedPath(e), e.real)
<1>1. CASE Captured(e)
  BY <1>1, SpecDiffConstants DEF ClassifiedPath, SpecDiffAssumption
<1>2. CASE ~Captured(e) /\ Rebasing(e) = {}
  BY <1>2, SpecDiffConstants DEF ClassifiedPath, SpecDiffAssumption
<1>3. CASE ~Captured(e) /\ Rebasing(e) # {}
  <2> DEFINE r == CHOOSE x \in Rebasing(e) : TRUE
  <2>1. r \in Rebasing(e)
    BY <1>3
  <2>2. ClassifiedPath(e) = Join(r, e.path)
    BY <1>3 DEF ClassifiedPath
  <2>3. Spells(r.base \o e.path, e.real)
    BY <1>3, <2>1 DEF Misleads
  <2>4. ClassifiedPath(e) \in {e.path, r.base \o e.path}
    BY <2>2 DEF Join
  <2> QED  BY <2>3, <2>4, SpecDiffConstants DEF SpecDiffAssumption
<1> QED  BY <1>1, <1>2, <1>3

LEMMA JudgeSound ==
  ASSUME NEW e \in Endpoints, NEW ref \in DOMAIN Bodies
  PROVE  Judge(e, ref) \in Verdicts /\ Sound(Judge(e, ref), e)
<1> DEFINE docs == Documented(Bodies[ref])
<1>1. Judge(e, ref) \in Verdicts
  BY DEF Judge, Verdicts, Classify, Reasons, Refs
<1>2. ASSUME ~Judge(e, ref).misled, IsDocumented(e, ref)
      PROVE  ~IsShadow(Judge(e, ref).reason)
  <2>1. Captured(e) \/ \A r \in Rebasing(e) : ~Misleads(r, e)
    BY <1>2 DEF Judge
  <2>2. IsPartial(ClassifiedPath(e)) \/ Spells(ClassifiedPath(e), e.real)
    BY <2>1, ClassifiedSpells
  <2>3. PICK d \in docs : d.method = e.method /\ Key(d.path) = Key(e.real)
    BY <1>2 DEF IsDocumented
  <2>4. ~IsShadow(Classify(e.method, ClassifiedPath(e), docs))
    <3> HIDE DEF docs
    <3> QED  BY <2>2, <2>3, SpelledIsNoShadow
  <2> QED  BY <2>4 DEF Judge
<1>3. Judge(e, ref).spec = ref
  BY DEF Judge
<1> QED  BY <1>1, <1>2, <1>3 DEF Sound
-----------------------------------------------------------------------------
LEMMA UnjudgedSound ==
  /\ NoVerdicts \in [Endpoints -> Verdicts]
  /\ \A e \in Endpoints : Sound(NoVerdicts[e], e)
BY DEF NoVerdicts, Unjudged, Verdicts, Reasons, Refs, Sound, IsShadow, NoSpec

LEMMA AtRestTask == AtRest \in Task
BY UnjudgedSound DEF AtRest, Task, Pcs, Refs, NoSpec

LEMMA InitSInv == Init => SInv
<1> SUFFICES ASSUME Init PROVE SInv
  OBVIOUS
<1>1. task = [t \in Tasks |-> AtRest] /\ verdict = NoVerdicts /\ spec = NoSpec /\ occ = {}
  BY DEF Init
<1>2. AtRest.pc = "idle" /\ AtRest.verdicts = NoVerdicts
  BY DEF AtRest
<1> QED  BY <1>1, <1>2, UnjudgedSound, AtRestTask DEF SInv, Refs

(* A task begins with no verdicts, and the others only cease to be alone. *)
LEMMA BeginsKeeps ==
  ASSUME SInv, NEW t \in Tasks, NEW new \in Task,
         new.verdicts = NoVerdicts, new.pc \in {"rows", "context", "commit"} => new.spec \in DOMAIN Bodies,
         Begins(t, new), UNCHANGED <<spec, occ, verdict>>
  PROVE  SInv'
<1> DEFINE left == \A u \in Others(t) : Idle(u)
<1>1. left \in BOOLEAN
  OBVIOUS
<1> HIDE DEF left
<1>2. task' = [Disturbed(task) EXCEPT ![t] = [new EXCEPT !.alone = left]]
  BY DEF Begins, left
<1>3. /\ task' \in [Tasks -> Task]
      /\ \A u \in Tasks \ {t} : /\ task'[u].pc = task[u].pc /\ task'[u].spec = task[u].spec
                                /\ task'[u].verdicts = task[u].verdicts
      /\ task'[t].pc = new.pc /\ task'[t].spec = new.spec /\ task'[t].verdicts = NoVerdicts
  BY <1>1, <1>2 DEF SInv, Disturbed, Task
<1> QED  BY <1>3, UnjudgedSound DEF SInv

(* A task goes on to a state of its own that is sound. *)
LEMMA GoesOnKeeps ==
  ASSUME SInv, NEW t \in Tasks, NEW new \in Task,
         new.pc \in {"rows", "context", "commit"} => new.spec \in DOMAIN Bodies,
         \A e \in Endpoints : Sound(new.verdicts[e], e),
         task' = [task EXCEPT ![t] = new],
         spec' \in Refs, occ' = occ,
         verdict' \in [Endpoints -> Verdicts],
         \A e \in Endpoints : verdict'[e] \in {verdict[e], task[t].verdicts[e]}
  PROVE  SInv'
<1>1. task' \in [Tasks -> Task]
  BY DEF SInv
<1>2. task'[t] = new /\ \A u \in Tasks \ {t} : task'[u] = task[u]
  BY DEF SInv
<1>3. \A e \in Endpoints : Sound(verdict'[e], e)
  BY DEF SInv
<1> QED  BY <1>1, <1>2, <1>3 DEF SInv
-----------------------------------------------------------------------------
LEMMA NextSInv == SInv /\ [Next]_dvars => SInv'
<1> SUFFICES ASSUME SInv, [Next]_dvars PROVE SInv'
  OBVIOUS
<1>1. CASE UNCHANGED dvars
  BY <1>1 DEF SInv, dvars
<1>2. ASSUME NEW t \in Tasks, NEW ref \in DOMAIN Bodies, Attach(t, ref) PROVE SInv'
  <2> DEFINE new == [AtRest EXCEPT !.pc = "rows", !.attaches = TRUE, !.spec = ref]
  <2>1. new \in Task /\ new.verdicts = NoVerdicts /\ new.spec \in DOMAIN Bodies
    BY AtRestTask DEF AtRest, Task, Pcs, Refs
  <2>2. Begins(t, new) /\ UNCHANGED <<spec, occ, verdict>>
    BY <1>2 DEF Attach
  <2> HIDE DEF new
  <2> QED  BY <2>1, <2>2, BeginsKeeps
<1>3. Reclassifying \in Task /\ Reclassifying.verdicts = NoVerdicts /\ Reclassifying.pc = "read"
  BY AtRestTask DEF Reclassifying, AtRest, Task, Pcs
<1>4. ASSUME NEW t \in Tasks, NEW rule \in Rules, AddRule(t, rule) PROVE SInv'
  <2>1. Begins(t, Reclassifying) /\ UNCHANGED <<spec, occ, verdict>>
    BY <1>4 DEF AddRule
  <2> QED  BY <1>3, <2>1, BeginsKeeps
<1>5. ASSUME NEW t \in Tasks, NEW i, DeleteRule(t, i) PROVE SInv'
  <2>1. Begins(t, Reclassifying) /\ UNCHANGED <<spec, occ, verdict>>
    BY <1>5 DEF DeleteRule
  <2> QED  BY <1>3, <2>1, BeginsKeeps
<1>6. ASSUME NEW t \in Tasks, Advance(t) PROVE SInv'
  <2>1. Begins(t, Reclassifying) /\ UNCHANGED <<spec, occ, verdict>>
    BY <1>6 DEF Advance
  <2> QED  BY <1>3, <2>1, BeginsKeeps
<1>7. AtRest.pc = "idle" /\ AtRest.verdicts = NoVerdicts
  BY DEF AtRest
<1>8. ASSUME NEW t \in Tasks, ReadSpec(t) PROVE SInv'
  <2> DEFINE new == IF spec = NoSpec THEN AtRest ELSE [task[t] EXCEPT !.pc = "rows", !.spec = spec]
  <2>1. task' = [task EXCEPT ![t] = new] /\ UNCHANGED <<spec, occ, verdict>>
    BY <1>8 DEF ReadSpec
  <2>2. new \in Task /\ (new.pc \in {"rows", "context", "commit"} => new.spec \in DOMAIN Bodies)
    BY <1>7, AtRestTask DEF SInv, Task, Pcs, Refs
  <2>3. \A e \in Endpoints : Sound(new.verdicts[e], e)
    BY <1>7, UnjudgedSound DEF SInv, Task
  <2> HIDE DEF new
  <2> QED  BY <2>1, <2>2, <2>3, GoesOnKeeps DEF SInv
<1>9. ASSUME NEW t \in Tasks, SelectEndpoints(t) PROVE SInv'
  <2> DEFINE new == [task[t] EXCEPT !.pc = "context", !.rows = Found]
  <2>1. task' = [task EXCEPT ![t] = new] /\ UNCHANGED <<spec, occ, verdict>>
    BY <1>9 DEF SelectEndpoints, SInv
  <2>2. Found \subseteq Endpoints
    BY SpecDiffConstants DEF Found, SInv
  <2>3. new \in Task /\ new.spec = task[t].spec /\ new.verdicts = task[t].verdicts
    BY <2>2 DEF SInv, Task, Pcs
  <2>4. task[t].spec \in DOMAIN Bodies
    BY <1>9 DEF SelectEndpoints, SInv
  <2> HIDE DEF new
  <2> QED  BY <2>1, <2>3, <2>4, GoesOnKeeps DEF SInv
<1>10. ASSUME NEW t \in Tasks, ClassifyEndpoints(t) PROVE SInv'
  <2> DEFINE judged == [e \in Endpoints |-> IF e \in task[t].rows THEN Judge(e, task[t].spec)
                                             ELSE Unjudged]
             new == [task[t] EXCEPT !.pc = "commit", !.verdicts = judged]
  <2>1. task' = [task EXCEPT ![t] = new] /\ UNCHANGED <<spec, occ, verdict>>
    BY <1>10 DEF ClassifyEndpoints, SInv
  <2>2. task[t].spec \in DOMAIN Bodies
    BY <1>10 DEF ClassifyEndpoints, SInv
  <2>3. judged \in [Endpoints -> Verdicts] /\ \A e \in Endpoints : Sound(judged[e], e)
    <3>1. \A e \in Endpoints : Judge(e, task[t].spec) \in Verdicts /\ Sound(Judge(e, task[t].spec), e)
      BY <2>2, JudgeSound
    <3>2. \A e \in Endpoints : Unjudged \in Verdicts /\ Sound(Unjudged, e)
      BY DEF Unjudged, Verdicts, Reasons, Refs, Sound, IsShadow
    <3> QED  BY <3>1, <3>2
  <2> HIDE DEF judged
  <2>4. new \in Task /\ new.spec = task[t].spec /\ new.verdicts = judged
    BY <2>3 DEF SInv, Task, Pcs
  <2> HIDE DEF new
  <2> QED  BY <2>1, <2>2, <2>3, <2>4, GoesOnKeeps DEF SInv
<1>11. ASSUME NEW t \in Tasks, Commit(t) PROVE SInv'
  <2>1. task' = [task EXCEPT ![t] = AtRest] /\ occ' = occ
    BY <1>11 DEF Commit
  <2>2. spec' \in Refs
    BY <1>11 DEF Commit, SInv, Task
  <2>3. task[t].verdicts \in [Endpoints -> Verdicts]
    BY DEF SInv, Task
  <2>4. /\ verdict' \in [Endpoints -> Verdicts]
        /\ \A e \in Endpoints : verdict'[e] \in {verdict[e], task[t].verdicts[e]}
    BY <1>11, <2>3 DEF Commit, SInv
  <2> QED  BY <1>7, <2>1, <2>2, <2>4, AtRestTask, UnjudgedSound, GoesOnKeeps
<1>12. ASSUME NEW t \in Tasks, Rollback(t) PROVE SInv'
  <2>1. task' = [task EXCEPT ![t] = AtRest] /\ UNCHANGED <<spec, occ, verdict>>
    BY <1>12 DEF Rollback
  <2> QED  BY <1>7, <2>1, AtRestTask, UnjudgedSound, GoesOnKeeps DEF SInv
<1>13. CASE RunStarts
  BY <1>13 DEF RunStarts, SInv
<1>14. ASSUME NEW occurrences \in Assets, Records(occurrences) PROVE SInv'
  BY <1>14 DEF Records, SInv
<1>15. ASSUME NEW occurrences \in Assets, Reextracts(occurrences) PROVE SInv'
  BY <1>15 DEF Reextracts, Disturbed, SInv, Task
<1>16. CASE RunStops
  BY <1>16 DEF RunStops, Disturbed, SInv, Task
<1> QED
  BY <1>1, <1>2, <1>4, <1>5, <1>6, <1>8, <1>9, <1>10, <1>11, <1>12, <1>13, <1>14,
     <1>15, <1>16 DEF Next

LEMMA ShadowsInductive == Init /\ [][Next]_dvars => []NoFalseShadow
<1>1. SInv => NoFalseShadow
  BY DEF SInv, Sound, NoFalseShadow
<1> QED  BY <1>1, InitSInv, NextSInv, PTL
-----------------------------------------------------------------------------
(* The verdicts are those the session's spec, rules and occurrences give. *)

Current == \A e \in Found : verdict[e] = Judge(e, spec)

(* A task that is alone has the others at rest.  Outside a run, what it has
   read is what there is: the spec it reclassifies by, the endpoints, and what
   its verdicts are made of.                                               *)
AloneInv == \A t \in Tasks : task[t].alone =>
  /\ ~Idle(t) /\ \A u \in Others(t) : Idle(u)
  /\ task[t].pc \in {"rows", "context", "commit"} /\ ~task[t].attaches => task[t].spec = spec
  /\ task[t].pc \in {"context", "commit"} /\ ~working => task[t].rows = Found
  /\ task[t].pc = "commit" /\ ~working =>
       \A e \in Found : task[t].verdicts[e] = Judge(e, task[t].spec)

(* Verdicts are current already while only an attachment is at work: it may
   be rolled back, and leaves them as they were.                           *)
CurrentInv ==
  spec # NoSpec /\ ~working /\ ~stale /\ (\A t \in Tasks : Idle(t) \/ task[t].attaches) => Current

VInv == AloneInv /\ CurrentInv

LEMMA SameJudge ==
  ASSUME UNCHANGED <<occ, rules>>, NEW e, NEW ref
  PROVE  Judge(e, ref)' = Judge(e, ref)
BY DEF Judge, ClassifiedPath, Captured, Rebasing, HasHost, Found

LEMMA SameFound == ASSUME UNCHANGED occ PROVE Found' = Found
BY DEF Found

(* Once disturbed, no task is alone. *)
LEMMA DisturbedApart ==
  ASSUME SInv, task' = Disturbed(task)
  PROVE  AloneInv'
<1>1. \A t \in Tasks : task'[t].alone = FALSE
  BY DEF Disturbed, SInv, Task
<1> QED  BY <1>1 DEF AloneInv

(* Of the tasks only the one that begins can be alone, if it has read nothing
   yet, or no more than a document.                                        *)
LEMMA BeginsAlone ==
  ASSUME SInv, NEW t \in Tasks, NEW new \in Task, Begins(t, new),
         new.pc = "read" \/ (new.pc = "rows" /\ new.attaches)
  PROVE  AloneInv' /\ task'[t].pc = new.pc /\ task'[t].attaches = new.attaches
         /\ \A u \in Others(t) : (Idle(u)' = Idle(u)) /\ task'[u].attaches = task[u].attaches
<1> DEFINE left == \A u \in Others(t) : Idle(u)
<1>1. left \in BOOLEAN
  OBVIOUS
<1>2. task' = [Disturbed(task) EXCEPT ![t] = [new EXCEPT !.alone = left]]
  BY DEF Begins
<1> HIDE DEF left
<1>3. /\ task'[t].pc = new.pc /\ task'[t].attaches = new.attaches /\ task'[t].alone = left
      /\ \A u \in Others(t) : /\ task'[u].pc = task[u].pc /\ task'[u].attaches = task[u].attaches
                              /\ task'[u].alone = FALSE
  BY <1>1, <1>2 DEF SInv, Disturbed, Task, Others
<1>4. \A u \in Others(t) : Idle(u)' = Idle(u)
  BY <1>3 DEF Idle
<1>5. left => \A u \in Others(t) : Idle(u)'
  BY <1>4 DEF left
<1>6. AloneInv'
  <2> SUFFICES ASSUME NEW u \in Tasks, task'[u].alone
               PROVE  u = t /\ left /\ task'[t].pc # "idle"
    BY <1>3, <1>5 DEF AloneInv, Idle
  <2> QED  BY <1>3 DEF Others
<1> QED  BY <1>3, <1>4, <1>6

LEMMA InitVInv == Init => VInv
BY DEF Init, VInv, AloneInv, CurrentInv, AtRest, Idle

(* One statement of a task that is at work: if any task is alone, it is. *)
LEMMA StepsAlone ==
  ASSUME SInv, VInv, NEW t \in Tasks, NEW new \in Task, ~Idle(t),
         task' = [task EXCEPT ![t] = new], UNCHANGED <<rules, occ, working>>,
         new.alone => /\ task[t].alone /\ new.pc # "idle" /\ UNCHANGED spec
                      /\ new.pc \in {"rows", "context", "commit"} /\ ~new.attaches => new.spec = spec
                      /\ new.pc \in {"context", "commit"} /\ ~working => new.rows = Found
                      /\ new.pc = "commit" /\ ~working =>
                           \A e \in Found : new.verdicts[e] = Judge(e, new.spec)
  PROVE  AloneInv'
<1>1. task'[t] = new /\ \A u \in Others(t) : task'[u] = task[u]
  BY DEF SInv, Others
<1>2. Found' = Found /\ \A e \in Found : Judge(e, new.spec)' = Judge(e, new.spec)
  BY SameFound, SameJudge
<1> SUFFICES ASSUME NEW u \in Tasks, task'[u].alone
             PROVE  /\ ~Idle(u)' /\ \A v \in Others(u) : Idle(v)'
                    /\ task'[u].pc \in {"rows", "context", "commit"} /\ ~task'[u].attaches
                         => task'[u].spec = spec'
                    /\ task'[u].pc \in {"context", "commit"} /\ ~working' => task'[u].rows = Found'
                    /\ task'[u].pc = "commit" /\ ~working' =>
                         \A e \in Found' : task'[u].verdicts[e] = Judge(e, task[u].spec)'
  BY DEF AloneInv, Others
<1>3. u = t
  <2>1. CASE u # t
    <3>1. task[u].alone /\ t \in Others(u)
      BY <1>1, <2>1 DEF Others
    <3> QED  BY <3>1 DEF VInv, AloneInv
  <2> QED  BY <2>1
<1>4. \A v \in Others(t) : Idle(v)'
  <2>1. \A v \in Others(t) : Idle(v)
    BY <1>1, <1>3 DEF VInv, AloneInv
  <2> QED  BY <1>1, <2>1 DEF Idle
<1>5. ~Idle(t)'
  BY <1>1, <1>3 DEF Idle
<1> QED  BY <1>1, <1>2, <1>3, <1>4, <1>5

LEMMA NextVInv == SInv /\ VInv /\ [Next]_dvars => VInv'
<1> SUFFICES ASSUME SInv, VInv, [Next]_dvars PROVE VInv'
  OBVIOUS
<1>1. CASE UNCHANGED dvars
  <2> USE <1>1 DEF dvars, Idle, Found, Others, Judge, ClassifiedPath, Captured, Rebasing, HasHost
  <2>1. AloneInv'
    BY DEF VInv, AloneInv
  <2>2. CurrentInv'
    BY DEF VInv, CurrentInv, Current
  <2> QED  BY <2>1, <2>2 DEF VInv
<1>k. ASSUME UNCHANGED <<occ, rules, spec, verdict>>, Current PROVE Current'
  <2>1. Found' = Found /\ \A e \in Found : Judge(e, spec)' = Judge(e, spec)
    BY <1>k, SameFound, SameJudge
  <2> QED  BY <1>k, <2>1 DEF Current
<1>2. ASSUME NEW t \in Tasks, NEW ref \in DOMAIN Bodies, Attach(t, ref) PROVE VInv'
  <2> DEFINE new == [AtRest EXCEPT !.pc = "rows", !.attaches = TRUE, !.spec = ref]
  <2>1. new \in Task /\ new.pc = "rows" /\ new.attaches
    BY AtRestTask DEF AtRest, Task, Pcs, Refs
  <2>2. Begins(t, new) /\ UNCHANGED <<spec, occ, rules, verdict, working, stale>>
    BY <1>2 DEF Attach
  <2> HIDE DEF new
  <2>3. AloneInv' /\ \A u \in Others(t) : Idle(u)' = Idle(u) /\ task'[u].attaches = task[u].attaches
    BY <2>1, <2>2, BeginsAlone
  <2>4. CurrentInv'
    <3> SUFFICES ASSUME spec # NoSpec, ~working, ~stale,
                        \A u \in Tasks : Idle(u)' \/ task'[u].attaches
                 PROVE  Current'
      BY <2>2 DEF CurrentInv
    <3>1. \A u \in Tasks : Idle(u) \/ task[u].attaches
      BY <1>2, <2>3 DEF Attach, Others
    <3> QED  BY <1>k, <2>2, <3>1 DEF VInv, CurrentInv
  <2> QED  BY <2>3, <2>4 DEF VInv
<1>r. Reclassifying \in Task /\ Reclassifying.pc = "read" /\ ~Reclassifying.attaches
  BY AtRestTask DEF Reclassifying, AtRest, Task, Pcs
<1>b. ASSUME NEW t \in Tasks, Begins(t, Reclassifying) PROVE VInv'
  <2>1. AloneInv' /\ task'[t].pc = "read" /\ ~task'[t].attaches
    BY <1>r, <1>b, BeginsAlone
  <2>2. ~Idle(t)'
    BY <2>1 DEF Idle
  <2> QED  BY <2>1, <2>2 DEF VInv, CurrentInv
<1>3. ASSUME NEW t \in Tasks, NEW rule \in Rules, AddRule(t, rule) PROVE VInv'
  BY <1>b, <1>3 DEF AddRule
<1>4. ASSUME NEW t \in Tasks, NEW i, DeleteRule(t, i) PROVE VInv'
  BY <1>b, <1>4 DEF DeleteRule
<1>5. ASSUME NEW t \in Tasks, Advance(t) PROVE VInv'
  BY <1>b, <1>5 DEF Advance
<1>6. AtRest \in Task /\ AtRest.pc = "idle" /\ ~AtRest.alone
  BY AtRestTask DEF AtRest
<1>8. ASSUME NEW t \in Tasks, NEW new \in Task, task' = [task EXCEPT ![t] = new],
             new.attaches = task[t].attaches, new.pc # "idle", task[t].pc # "idle",
             UNCHANGED <<spec, occ, rules, verdict, working, stale>>
      PROVE  CurrentInv'
  <2>1. task'[t] = new /\ \A u \in Others(t) : task'[u] = task[u]
    BY <1>8 DEF SInv, Others
  <2>2. (\A u \in Tasks : Idle(u) \/ task[u].attaches)' => \A u \in Tasks : Idle(u) \/ task[u].attaches
    BY <1>8, <2>1 DEF Idle, Others
  <2> QED  BY <1>8, <1>k, <2>2 DEF VInv, CurrentInv
<1>9. ASSUME NEW t \in Tasks, ReadSpec(t) PROVE VInv'
  <2>1. ~Idle(t) /\ task[t].pc = "read"
    BY <1>9 DEF ReadSpec, Idle
  <2>2. CASE spec = NoSpec
    <3>1. task' = [task EXCEPT ![t] = AtRest] /\ UNCHANGED <<spec, rules, occ, working>>
      BY <1>9, <2>2 DEF ReadSpec
    <3>2. AloneInv'
      BY <1>6, <2>1, <3>1, StepsAlone
    <3> QED  BY <2>2, <3>1, <3>2 DEF VInv, CurrentInv
  <2>3. CASE spec # NoSpec
    <3> DEFINE new == [task[t] EXCEPT !.pc = "rows", !.spec = spec]
    <3>1. /\ task' = [task EXCEPT ![t] = new]
          /\ UNCHANGED <<spec, rules, occ, verdict, working, stale>>
      BY <1>9, <2>3 DEF ReadSpec, SInv
    <3>2. new \in Task /\ new.pc = "rows" /\ new.spec = spec /\ new.attaches = task[t].attaches
          /\ new.alone = task[t].alone
      BY DEF SInv, Task, Pcs
    <3> HIDE DEF new
    <3>3. AloneInv'
      BY <2>1, <3>1, <3>2, StepsAlone
    <3>4. CurrentInv'
      BY <1>8, <2>1, <3>1, <3>2
    <3> QED  BY <3>3, <3>4 DEF VInv
  <2> QED  BY <2>2, <2>3
<1>10. ASSUME NEW t \in Tasks, SelectEndpoints(t) PROVE VInv'
  <2> DEFINE new == [task[t] EXCEPT !.pc = "context", !.rows = Found]
  <2>1. /\ task' = [task EXCEPT ![t] = new]
        /\ UNCHANGED <<spec, rules, occ, verdict, working, stale>>
        /\ task[t].pc = "rows" /\ ~Idle(t)
    BY <1>10 DEF SelectEndpoints, SInv, Idle
  <2>2. Found \subseteq Endpoints
    BY SpecDiffConstants DEF Found, SInv
  <2>3. new \in Task /\ new.pc = "context" /\ new.rows = Found /\ new.spec = task[t].spec
        /\ new.attaches = task[t].attaches /\ new.alone = task[t].alone
    BY <2>2 DEF SInv, Task, Pcs
  <2> HIDE DEF new
  <2>4. task[t].alone /\ ~task[t].attaches => task[t].spec = spec
    BY <2>1 DEF VInv, AloneInv
  <2>5. AloneInv'
    BY <2>1, <2>3, <2>4, StepsAlone
  <2>6. CurrentInv'
    BY <1>8, <2>1, <2>3
  <2> QED  BY <2>5, <2>6 DEF VInv
<1>11. ASSUME NEW t \in Tasks, ClassifyEndpoints(t) PROVE VInv'
  <2> DEFINE judged == [e \in Endpoints |-> IF e \in task[t].rows THEN Judge(e, task[t].spec)
                                             ELSE Unjudged]
             new == [task[t] EXCEPT !.pc = "commit", !.verdicts = judged]
  <2>1. /\ task' = [task EXCEPT ![t] = new]
        /\ UNCHANGED <<spec, rules, occ, verdict, working, stale>>
        /\ task[t].pc = "context" /\ ~Idle(t)
    BY <1>11 DEF ClassifyEndpoints, SInv, Idle
  <2>2. task[t].spec \in DOMAIN Bodies /\ task[t].rows \subseteq Endpoints
    BY <1>11 DEF ClassifyEndpoints, SInv, Task
  <2>3. judged \in [Endpoints -> Verdicts]
        /\ \A e \in task[t].rows : judged[e] = Judge(e, task[t].spec)
    <3>1. \A e \in Endpoints : Judge(e, task[t].spec) \in Verdicts
      BY <2>2, JudgeSound
    <3>2. Unjudged \in Verdicts
      BY DEF Unjudged, Verdicts, Reasons, Refs
    <3> QED  BY <2>2, <3>1, <3>2
  <2> HIDE DEF judged
  <2>4. new \in Task /\ new.pc = "commit" /\ new.rows = task[t].rows /\ new.spec = task[t].spec
        /\ new.attaches = task[t].attaches /\ new.alone = task[t].alone /\ new.verdicts = judged
    BY <2>3 DEF SInv, Task, Pcs
  <2> HIDE DEF new
  <2>5. task[t].alone => /\ ~task[t].attaches => task[t].spec = spec
                         /\ ~working => task[t].rows = Found
    BY <2>1 DEF VInv, AloneInv
  <2>6. AloneInv'
    BY <2>1, <2>3, <2>4, <2>5, StepsAlone
  <2>7. CurrentInv'
    BY <1>8, <2>1, <2>4
  <2> QED  BY <2>6, <2>7 DEF VInv
<1>12. ASSUME NEW t \in Tasks, Commit(t) PROVE VInv'
  <2>1. /\ task' = [task EXCEPT ![t] = AtRest] /\ UNCHANGED <<rules, occ, working>>
        /\ task[t].pc = "commit" /\ ~Idle(t) /\ stale' = ~task[t].alone
    BY <1>12 DEF Commit, Idle
  <2>2. AloneInv'
    BY <1>6, <2>1, StepsAlone
  <2>3. CurrentInv'
    <3> SUFFICES ASSUME task[t].alone, ~working PROVE Current'
      BY <2>1 DEF CurrentInv, SInv, Task
    <3>1. /\ task[t].rows = Found
          /\ \A e \in Found : task[t].verdicts[e] = Judge(e, task[t].spec)
          /\ ~task[t].attaches => task[t].spec = spec
      BY <2>1 DEF VInv, AloneInv
    <3>2. spec' = task[t].spec
      BY <1>12, <3>1 DEF Commit
    <3>3. Found' = Found
      BY <2>1, SameFound
    <3>4. Found \subseteq Endpoints
      BY SpecDiffConstants DEF Found, SInv
    <3>5. \A e \in Found : verdict'[e] = task[t].verdicts[e]
      BY <1>12, <3>1, <3>4 DEF Commit
    <3>6. ASSUME NEW e \in Found, NEW ref, ref = task[t].spec
          PROVE  verdict'[e] = Judge(e, ref)'
      <4>1. Judge(e, ref)' = Judge(e, ref)
        BY <2>1, SameJudge
      <4> QED  BY <3>1, <3>5, <3>6, <4>1
    <3> QED  BY <3>2, <3>3, <3>6 DEF Current
  <2> QED  BY <2>2, <2>3 DEF VInv
<1>13. ASSUME NEW t \in Tasks, Rollback(t) PROVE VInv'
  <2>1. /\ task' = [task EXCEPT ![t] = AtRest] /\ ~Idle(t)
        /\ UNCHANGED <<spec, rules, occ, verdict, working>> /\ stale' = (stale \/ ~task[t].attaches)
    BY <1>13 DEF Rollback
  <2>2. AloneInv'
    BY <1>6, <2>1, StepsAlone
  <2>3. CurrentInv'
    <3> SUFFICES ASSUME spec # NoSpec, ~working, ~stale, task[t].attaches,
                        \A u \in Tasks : Idle(u)' \/ task'[u].attaches
                 PROVE  Current'
      BY <2>1 DEF CurrentInv
    <3>1. \A u \in Others(t) : task'[u] = task[u]
      BY <2>1 DEF SInv, Others
    <3>2. \A u \in Tasks : Idle(u) \/ task[u].attaches
      BY <3>1 DEF Idle, Others
    <3> QED  BY <1>k, <2>1, <3>2 DEF VInv, CurrentInv
  <2> QED  BY <2>2, <2>3 DEF VInv
<1>14. CASE RunStarts
  <2>1. working' /\ UNCHANGED <<spec, rules, occ, task>>
    BY <1>14 DEF RunStarts
  <2>2. AloneInv'
    BY <2>1 DEF VInv, AloneInv, Idle, Others
  <2> QED  BY <2>1, <2>2 DEF VInv, CurrentInv
<1>15. ASSUME NEW occurrences \in Assets, Records(occurrences) PROVE VInv'
  <2>1. working' /\ UNCHANGED <<spec, rules, task>> /\ working
    BY <1>15 DEF Records
  <2>2. AloneInv'
    BY <2>1 DEF VInv, AloneInv, Idle, Others
  <2> QED  BY <2>1, <2>2 DEF VInv, CurrentInv
<1>16. ASSUME NEW occurrences \in Assets, Reextracts(occurrences) PROVE VInv'
  BY <1>16, DisturbedApart DEF Reextracts, VInv, CurrentInv
<1>17. CASE RunStops
  BY <1>17, DisturbedApart DEF RunStops, VInv, CurrentInv
<1> QED
  BY <1>1, <1>2, <1>3, <1>4, <1>5, <1>9, <1>10, <1>11, <1>12, <1>13, <1>14,
     <1>15, <1>16, <1>17 DEF Next

LEMMA CurrentInductive == Init /\ [][Next]_dvars => []VerdictsCurrent
<1>1. VInv => VerdictsCurrent
  BY DEF VInv, CurrentInv, Current, VerdictsCurrent
<1> QED  BY <1>1, InitSInv, NextSInv, InitVInv, NextVInv, PTL
-----------------------------------------------------------------------------
(* The discover stage: its rows, its manifests, and what an execution has.   *)
FinderPcs == {"idle", "look", "browse", "bytes", "maps", "manifest", "commit", "signal", "end"}
FinderStatus == {"none", "ok", "timeout", "capped", "blocked"}
Finder == [pc : FinderPcs, found : SUBSET Url, status : FinderStatus,
           mapped : SUBSET Url, missed : SUBSET Url]
FoundManifests == [found : SUBSET Url, status : FinderStatus]

(* A row that is there stays; that of a capture has its bytes.               *)
RowsOK ==
  /\ assets = [u \in Url |-> assets[u]]
  /\ kind = "capture" => \A u \in D!Present(assets) : assets[u].fetch = "ok"

(* What an execution has stored by the time it goes on.                      *)
FinderOK(w) ==
  LET x == finder[w] IN
  /\ x \in Finder
  /\ x.pc = "commit" => D!Manifest(x) \in manifests
  /\ kind = "capture" /\ x.pc \in {"maps", "manifest", "commit"} => x.found \subseteq scripts
  /\ x.pc \in {"signal", "end"} => recorded # << >>

LastOK ==
  recorded # << >> => LET last == recorded[Len(recorded)] IN
    /\ last \in manifests
    /\ last.found \subseteq D!Present(assets)
    /\ kind = "capture" => last.found \subseteq scripts

DoneOK == over = "done" /\ kind \in {"crawl", "capture"} => recorded # << >>

DiscoverInv ==
  /\ recorded \in Seq(FoundManifests)
  /\ DOMAIN finder = Discoverers /\ finder = [w \in Discoverers |-> finder[w]]
  /\ RowsOK /\ LastOK /\ DoneOK
  /\ \A w \in Discoverers : FinderOK(w)
-----------------------------------------------------------------------------
(* Seeding leaves the rows that are there, and gives the rest of those found
   a row: a capture's with its bytes.                                      *)
LEMMA SeedingKeeps ==
  ASSUME RowsOK, NEW x \in Finder, assets' = D!Seeded(x), kind' = kind
  PROVE  /\ RowsOK'
         /\ D!Present(assets) \subseteq D!Present(assets')
         /\ x.found \subseteq D!Present(assets')
<1>1. x.found \subseteq Url
  BY DEF Finder
<1>2. CASE kind = "crawl"
  <2>1. assets' = [u \in Url |-> IF u \in x.found /\ assets[u] = D!Absent THEN D!NewRow ELSE assets[u]]
    BY <1>2 DEF D!Seeded, D!SeedPending
  <2>2. D!NewRow # D!Absent
    BY DEF D!NewRow, D!Absent
  <2>3. /\ assets' = [u \in Url |-> assets'[u]]
        /\ \A u \in Url : assets'[u] = IF u \in x.found /\ assets[u] = D!Absent THEN D!NewRow ELSE assets[u]
    BY <2>1
  <2> QED
    BY <1>1, <1>2, <2>2, <2>3 DEF RowsOK, D!Present
<1>3. CASE kind # "crawl"
  <2> DEFINE new(u) == [D!NewRow EXCEPT !.fetch = "ok", !.input = TRUE,
                          !.map = u \in x.mapped, !.skipped = u \in x.missed]
  <2>1. assets' = [u \in Url |-> IF u \in x.found /\ assets[u] = D!Absent THEN new(u) ELSE assets[u]]
    BY <1>3 DEF D!Seeded, D!SeedCaptured
  <2>2. \A u : new(u).fetch = "ok" /\ new(u) # D!Absent
    BY DEF D!NewRow, D!Absent
  <2> HIDE DEF new
  <2>3. /\ assets' = [u \in Url |-> assets'[u]]
        /\ \A u \in Url : assets'[u] = IF u \in x.found /\ assets[u] = D!Absent THEN new(u) ELSE assets[u]
    BY <2>1
  <2>4. x.found \subseteq D!Present(assets') /\ D!Present(assets) \subseteq D!Present(assets')
    BY <1>1, <2>2, <2>3 DEF D!Present
  <2>5. RowsOK'
    BY <2>2, <2>3 DEF RowsOK, D!Present
  <2> QED
    BY <2>4, <2>5
<1> QED
  BY <1>2, <1>3

(* A step that records nothing, and stores no less. *)
LEMMA OneFinds ==
  ASSUME DiscoverInv, NEW w \in Discoverers, NEW x, finder' = [finder EXCEPT ![w] = x],
         x \in Finder, kind' = kind, assets' = assets, recorded' = recorded,
         manifests \subseteq manifests', scripts \subseteq scripts',
         x.pc = "commit" => D!Manifest(x) \in manifests',
         kind = "capture" /\ x.pc \in {"maps", "manifest", "commit"} => x.found \subseteq scripts',
         x.pc \in {"signal", "end"} => recorded # << >>, DoneOK'
  PROVE  DiscoverInv'
<1>1. \A v \in Discoverers : finder'[v] = IF v = w THEN x ELSE finder[v]
  BY DEF DiscoverInv
<1>2. DOMAIN finder' = Discoverers /\ finder' = [v \in Discoverers |-> finder'[v]]
  BY DEF DiscoverInv
<1>3. RowsOK' /\ LastOK'
  BY DEF DiscoverInv, RowsOK, LastOK, D!Present
<1>4. ASSUME NEW v \in Discoverers PROVE FinderOK(v)'
  <2>1. CASE v = w
    BY <1>1, <2>1 DEF FinderOK
  <2>2. CASE v # w
    <3>1. finder'[v] = finder[v] /\ FinderOK(v)
      BY <1>1, <2>2 DEF DiscoverInv
    <3> QED
      BY <3>1 DEF FinderOK
  <2> QED
    BY <2>1, <2>2
<1> QED
  BY <1>2, <1>3, <1>4 DEF DiscoverInv

LEMMA DiscoverBegins == D!Init => DiscoverInv
<1> SUFFICES ASSUME D!Init PROVE DiscoverInv
  OBVIOUS
<1>1. D!Resting \in Finder /\ D!Resting.pc = "idle"
  BY DEF D!Resting, Finder, FinderPcs, FinderStatus
<1>2. D!Present(assets) = {} /\ assets = [u \in Url |-> assets[u]]
  BY DEF D!Init, D!NoRows, D!Present
<1>3. finder = [w \in Discoverers |-> D!Resting] /\ recorded = << >> /\ over = "no"
  BY DEF D!Init
<1>4. \A w \in Discoverers : FinderOK(w)
  BY <1>1, <1>3 DEF FinderOK
<1> QED
  BY <1>2, <1>3, <1>4 DEF DiscoverInv, RowsOK, LastOK, DoneOK

LEMMA CommitKeeps ==
  ASSUME DiscoverInv, NEW w \in Discoverers, D!Commit(w)
  PROVE  DiscoverInv'
<1> DEFINE x == finder[w]
           m == D!Manifest(x)
           y == [x EXCEPT !.pc = IF kind = "capture" THEN "signal" ELSE "end"]
<1>1. /\ x.pc = "commit" /\ assets' = D!Seeded(x) /\ recorded' = Append(recorded, m)
      /\ finder' = [finder EXCEPT ![w] = y]
      /\ kind' = kind /\ scripts' = scripts /\ manifests' = manifests /\ over' = over
  BY DEF D!Commit, D!At, D!Becomes
<1>2. FinderOK(w) /\ x \in Finder
  BY DEF DiscoverInv, FinderOK
<1>3. m \in FoundManifests /\ m \in manifests /\ m.found = x.found
  BY <1>1, <1>2 DEF FinderOK, Finder, FoundManifests, D!Manifest
<1>4. /\ recorded' \in Seq(FoundManifests) /\ recorded' # << >>
      /\ recorded'[Len(recorded')] = m
  BY <1>1, <1>3 DEF DiscoverInv
<1>5. RowsOK' /\ x.found \subseteq D!Present(assets')
  BY <1>1, <1>2, SeedingKeeps DEF DiscoverInv
<1>6. LastOK'
  <2>1. kind = "capture" => x.found \subseteq scripts
    BY <1>1, <1>2 DEF FinderOK
  <2>2. D!Present(assets)' = D!Present(assets')
    BY DEF D!Present
  <2> QED
    BY <1>1, <1>3, <1>4, <1>5, <2>1, <2>2 DEF LastOK
<1>7. y \in Finder /\ y.pc \in {"signal", "end"}
  BY <1>2 DEF Finder, FinderPcs
<1>8. /\ \A v \in Discoverers : finder'[v] = IF v = w THEN y ELSE finder[v]
      /\ DOMAIN finder' = Discoverers /\ finder' = [v \in Discoverers |-> finder'[v]]
  BY <1>1 DEF DiscoverInv
<1>9. ASSUME NEW v \in Discoverers PROVE FinderOK(v)'
  <2>1. CASE v = w
    BY <1>4, <1>7, <1>8, <2>1 DEF FinderOK
  <2>2. CASE v # w
    <3>1. finder'[v] = finder[v] /\ FinderOK(v)
      BY <1>8, <2>2 DEF DiscoverInv
    <3> QED
      BY <1>1, <1>4, <3>1 DEF FinderOK
  <2> QED
    BY <2>1, <2>2
<1> QED
  BY <1>4, <1>5, <1>6, <1>8, <1>9 DEF DiscoverInv, DoneOK

(* The rest of the stage. *)
LEMMA StageKeeps ==
  ASSUME DiscoverInv, NEW w \in Discoverers,
         D!Take(w) \/ D!Discover(w) \/ D!BrowserFails(w) \/ D!Pause(w) \/ D!Crash(w),
         ~D!Commit(w)
  PROVE  DiscoverInv'
<1> DEFINE x == finder[w]
<1>1. FinderOK(w) /\ x \in Finder
  BY DEF DiscoverInv, FinderOK
<1>2. D!Resting \in Finder /\ D!Resting.pc = "idle"
  BY DEF D!Resting, Finder, FinderPcs, FinderStatus
<1>3. CASE D!BrowserFails(w) \/ D!Pause(w) \/ D!Crash(w)
  <2>1. /\ finder' = [finder EXCEPT ![w] = D!Resting]
        /\ kind' = kind /\ assets' = assets /\ recorded' = recorded
        /\ manifests' = manifests /\ scripts' = scripts /\ over' = over
    BY <1>3 DEF D!BrowserFails, D!Pause, D!Crash, D!Rests, D!stores
  <2>2. DoneOK'
    BY <2>1 DEF DiscoverInv, DoneOK
  <2> QED
    BY <1>2, <2>1, <2>2, OneFinds
<1>4. CASE D!Take(w)
  <2> DEFINE y == [x EXCEPT !.pc = "look"]
  <2>1. /\ finder' = [finder EXCEPT ![w] = y]
        /\ kind' = kind /\ assets' = assets /\ recorded' = recorded
        /\ manifests' = manifests /\ scripts' = scripts /\ over' = over
    BY <1>4 DEF D!Take, D!Becomes, D!stores
  <2>2. y \in Finder /\ y.pc = "look"
    BY <1>1 DEF Finder, FinderPcs
  <2>3. DoneOK'
    BY <2>1 DEF DiscoverInv, DoneOK
  <2> HIDE DEF y
  <2> QED
    BY <2>1, <2>2, <2>3, OneFinds
<1>5. CASE D!Look(w) \/ D!End(w)
  <2>1. /\ kind' = kind /\ assets' = assets /\ recorded' = recorded
        /\ manifests' = manifests /\ scripts' = scripts
    BY <1>5 DEF D!Look, D!End, D!stores
  <2>2. CASE finder' = [finder EXCEPT ![w] = [x EXCEPT !.pc = "browse"]] /\ over' = over
    <3> DEFINE y == [x EXCEPT !.pc = "browse"]
    <3>1. y \in Finder /\ y.pc = "browse" /\ finder' = [finder EXCEPT ![w] = y]
      BY <1>1, <2>2 DEF Finder, FinderPcs
    <3>2. DoneOK'
      BY <2>1, <2>2 DEF DiscoverInv, DoneOK
    <3> HIDE DEF y
    <3> QED
      BY <2>1, <3>1, <3>2, OneFinds
  <2>3. CASE finder' = [finder EXCEPT ![w] = D!Resting] /\ DoneOK'
    BY <1>2, <2>1, <2>3, OneFinds
  <2>4. D!Look(w) => \/ finder' = [finder EXCEPT ![w] = [x EXCEPT !.pc = "browse"]] /\ over' = over
                     \/ finder' = [finder EXCEPT ![w] = D!Resting] /\ DoneOK'
    BY <2>1 DEF D!Look, D!Becomes, D!Ends, D!Rests, DoneOK, DiscoverInv
  <2>5. D!End(w) => finder' = [finder EXCEPT ![w] = D!Resting] /\ DoneOK'
    BY <1>1, <2>1 DEF D!End, D!At, D!Ends, D!Rests, DoneOK, FinderOK, DiscoverInv
  <2> QED
    BY <1>5, <2>2, <2>3, <2>4, <2>5
<1>6. CASE D!Crawl(w)
  <2>1. PICK us \in SUBSET Url, timedOut \in BOOLEAN : \E k \in D!Kept(us) :
          finder' = [finder EXCEPT
            ![w].pc = "manifest", ![w].found = k,
            ![w].status = CASE timedOut -> "timeout"
                            [] ~timedOut /\ k # us \cap InScopeUrls -> "capped"
                            [] OTHER -> "ok"]
    BY <1>6 DEF D!Crawl
  <2>2. PICK k \in D!Kept(us), status \in FinderStatus :
          finder' = [finder EXCEPT ![w].pc = "manifest", ![w].found = k, ![w].status = status]
    <3>1. PICK k \in D!Kept(us) :
            finder' = [finder EXCEPT
              ![w].pc = "manifest", ![w].found = k,
              ![w].status = CASE timedOut -> "timeout"
                              [] ~timedOut /\ k # us \cap InScopeUrls -> "capped"
                              [] OTHER -> "ok"]
      BY <2>1
    <3>2. (CASE timedOut -> "timeout"
             [] ~timedOut /\ k # us \cap InScopeUrls -> "capped"
             [] OTHER -> "ok") \in FinderStatus
      BY DEF FinderStatus
    <3> QED
      BY <3>1, <3>2
  <2>3. k \subseteq Url
    BY DEF D!Kept
  <2> DEFINE y == [x EXCEPT !.pc = "manifest", !.found = k, !.status = status]
  <2>4. /\ finder' = [finder EXCEPT ![w] = y]
        /\ y \in Finder /\ y.pc = "manifest"
    BY <1>1, <2>2, <2>3 DEF Finder, FinderPcs, DiscoverInv
  <2>5. /\ kind' = kind /\ kind = "crawl" /\ assets' = assets /\ recorded' = recorded
        /\ manifests' = manifests /\ scripts' = scripts /\ over' = over
    BY <1>6 DEF D!Crawl, D!stores
  <2>6. DoneOK'
    BY <2>5 DEF DiscoverInv, DoneOK
  <2> HIDE DEF y
  <2> QED
    BY <2>4, <2>5, <2>6, OneFinds
<1>7. CASE D!Browse(w)
  <2>1. PICK us \in SUBSET Url, status \in {"ok", "blocked"} :
          finder' = [finder EXCEPT
            ![w].pc = "bytes", ![w].found = us \cap InScopeUrls, ![w].status = status]
    BY <1>7 DEF D!Browse
  <2> DEFINE y == [x EXCEPT !.pc = "bytes", !.found = us \cap InScopeUrls, !.status = status]
  <2>2. /\ finder' = [finder EXCEPT ![w] = y]
        /\ y \in Finder /\ y.pc = "bytes"
    BY <1>1, <2>1 DEF Finder, FinderPcs, FinderStatus, DiscoverInv
  <2>3. /\ kind' = kind /\ assets' = assets /\ recorded' = recorded
        /\ manifests' = manifests /\ scripts' = scripts /\ over' = over
    BY <1>7 DEF D!Browse, D!stores
  <2>4. DoneOK'
    BY <2>3 DEF DiscoverInv, DoneOK
  <2> HIDE DEF y
  <2> QED
    BY <2>2, <2>3, <2>4, OneFinds
<1>8. CASE D!StoreScripts(w)
  <2> DEFINE y == [x EXCEPT !.pc = "maps"]
  <2>1. /\ finder' = [finder EXCEPT ![w] = y] /\ scripts' = scripts \cup x.found
        /\ kind' = kind /\ assets' = assets /\ recorded' = recorded
        /\ manifests' = manifests /\ over' = over
    BY <1>8 DEF D!StoreScripts, D!BytesStored, D!Becomes
  <2>2. y \in Finder /\ y.pc = "maps" /\ y.found = x.found
    BY <1>1 DEF Finder, FinderPcs
  <2>3. DoneOK'
    BY <2>1 DEF DiscoverInv, DoneOK
  <2> HIDE DEF y
  <2> QED
    BY <2>1, <2>2, <2>3, OneFinds
<1>9. CASE D!FetchMaps(w)
  <2>1. PICK got \in SUBSET (x.found \cap WithMap) :
          finder' = [finder EXCEPT ![w].pc = "manifest", ![w].mapped = got,
                       ![w].missed = (x.found \cap WithMap) \ got]
    BY <1>9 DEF D!FetchMaps
  <2> DEFINE y == [x EXCEPT !.pc = "manifest", !.mapped = got,
                     !.missed = (x.found \cap WithMap) \ got]
  <2>2. x.found \subseteq Url /\ got \subseteq Url
    BY <1>1 DEF Finder
  <2>3. /\ finder' = [finder EXCEPT ![w] = y]
        /\ y \in Finder /\ y.pc = "manifest" /\ y.found = x.found
    BY <1>1, <2>1, <2>2 DEF Finder, FinderPcs, DiscoverInv
  <2>4. /\ kind' = kind /\ assets' = assets /\ recorded' = recorded /\ x.pc = "maps"
        /\ manifests' = manifests /\ scripts' = scripts /\ over' = over
    BY <1>9 DEF D!FetchMaps, D!stores, D!At
  <2>5. DoneOK'
    BY <2>4 DEF DiscoverInv, DoneOK
  <2> HIDE DEF y
  <2> QED
    BY <1>1, <2>3, <2>4, <2>5, OneFinds DEF FinderOK
<1>10. CASE D!StoreManifest(w)
  <2> DEFINE y == [x EXCEPT !.pc = "commit"]
  <2>1. /\ finder' = [finder EXCEPT ![w] = y] /\ manifests' = manifests \cup {D!Manifest(x)}
        /\ kind' = kind /\ assets' = assets /\ recorded' = recorded /\ x.pc = "manifest"
        /\ scripts' = scripts /\ over' = over
    BY <1>10 DEF D!StoreManifest, D!Becomes, D!At
  <2>2. y \in Finder /\ y.pc = "commit" /\ y.found = x.found /\ D!Manifest(y) = D!Manifest(x)
    BY <1>1 DEF Finder, FinderPcs, D!Manifest
  <2>3. DoneOK'
    BY <2>1 DEF DiscoverInv, DoneOK
  <2> HIDE DEF y
  <2> QED
    BY <1>1, <2>1, <2>2, <2>3, OneFinds DEF FinderOK
<1>11. CASE D!RecordSignal(w)
  <2> DEFINE y == [x EXCEPT !.pc = "end"]
  <2>1. /\ finder' = [finder EXCEPT ![w] = y] /\ x.pc = "signal"
        /\ kind' = kind /\ assets' = assets /\ recorded' = recorded
        /\ manifests' = manifests /\ scripts' = scripts /\ over' = over
    BY <1>11 DEF D!RecordSignal, D!Becomes, D!At
  <2>2. y \in Finder /\ y.pc = "end"
    BY <1>1 DEF Finder, FinderPcs
  <2>3. DoneOK'
    BY <2>1 DEF DiscoverInv, DoneOK
  <2> HIDE DEF y
  <2> QED
    BY <1>1, <2>1, <2>2, <2>3, OneFinds DEF FinderOK
<1> QED
  BY <1>3, <1>4, <1>5, <1>6, <1>7, <1>8, <1>9, <1>10, <1>11 DEF D!Discover

LEMMA DiscoverInductive == D!Init /\ [][D!Next]_discoverVars => []DiscoverInv
<1>1. ASSUME DiscoverInv, [D!Next]_discoverVars PROVE DiscoverInv'
  <2>1. CASE UNCHANGED discoverVars
    BY <1>1, <2>1 DEF discoverVars, DiscoverInv, RowsOK, LastOK, DoneOK, FinderOK, D!Present
  <2>2. CASE D!Next
    <3>1. PICK w \in Discoverers :
            D!Take(w) \/ D!Discover(w) \/ D!BrowserFails(w) \/ D!Pause(w) \/ D!Crash(w)
      BY <2>2 DEF D!Next
    <3> QED
      BY <1>1, <3>1, StageKeeps, CommitKeeps
  <2> QED
    BY <1>1, <2>1, <2>2
<1> QED
  BY <1>1, DiscoverBegins, PTL

LEMMA DiscoverIsSeeded == DiscoverInv => D!DiscoveredMeansSeeded
<1> SUFFICES ASSUME DiscoverInv, recorded # << >>
             PROVE  LET last == recorded[Len(recorded)] IN
                    /\ last \in manifests /\ last.found \subseteq D!Present(assets)
                    /\ kind = "capture" =>
                         last.found \subseteq {u \in scripts : assets[u].fetch = "ok"}
  BY DEF D!DiscoveredMeansSeeded, DiscoverInv, DoneOK
<1> QED
  BY DEF DiscoverInv, RowsOK, LastOK
-----------------------------------------------------------------------------
(* How specific a match is, as two numbers. *)
LEMMA Least ==
  ASSUME NEW S \in SUBSET Nat, S # {}
  PROVE  \E x \in S : \A y \in S : x <= y
<1>1. PICK x \in S : \A y \in S : ~(<<y, x>> \in OpToRel(<, Nat))
  BY WFMin, NatLessThanWellFounded, Zenon
<1>2. ASSUME NEW y \in S PROVE x <= y
  <2>1. ~(y < x)
    BY <1>1 DEF OpToRel
  <2> QED
    BY <2>1
<1> QED
  BY <1>2

LEMMA CorrelateConstants ==
  /\ \A e \in Unplaced : Len(e.tail) \in Nat
  /\ \A r \in Requests : Len(r.url.path) \in Nat
BY FindingsAssumption DEF C!CorrelateConstantsOK

LEMMA ConstantsCount ==
  ASSUME NEW e \in Unplaced
  PROVE  C!Constants(e) \in 0 .. Len(e.tail)
<1> DEFINE S == {i \in 1 .. Len(e.tail) : e.tail[i] # Param}
<1>1. Len(e.tail) \in Nat
  BY CorrelateConstants
<1>2. IsFiniteSet(1 .. Len(e.tail)) /\ Cardinality(1 .. Len(e.tail)) = Len(e.tail)
  <2>1. 1 \in Int /\ Len(e.tail) \in Int
    BY <1>1
  <2>2. /\ IsFiniteSet(1 .. Len(e.tail))
        /\ Cardinality(1 .. Len(e.tail)) = IF 1 > Len(e.tail) THEN 0 ELSE Len(e.tail) - 1 + 1
    BY <2>1, FS_Interval
  <2> QED
    BY <1>1, <2>2
<1>3. Cardinality(S) \in Nat /\ Cardinality(S) <= Len(e.tail)
  <2>1. S \subseteq 1 .. Len(e.tail)
    OBVIOUS
  <2>2. IsFiniteSet(S) /\ Cardinality(S) <= Cardinality(1 .. Len(e.tail))
    BY <1>2, <2>1, FS_Subset
  <2> QED
    BY <1>2, <2>2, FS_CardinalityType
<1>4. C!Constants(e) = Cardinality(S)
  BY DEF C!Constants, C!Cardinality, Cardinality
<1> QED
  BY <1>1, <1>3, <1>4

(* Of the endpoints that match a url, one that no other is more specific than
   is the only one of these exactly when it is more specific than each other. *)
LEMMA SingleWinner ==
  ASSUME NEW cs \in SUBSET Unplaced, NEW path, Len(path) \in Nat,
         \A f \in cs : C!Aligned(f, path), NEW e
  PROVE  C!MostSpecific(cs, path) = {e} <=>
           e \in cs /\ \A f \in cs \ {e} : C!MoreSpecific(e, f, path)
<1> DEFINE n(f) == C!Constants(f)
           a(f) == C!Absorbed(f, path)
           more(f, g) == n(f) > n(g) \/ (n(f) = n(g) /\ a(f) < a(g))
           top == C!MostSpecific(cs, path)
<1>1. ASSUME NEW f \in cs PROVE n(f) \in 0 .. Len(path) /\ a(f) \in Nat
  <2>1. n(f) \in 0 .. Len(f.tail) /\ Len(f.tail) \in Nat
    BY ConstantsCount, CorrelateConstants
  <2>2. a(f) = Len(path) - Len(f.tail) /\ (a(f) >= 0 \/ a(f) = 0)
    BY DEF C!Aligned, C!Absorbed
  <2> QED
    BY <2>1, <2>2
<1>2. \A f, g : C!MoreSpecific(f, g, path) <=> more(f, g)
  BY DEF C!MoreSpecific
<1>3. top = {f \in cs : \A g \in cs : ~more(g, f)}
  BY <1>2 DEF C!MostSpecific
<1> HIDE DEF n, a, top
<1>4. ASSUME e \in cs, \A f \in cs \ {e} : more(e, f) PROVE top = {e}
  <2>1. \A g \in cs : ~more(g, e)
    BY <1>1, <1>4
  <2>2. \A f \in cs \ {e} : f \notin top
    BY <1>3, <1>4
  <2> QED
    BY <1>3, <1>4, <2>1, <2>2
<1>5. ASSUME cs # {} PROVE \E g \in cs : \A f \in cs : n(g) > n(f) \/ (n(g) = n(f) /\ a(g) <= a(f))
  <2> DEFINE S == {Len(path) - n(f) : f \in cs}
  <2>1. S \subseteq Nat /\ S # {}
    BY <1>1, <1>5
  <2>2. PICK s \in S : \A t \in S : s <= t
    BY <2>1, Least
  <2>3. PICK h \in cs : s = Len(path) - n(h)
    OBVIOUS
  <2>4. ASSUME NEW f \in cs PROVE n(f) <= n(h)
    <3>1. s <= Len(path) - n(f)
      BY <2>2
    <3> QED
      BY <1>1, <2>3, <3>1
  <2> DEFINE T == {a(f) : f \in {k \in cs : n(k) = n(h)}}
  <2>5. T \subseteq Nat /\ T # {}
    BY <1>1
  <2>6. PICK t \in T : \A u \in T : t <= u
    BY <2>5, Least
  <2>7. PICK g \in cs : n(g) = n(h) /\ t = a(g)
    OBVIOUS
  <2>8. ASSUME NEW f \in cs PROVE n(g) > n(f) \/ (n(g) = n(f) /\ a(g) <= a(f))
    <3>1. CASE n(f) = n(h)
      <4>1. a(f) \in T
        BY <3>1
      <4> QED
        BY <2>6, <2>7, <3>1, <4>1
    <3>2. CASE n(f) # n(h)
      <4>1. n(f) \in Int /\ n(h) \in Int /\ n(f) <= n(h)
        BY <1>1, <2>4
      <4> QED
        BY <2>7, <3>2, <4>1
    <3> QED
      BY <3>1, <3>2
  <2> QED
    BY <2>8
<1>6. ASSUME top = {e} PROVE e \in cs /\ \A f \in cs \ {e} : more(e, f)
  <2>1. e \in cs /\ \A g \in cs : ~more(g, e)
    BY <1>3, <1>6
  <2>2. PICK g \in cs : \A f \in cs : n(g) > n(f) \/ (n(g) = n(f) /\ a(g) <= a(f))
    BY <1>5, <2>1
  <2>3. g \in top
    <3>1. \A f \in cs : ~more(f, g)
      BY <1>1, <2>2
    <3> QED
      BY <1>3, <3>1
  <2>4. g = e
    BY <1>6, <2>3
  <2>5. ASSUME NEW f \in cs \ {e}, ~more(e, f) PROVE FALSE
    <3>1. n(e) = n(f) /\ a(e) = a(f)
      BY <1>1, <2>1, <2>2, <2>4, <2>5
    <3>2. \A h \in cs : ~more(h, f)
      BY <2>1, <3>1
    <3>3. f \in top
      BY <1>3, <3>2
    <3> QED
      BY <1>6, <3>3
  <2> QED
    BY <2>1, <2>5
<1> QED
  BY <1>2, <1>4, <1>6 DEF top

(* correlate resolves an endpoint to a url if and only if it matches it better
   than every other, and matches no second url that well.                  *)
LEMMA ResolveIs ==
  ASSUME ops \subseteq Unplaced, observed \subseteq Requests, NEW e \in ops, NEW u \in C!Seen
  PROVE  <<e, u>> \in C!Resolve(ops, observed) <=>
           /\ C!Matches(e, u)
           /\ \A f \in ops \ {e} : C!Matches(f, u) => C!MoreSpecific(e, f, u.path)
           /\ \A v \in C!Seen \ {u} : C!Matches(e, v) =>
                \E f \in ops \ {e} : C!Matches(f, v) /\ ~C!MoreSpecific(e, f, v.path)
<1> DEFINE cands(v) == C!Candidates(ops, observed, v)
           wins(v) == C!MostSpecific(cands(v), v.path) = {e}
<1>1. ASSUME NEW v \in C!Seen
      PROVE  wins(v) <=> e \in cands(v) /\ \A f \in cands(v) \ {e} : C!MoreSpecific(e, f, v.path)
  <2>1. Len(v.path) \in Nat
    BY CorrelateConstants DEF C!Seen
  <2>2. cands(v) \in SUBSET Unplaced /\ \A f \in cands(v) : C!Aligned(f, v.path)
    BY DEF C!Candidates
  <2> QED
    BY <2>1, <2>2, SingleWinner
<1>2. <<e, u>> \in C!Resolve(ops, observed) <=> {v \in C!Seen : wins(v)} = {u}
  BY DEF C!Resolve, C!Wins, C!Seen
<1>3. \A f, v : C!Matches(f, v) <=> f \in cands(v)
  BY DEF C!Matches
<1>4. \A v : cands(v) \subseteq ops
  BY DEF C!Candidates
<1> HIDE DEF cands
<1>5. ({v \in C!Seen : wins(v)} = {u}) <=> (wins(u) /\ \A v \in C!Seen \ {u} : ~wins(v))
  OBVIOUS
<1> QED
  BY <1>1, <1>2, <1>3, <1>4, <1>5
-----------------------------------------------------------------------------
(* What the first execution of the stage has done by each of its steps. *)
FirstExecution ==
  /\ matcher.pc \in {"idle", "write"} => \A e \in Unplaced : hosts[e] = {}
  /\ matcher.pc # "end" => hints = {}
  /\ matcher.pc # "idle" => matcher.resolved = C!Resolve(ops, observed)
  /\ matcher.pc \in {"bodies", "end"} =>
       \A e \in Unplaced : hosts[e] = {u \in C!Seen : <<e, u>> \in matcher.resolved}
  /\ hints \subseteq {x[1] : x \in matcher.resolved}

MatcherInv ==
  /\ ops \subseteq Unplaced /\ observed \subseteq Requests /\ deaths \in Nat
  /\ matcher.pc \in {"idle", "write", "bodies", "end"}
  /\ matcher = [pc |-> matcher.pc, resolved |-> matcher.resolved]
  /\ deaths = 0 => FirstExecution

LEMMA MatcherKeeps == MatcherInv /\ [C!Next]_correlateVars => MatcherInv'
<1> SUFFICES ASSUME MatcherInv, [C!Next]_correlateVars PROVE MatcherInv'
  OBVIOUS
<1>1. CASE UNCHANGED correlateVars
  BY <1>1 DEF correlateVars, MatcherInv, FirstExecution, C!Seen
<1>2. CASE C!ReadFindings
  <2>1. /\ matcher.pc = "idle" /\ ops' = ops /\ observed' = observed /\ hosts' = hosts
        /\ hints' = hints /\ deaths' = deaths
        /\ matcher' = [pc |-> "write",
                       resolved |-> C!Resolve({e \in ops : hosts[e] = {}}, observed)]
    BY <1>2 DEF C!ReadFindings
  <2>2. ASSUME deaths = 0 PROVE matcher'.resolved = C!Resolve(ops, observed)
    <3>1. {e \in ops : hosts[e] = {}} = ops
      BY <2>1, <2>2 DEF MatcherInv, FirstExecution
    <3> QED
      BY <2>1, <3>1
  <2>3. matcher'.pc = "write" /\ matcher' = [pc |-> matcher'.pc, resolved |-> matcher'.resolved]
    BY <2>1
  <2>4. ASSUME deaths = 0 PROVE FirstExecution'
    BY <2>1, <2>2, <2>3, <2>4 DEF MatcherInv, FirstExecution
  <2> QED
    BY <2>1, <2>3, <2>4 DEF MatcherInv
<1>3. CASE C!WriteOccurrences
  <2>1. /\ matcher.pc = "write" /\ ops' = ops /\ observed' = observed
        /\ hints' = hints /\ deaths' = deaths
        /\ hosts' = [e \in Unplaced |-> hosts[e] \cup {u \in {r.url : r \in observed} :
                                                         <<e, u>> \in matcher.resolved}]
        /\ matcher' = [matcher EXCEPT !.pc = "bodies"]
    BY <1>3 DEF C!WriteOccurrences
  <2>2. matcher' = [pc |-> "bodies", resolved |-> matcher.resolved]
    BY <2>1 DEF MatcherInv
  <2>3. ASSUME deaths = 0 PROVE FirstExecution'
    <3>1. FirstExecution
      BY <2>3 DEF MatcherInv
    <3>2. \A e \in Unplaced : hosts'[e] = {u \in C!Seen' : <<e, u>> \in matcher.resolved}
      BY <2>1, <3>1 DEF FirstExecution, C!Seen
    <3> QED
      BY <2>1, <2>2, <3>1, <3>2 DEF FirstExecution
  <2> QED
    BY <2>1, <2>2, <2>3 DEF MatcherInv
<1>4. CASE C!AnalyzeBodies
  <2>1. /\ matcher.pc = "bodies" /\ ops' = ops /\ observed' = observed
        /\ hosts' = hosts /\ deaths' = deaths
        /\ hints' \in {hints, hints \cup {x[1] : x \in matcher.resolved}}
        /\ matcher' = [matcher EXCEPT !.pc = "end"]
    BY <1>4 DEF C!AnalyzeBodies
  <2>2. matcher' = [pc |-> "end", resolved |-> matcher.resolved]
    BY <2>1 DEF MatcherInv
  <2>3. ASSUME deaths = 0 PROVE FirstExecution'
    <3>1. FirstExecution
      BY <2>3 DEF MatcherInv
    <3>2. hints' \subseteq {x[1] : x \in matcher.resolved}
      BY <2>1, <3>1 DEF FirstExecution
    <3> QED
      BY <2>1, <2>2, <3>1, <3>2 DEF FirstExecution, C!Seen
  <2> QED
    BY <2>1, <2>2, <2>3 DEF MatcherInv
<1>5. CASE C!Redelivered
  <2>1. /\ deaths' = deaths + 1 /\ matcher' = [pc |-> "idle", resolved |-> {}]
        /\ ops' = ops /\ observed' = observed
    BY <1>5 DEF C!Redelivered, C!Nothing
  <2>2. deaths' # 0 /\ deaths' \in Nat
    BY <2>1 DEF MatcherInv
  <2> QED
    BY <2>1, <2>2 DEF MatcherInv
<1> QED
  BY <1>1, <1>2, <1>3, <1>4, <1>5 DEF C!Next

LEMMA MatcherInductive == C!Init /\ [][C!Next]_correlateVars => []MatcherInv
<1>1. C!Init => MatcherInv
  BY DEF C!Init, MatcherInv, FirstExecution, C!UpTo, C!Nothing
<1> QED
  BY <1>1, MatcherKeeps, PTL

LEMMA MatcherGuesses == MatcherInv => C!NeverGuesses
<1> SUFFICES ASSUME MatcherInv, deaths = 0, matcher.pc \in {"bodies", "end"}
             PROVE  /\ \A e \in ops, u \in C!Seen : u \in hosts[e] <=>
                         /\ C!Matches(e, u)
                         /\ \A f \in ops \ {e} : C!Matches(f, u) => C!MoreSpecific(e, f, u.path)
                         /\ \A v \in C!Seen \ {u} : C!Matches(e, v) =>
                              \E f \in ops \ {e} : C!Matches(f, v) /\ ~C!MoreSpecific(e, f, v.path)
                    /\ hints \subseteq {e \in ops : hosts[e] # {}}
  BY DEF C!NeverGuesses
<1>1. /\ ops \subseteq Unplaced /\ observed \subseteq Requests
      /\ matcher.resolved = C!Resolve(ops, observed)
      /\ \A e \in Unplaced : hosts[e] = {u \in C!Seen : <<e, u>> \in matcher.resolved}
      /\ hints \subseteq {x[1] : x \in matcher.resolved}
  BY DEF MatcherInv, FirstExecution
<1>2. ASSUME NEW e \in ops, NEW u \in C!Seen
      PROVE  u \in hosts[e] <=> <<e, u>> \in C!Resolve(ops, observed)
  BY <1>1
<1>3. ASSUME NEW h \in hints PROVE h \in ops /\ hosts[h] # {}
  <2>1. PICK x \in C!Resolve(ops, observed) : h = x[1]
    BY <1>1
  <2>2. PICK e \in ops, u \in C!Seen : x = <<e, u>>
    BY <2>1 DEF C!Resolve, C!Seen
  <2>3. h = e /\ u \in hosts[e]
    BY <1>2, <2>1, <2>2
  <2> QED
    BY <2>3
<1> QED
  BY <1>1, <1>2, <1>3, ResolveIs
-----------------------------------------------------------------------------
(* The browser's targets, what is on its way to and from them, and the driver. *)
IsLog(s) == s \in Seq({s[i] : i \in DOMAIN s})

(* Every script of the target is excused. *)
Excused(t, ex) == \A s \in Scripts : s.target = t => s \in ex

(* What runs is watched, and what ended excuses its scripts. *)
TargetsOK ==
  /\ target = [t \in B!Targets |-> [life |-> target[t].life, debug |-> target[t].debug,
                                    doc |-> target[t].doc]]
  /\ \A t \in B!Targets : target[t].life = "running" => target[t].debug = TRUE
  /\ \A t \in B!Targets : target[t].life = "gone" => Excused(t, excused)

(* A worker stays in its document. *)
StillThere(t, s, tg) ==
  \/ tg["page"].life = "dead"
  \/ tg[t].life # "absent" /\ (t # "page" => tg[t].doc = s.doc)

MessageOK(from, n, tg, ex) ==
  /\ n[1] \in {"attached", "parsed", "source", "detached", "ack"}
  /\ n[1] = "attached" => n[2] \in B!Targets /\ tg[n[2]].life # "absent"
  /\ n[1] = "parsed" => n[2] \in Scripts /\ n[2].target = from /\ StillThere(from, n[2], tg)
  /\ n[1] = "source" => n[3] = TRUE \/ n[2] \in ex
  /\ n[1] = "detached" => Excused(n[2], ex)

NewsOK ==
  /\ DOMAIN news = B!Senders /\ news = [from \in B!Senders |-> news[from]]
  /\ \A from \in B!Senders : IsLog(news[from])
  /\ \A from \in B!Senders : \A i \in 1 .. Len(news[from]) : MessageOK(from, news[from][i], target, excused)

(* A target is watched before it is released, and a source is asked for while
   its document is there or is excused.                                    *)
OrderOK(t, q, i, tg, ex) ==
  /\ q[i][1] \in {"enable", "release", "source", "go", "eval"}
  /\ q[i][1] = "release" =>
       \/ tg[t].life = "gone" \/ tg[t].debug = TRUE
       \/ \E j \in 1 .. (i - 1) : q[j][1] = "enable"
  /\ q[i][1] = "go" => t = "page"
  /\ q[i][1] = "source" =>
       /\ q[i][2] \in Scripts /\ q[i][2].target = t
       /\ \/ q[i][2] \in ex
          \/ tg[t].doc = q[i][2].doc /\ \A j \in 1 .. (i - 1) : q[j][1] # "go"

OrdersOK ==
  /\ DOMAIN orders = B!Targets /\ orders = [t \in B!Targets |-> orders[t]]
  /\ \A t \in B!Targets : IsLog(orders[t])
  /\ \A t \in B!Targets : target[t].life = "absent" => orders[t] = <<>>
  /\ \A t \in B!Targets : \A i \in 1 .. Len(orders[t]) : OrderOK(t, orders[t], i, target, excused)

(* By the time the session is over, what is still asked for is excused. *)
DriverOK ==
  /\ drive = [step |-> drive.step, route |-> drive.route, acts |-> drive.acts,
              want |-> drive.want, moved |-> drive.moved]
  /\ drive.moved = FALSE \/ target["page"].life # "absent"
  /\ drive.step \in {"generator", "meta", "over"} => pending \subseteq excused
  /\ \A t \in detached : Excused(t, excused)

ScriptsKept ==
  /\ ran \subseteq Scripts
  /\ \A s \in ran :
       \/ s.text \in out \/ s \in excused \/ B!AtCap
       \/ B!Holds(news[s.target], <<"parsed", s>>)
       \/ s \in pending

BrowserInv == TargetsOK /\ NewsOK /\ OrdersOK /\ DriverOK /\ ScriptsKept

(* A queue, whatever it holds. *)
LEMMA LogIs ==
  ASSUME NEW S, NEW s \in Seq(S)
  PROVE  IsLog(s)
<1>1. s \in [1 .. Len(s) -> S] /\ Len(s) \in Nat
  BY LenProperties
<1>2. s \in [1 .. Len(s) -> {s[i] : i \in DOMAIN s}]
  BY <1>1
<1> QED
  BY <1>1, <1>2, SeqDef DEF IsLog

LEMMA LogEmpty == IsLog(<<>>) /\ Len(<<>>) = 0
BY DEF IsLog

LEMMA LogAppended ==
  ASSUME NEW s, IsLog(s), NEW e
  PROVE  /\ IsLog(Append(s, e)) /\ Len(Append(s, e)) = Len(s) + 1 /\ Len(s) \in Nat
         /\ \A i \in 1 .. Len(s) : Append(s, e)[i] = s[i]
         /\ Append(s, e)[Len(s) + 1] = e
<1> DEFINE S == {s[i] : i \in DOMAIN s} \cup {e}
<1>1. s \in Seq(S)
  BY DEF IsLog
<1>2. e \in S
  OBVIOUS
<1> HIDE DEF S
<1>3. IsLog(Append(s, e))
  BY <1>1, <1>2, AppendProperties, LogIs
<1> QED
  BY <1>1, <1>2, <1>3, AppendProperties, LenProperties

LEMMA LogTaken ==
  ASSUME NEW s, IsLog(s), s # <<>>
  PROVE  /\ IsLog(Tail(s)) /\ Len(Tail(s)) = Len(s) - 1 /\ Len(s) \in Nat \ {0}
         /\ \A i \in 1 .. Len(Tail(s)) : Tail(s)[i] = s[i + 1]
         /\ Head(s) = s[1]
<1> DEFINE S == {s[i] : i \in DOMAIN s}
<1>1. s \in Seq(S)
  BY DEF IsLog
<1> HIDE DEF S
<1>2. IsLog(Tail(s))
  BY <1>1, HeadTailProperties, LogIs
<1>3. Len(s) \in Nat \ {0}
  BY <1>1, EmptySeq
<1>4. Head(s) = s[1]
  BY <1>1
<1> QED
  BY <1>1, <1>2, <1>3, <1>4, HeadTailProperties

LEMMA LogJoined ==
  ASSUME NEW s, NEW t, IsLog(s), IsLog(t)
  PROVE  /\ IsLog(s \o t) /\ Len(s \o t) = Len(s) + Len(t) /\ Len(s) \in Nat /\ Len(t) \in Nat
         /\ \A i \in 1 .. Len(s) : (s \o t)[i] = s[i]
         /\ \A i \in 1 .. Len(t) : (s \o t)[Len(s) + i] = t[i]
<1> DEFINE S == {s[i] : i \in DOMAIN s} \cup {t[i] : i \in DOMAIN t}
<1>1. s \in Seq(S) /\ t \in Seq(S)
  BY DEF IsLog
<1> HIDE DEF S
<1>2. IsLog(s \o t)
  BY <1>1, ConcatProperties, LogIs
<1>3. Len(s) \in Nat /\ Len(t) \in Nat
  BY <1>1, LenProperties
<1>4. /\ Len(s \o t) = Len(s) + Len(t)
      /\ \A i \in 1 .. Len(s) + Len(t) : (s \o t)[i] = IF i <= Len(s) THEN s[i] ELSE t[i - Len(s)]
  BY <1>1, ConcatProperties
<1>5. ASSUME NEW i \in 1 .. Len(t) PROVE (s \o t)[Len(s) + i] = t[i]
  <2>1. Len(s) + i \in 1 .. Len(s) + Len(t) /\ ~(Len(s) + i <= Len(s)) /\ (Len(s) + i) - Len(s) = i
    BY <1>3
  <2> QED
    BY <1>4, <2>1
<1> QED
  BY <1>2, <1>3, <1>4, <1>5

(* What the browser and the driver do only adds to what excuses a script, and
   takes no target away and no worker out of its document.                 *)
Onward ==
  /\ excused \subseteq excused'
  /\ \A t \in B!Targets : target[t].life # "absent" => target'[t].life # "absent"
  /\ target["page"].life = "dead" => target'["page"].life = "dead"
  /\ \/ target'["page"].life = "dead"
     \/ \A t \in B!Targets \ {"page"} :
          target[t].life # "absent" => target'[t].doc = target[t].doc

LEMMA BrowserTargets ==
  /\ "page" \in B!Targets /\ B!Targets \subseteq B!Senders /\ "browser" \in B!Senders
  /\ \A s \in Scripts : s.target \in B!Targets
BY DEF B!Targets, B!Workers, B!Senders

LEMMA MessageStays ==
  ASSUME NewsOK, Onward, NEW from \in B!Senders, NEW n, MessageOK(from, n, target, excused)
  PROVE  MessageOK(from, n, target', excused')
<1>1. n[1] = "attached" => n[2] \in B!Targets /\ target'[n[2]].life # "absent"
  BY DEF MessageOK, Onward
<1>2. n[1] = "parsed" => n[2] \in Scripts /\ n[2].target = from /\ StillThere(from, n[2], target')
  BY BrowserTargets DEF MessageOK, Onward, StillThere
<1>3. n[1] = "source" => n[3] = TRUE \/ n[2] \in excused'
  BY DEF MessageOK, Onward
<1>4. n[1] = "detached" => Excused(n[2], excused')
  BY DEF MessageOK, Onward, Excused
<1>5. n[1] \in {"attached", "parsed", "source", "detached", "ack"}
  BY DEF MessageOK
<1> QED
  BY <1>1, <1>2, <1>3, <1>4, <1>5 DEF MessageOK

LEMMA NewsStays ==
  ASSUME NewsOK, Onward, UNCHANGED news
  PROVE  NewsOK'
<1>1. \A from \in B!Senders : \A i \in 1 .. Len(news'[from]) : MessageOK(from, news'[from][i], target', excused')
  BY MessageStays DEF NewsOK
<1> QED
  BY <1>1 DEF NewsOK

LEMMA NewsTold ==
  ASSUME NewsOK, Onward, NEW from \in B!Senders, NEW n,
         news' = [news EXCEPT ![from] = Append(@, n)], MessageOK(from, n, target', excused')
  PROVE  /\ NewsOK'
         /\ \A x : \A f \in B!Senders : B!Holds(news[f], x) => B!Holds(news'[f], x)
         /\ B!Holds(news'[from], n)
<1>1. /\ DOMAIN news' = B!Senders /\ news' = [f \in B!Senders |-> news'[f]]
      /\ news'[from] = Append(news[from], n)
      /\ \A f \in B!Senders \ {from} : news'[f] = news[f]
  BY DEF NewsOK
<1>2. /\ IsLog(Append(news[from], n)) /\ Len(Append(news[from], n)) = Len(news[from]) + 1
      /\ Len(news[from]) \in Nat
      /\ \A i \in 1 .. Len(news[from]) : Append(news[from], n)[i] = news[from][i]
      /\ Append(news[from], n)[Len(news[from]) + 1] = n
  BY LogAppended DEF NewsOK
<1>3. \A f \in B!Senders : IsLog(news'[f])
  BY <1>1, <1>2 DEF NewsOK
<1>4. ASSUME NEW f \in B!Senders, NEW i \in 1 .. Len(news'[f]) PROVE MessageOK(f, news'[f][i], target', excused')
  <2>1. CASE f = from /\ i = Len(news[from]) + 1
    BY <1>1, <1>2, <2>1
  <2>2. CASE f = from /\ i # Len(news[from]) + 1
    <3>1. i \in 1 .. Len(news[from]) /\ news'[f][i] = news[from][i]
      BY <1>1, <1>2, <2>2
    <3>2. MessageOK(f, news[from][i], target, excused)
      BY <2>2, <3>1 DEF NewsOK
    <3> QED
      BY <3>1, <3>2, MessageStays
  <2>3. CASE f # from
    <3>1. news'[f] = news[f] /\ MessageOK(f, news[f][i], target, excused)
      BY <1>1, <2>3 DEF NewsOK
    <3> QED
      BY <3>1, MessageStays
  <2> QED
    BY <2>1, <2>2, <2>3
<1>5. ASSUME NEW f \in B!Senders, NEW x, B!Holds(news[f], x) PROVE B!Holds(news'[f], x)
  <2>1. PICK i \in 1 .. Len(news[f]) : news[f][i] = x
    BY <1>5 DEF B!Holds
  <2>2. i \in 1 .. Len(news'[f]) /\ news'[f][i] = x
    BY <1>1, <1>2, <2>1
  <2> QED
    BY <2>2 DEF B!Holds
<1>6. B!Holds(news'[from], n)
  <2>1. Len(news[from]) + 1 \in 1 .. Len(news'[from]) /\ news'[from][Len(news[from]) + 1] = n
    BY <1>1, <1>2
  <2> QED
    BY <2>1 DEF B!Holds
<1> QED
  BY <1>1, <1>3, <1>4, <1>5, <1>6 DEF NewsOK

LEMMA NewsTaken ==
  ASSUME NewsOK, Onward, NEW from \in B!Senders, news[from] # <<>>,
         news' = [news EXCEPT ![from] = Tail(@)]
  PROVE  /\ NewsOK' /\ MessageOK(from, Head(news[from]), target, excused)
         /\ \A x : \A f \in B!Senders :
              B!Holds(news[f], x) => B!Holds(news'[f], x) \/ (f = from /\ x = Head(news[from]))
<1>1. /\ DOMAIN news' = B!Senders /\ news' = [f \in B!Senders |-> news'[f]]
      /\ news'[from] = Tail(news[from])
      /\ \A f \in B!Senders \ {from} : news'[f] = news[f]
  BY DEF NewsOK
<1>2. /\ IsLog(Tail(news[from])) /\ Len(Tail(news[from])) = Len(news[from]) - 1
      /\ Len(news[from]) \in Nat \ {0}
      /\ \A i \in 1 .. Len(Tail(news[from])) : Tail(news[from])[i] = news[from][i + 1]
      /\ Head(news[from]) = news[from][1]
  BY LogTaken DEF NewsOK
<1>3. \A f \in B!Senders : IsLog(news'[f])
  BY <1>1, <1>2 DEF NewsOK
<1>4. ASSUME NEW f \in B!Senders, NEW i \in 1 .. Len(news'[f]) PROVE MessageOK(f, news'[f][i], target', excused')
  <2>1. CASE f = from
    <3>1. i + 1 \in 1 .. Len(news[from]) /\ news'[f][i] = news[from][i + 1]
      BY <1>1, <1>2, <2>1
    <3>2. MessageOK(f, news[from][i + 1], target, excused)
      BY <2>1, <3>1 DEF NewsOK
    <3> QED
      BY <3>1, <3>2, MessageStays
  <2>2. CASE f # from
    <3>1. news'[f] = news[f] /\ MessageOK(f, news[f][i], target, excused)
      BY <1>1, <2>2 DEF NewsOK
    <3> QED
      BY <3>1, MessageStays
  <2> QED
    BY <2>1, <2>2
<1>5. MessageOK(from, Head(news[from]), target, excused)
  <2>1. 1 \in 1 .. Len(news[from])
    BY <1>2
  <2> QED
    BY <1>2, <2>1 DEF NewsOK
<1>6. ASSUME NEW f \in B!Senders, NEW x, B!Holds(news[f], x), ~(f = from /\ x = Head(news[from]))
      PROVE  B!Holds(news'[f], x)
  <2>1. PICK i \in 1 .. Len(news[f]) : news[f][i] = x
    BY <1>6 DEF B!Holds
  <2>2. CASE f = from
    <3>1. i # 1
      BY <1>2, <1>6, <2>1, <2>2
    <3>2. i - 1 \in 1 .. Len(news'[f]) /\ (i - 1) + 1 = i
      BY <1>1, <1>2, <2>1, <2>2, <3>1
    <3>3. news'[f][i - 1] = x
      BY <1>1, <1>2, <2>1, <2>2, <3>2
    <3> QED
      BY <3>2, <3>3 DEF B!Holds
  <2>3. CASE f # from
    BY <1>1, <2>1, <2>3 DEF B!Holds
  <2> QED
    BY <2>2, <2>3
<1> QED
  BY <1>1, <1>3, <1>4, <1>5, <1>6 DEF NewsOK

(* What the orders of a target rest on stays. *)
Steady(t) ==
  /\ target[t].life = "gone" => target'[t].life = "gone"
  /\ target[t].debug = TRUE => target'[t].debug = TRUE
  /\ \/ target'[t].doc = target[t].doc
     \/ \A s \in Scripts : s.target = t /\ s.doc = target[t].doc => s \in excused'

LEMMA OrdersStay ==
  ASSUME OrdersOK, UNCHANGED orders, excused \subseteq excused',
         \A t \in B!Targets : orders[t] = <<>> \/ Steady(t),
         \A t \in B!Targets : target'[t].life = "absent" => target[t].life = "absent"
  PROVE  OrdersOK'
<1>1. ASSUME NEW t \in B!Targets, NEW i \in 1 .. Len(orders[t])
      PROVE  OrderOK(t, orders[t], i, target', excused')
  <2> DEFINE q == orders[t]
  <2>1. OrderOK(t, q, i, target, excused) /\ Steady(t)
    BY LogEmpty DEF OrdersOK
  <2> HIDE DEF q
  <2>2. q[i][1] = "release" =>
          \/ target'[t].life = "gone" \/ target'[t].debug = TRUE
          \/ \E j \in 1 .. (i - 1) : q[j][1] = "enable"
    BY <2>1 DEF OrderOK, Steady
  <2>3. q[i][1] = "source" =>
          /\ q[i][2] \in Scripts /\ q[i][2].target = t
          /\ \/ q[i][2] \in excused'
             \/ target'[t].doc = q[i][2].doc /\ \A j \in 1 .. (i - 1) : q[j][1] # "go"
    BY <2>1 DEF OrderOK, Steady
  <2>4. OrderOK(t, q, i, target', excused')
    BY <2>1, <2>2, <2>3 DEF OrderOK
  <2> QED
    BY <2>4 DEF q
<1> QED
  BY <1>1 DEF OrdersOK

(* More orders for a target that is there. *)
LEMMA OrdersSent ==
  ASSUME OrdersOK, UNCHANGED target, excused \subseteq excused', NEW t \in B!Targets,
         target[t].life # "absent", NEW q, IsLog(q), Len(q) \in Nat, Len(orders[t]) <= Len(q),
         \A i \in 1 .. Len(orders[t]) : q[i] = orders[t][i],
         \A i \in (Len(orders[t]) + 1) .. Len(q) : OrderOK(t, q, i, target, excused'),
         orders' = [orders EXCEPT ![t] = q]
  PROVE  OrdersOK'
<1>1. /\ DOMAIN orders' = B!Targets /\ orders' = [u \in B!Targets |-> orders'[u]]
      /\ orders'[t] = q /\ \A u \in B!Targets \ {t} : orders'[u] = orders[u]
  BY DEF OrdersOK
<1>2. Len(orders[t]) \in Nat
  BY LogAppended DEF OrdersOK
<1>3. ASSUME NEW u \in B!Targets, NEW i \in 1 .. Len(orders'[u])
      PROVE  OrderOK(u, orders'[u], i, target, excused')
  <2>1. CASE u # t
    <3>1. OrderOK(u, orders[u], i, target, excused) /\ orders'[u] = orders[u]
      BY <1>1, <2>1 DEF OrdersOK
    <3> QED
      BY <3>1 DEF OrderOK
  <2>2. CASE u = t /\ i > Len(orders[t])
    <3>1. i \in (Len(orders[t]) + 1) .. Len(q)
      BY <1>1, <1>2, <2>2
    <3> QED
      BY <1>1, <2>2, <3>1
  <2>3. CASE u = t /\ ~(i > Len(orders[t]))
    <3>1. i \in 1 .. Len(orders[t])
      BY <1>1, <1>2, <2>3
    <3>2. OrderOK(t, orders[t], i, target, excused)
      BY <3>1 DEF OrdersOK
    <3>3. \A j \in 1 .. i : q[j] = orders[t][j]
      BY <1>2, <3>1
    <3>4. q[i] = orders[t][i] /\ \A j \in 1 .. (i - 1) : q[j] = orders[t][j]
      BY <3>1, <3>3
    <3>5. OrderOK(t, q, i, target, excused')
      BY <3>2, <3>4 DEF OrderOK
    <3> QED
      BY <1>1, <2>3, <3>5
  <2> QED
    BY <2>1, <2>2, <2>3
<1>4. \A u \in B!Targets : IsLog(orders'[u])
  BY <1>1 DEF OrdersOK
<1>5. \A u \in B!Targets : target'[u].life = "absent" => orders'[u] = <<>>
  BY <1>1 DEF OrdersOK
<1> QED
  BY <1>1, <1>3, <1>4, <1>5 DEF OrdersOK

LEMMA OrdersAppended ==
  ASSUME OrdersOK, UNCHANGED target, excused \subseteq excused', NEW t \in B!Targets,
         target[t].life # "absent", NEW name \in {"source", "go", "eval"}, NEW x,
         name = "go" => t = "page",
         name = "source" => x \in Scripts /\ x.target = t,
         name = "source" =>
           \/ x \in excused'
           \/ target[t].doc = x.doc /\ \A j \in 1 .. Len(orders[t]) : orders[t][j][1] # "go",
         orders' = [orders EXCEPT ![t] = Append(@, <<name, x>>)]
  PROVE  OrdersOK'
<1> DEFINE o == <<name, x>>
           q == Append(orders[t], o)
<1>1. o[1] = name /\ o[2] = x
  OBVIOUS
<1> HIDE DEF o
<1>2. /\ IsLog(q) /\ Len(q) = Len(orders[t]) + 1 /\ Len(orders[t]) \in Nat
      /\ \A i \in 1 .. Len(orders[t]) : q[i] = orders[t][i]
      /\ q[Len(orders[t]) + 1] = o
  BY LogAppended DEF OrdersOK
<1>3. orders' = [orders EXCEPT ![t] = q]
  BY DEF o
<1> HIDE DEF q
<1>4. ASSUME NEW i \in (Len(orders[t]) + 1) .. Len(q) PROVE OrderOK(t, q, i, target, excused')
  <2>1. i = Len(orders[t]) + 1 /\ i - 1 = Len(orders[t])
    BY <1>2
  <2>2. q[i] = o /\ \A j \in 1 .. (i - 1) : q[j] = orders[t][j]
    BY <1>2, <2>1
  <2> QED
    BY <1>1, <2>1, <2>2 DEF OrderOK
<1>5. Len(q) \in Nat /\ Len(orders[t]) <= Len(q)
  BY <1>2
<1> QED
  BY <1>2, <1>3, <1>4, <1>5, OrdersSent

(* A target's first order is carried out. *)
LEMMA OrdersTaken ==
  ASSUME OrdersOK, UNCHANGED excused, NEW t \in B!Targets, orders[t] # <<>>,
         \A u \in B!Targets \ {t} : target'[u] = target[u],
         target[t].life = "gone" => target'[t].life = "gone",
         target[t].debug = TRUE \/ Head(orders[t])[1] = "enable" =>
           target'[t].life = "gone" \/ target'[t].debug = TRUE,
         target'[t].doc = target[t].doc \/ Head(orders[t])[1] = "go",
         target'[t].life # "absent",
         orders' = [orders EXCEPT ![t] = Tail(@)]
  PROVE  OrdersOK'
<1> DEFINE q == orders[t]
           r == Tail(orders[t])
<1>1. /\ DOMAIN orders' = B!Targets /\ orders' = [u \in B!Targets |-> orders'[u]]
      /\ orders'[t] = r /\ \A u \in B!Targets \ {t} : orders'[u] = orders[u]
  BY DEF OrdersOK
<1>2. /\ IsLog(r) /\ Len(r) = Len(q) - 1 /\ Len(q) \in Nat \ {0}
      /\ \A i \in 1 .. Len(r) : r[i] = q[i + 1]
      /\ Head(q) = q[1]
  BY LogTaken DEF OrdersOK
<1>3. \A i \in 1 .. Len(q) : OrderOK(t, q, i, target, excused)
  BY DEF OrdersOK
<1>4. Head(q) = Head(orders[t])
  OBVIOUS
<1> HIDE DEF q, r
<1>5. ASSUME NEW i \in 1 .. Len(r) PROVE OrderOK(t, r, i, target', excused)
  <2>1. i + 1 \in 1 .. Len(q) /\ r[i] = q[i + 1] /\ (i + 1) - 1 = i
    BY <1>2
  <2>2. OrderOK(t, q, i + 1, target, excused)
    BY <1>3, <2>1
  <2>3. \A j \in 1 .. (i - 1) : j + 1 \in 1 .. i /\ r[j] = q[j + 1]
    BY <1>2
  <2>4. ASSUME r[i][1] = "release"
        PROVE  \/ target'[t].life = "gone" \/ target'[t].debug = TRUE
               \/ \E j \in 1 .. (i - 1) : r[j][1] = "enable"
    <3>1. \/ target[t].life = "gone" \/ target[t].debug = TRUE
          \/ \E j \in 1 .. i : q[j][1] = "enable"
      BY <2>1, <2>2, <2>4 DEF OrderOK
    <3>2. CASE \E j \in 1 .. i : q[j][1] = "enable"
      <4>1. PICK j \in 1 .. i : q[j][1] = "enable"
        BY <3>2
      <4>2. CASE j = 1
        BY <1>2, <1>4, <4>1, <4>2
      <4>3. CASE j # 1
        <5>1. j - 1 \in 1 .. (i - 1) /\ (j - 1) + 1 = j
          BY <4>3
        <5>2. r[j - 1] = q[j]
          BY <2>3, <5>1
        <5> QED
          BY <4>1, <5>1, <5>2
      <4> QED
        BY <4>2, <4>3
    <3> QED
      BY <3>1, <3>2
  <2>5. ASSUME r[i][1] = "source", r[i][2] \notin excused
        PROVE  target'[t].doc = r[i][2].doc /\ \A j \in 1 .. (i - 1) : r[j][1] # "go"
    <3>1. target[t].doc = q[i + 1][2].doc /\ \A j \in 1 .. i : q[j][1] # "go"
      BY <2>1, <2>2, <2>5 DEF OrderOK
    <3>2. 1 \in 1 .. i
      BY <1>2
    <3>3. q[1][1] # "go"
      BY <3>1, <3>2
    <3> QED
      BY <1>2, <1>4, <2>1, <2>3, <3>1, <3>3
  <2>6. /\ r[i][1] \in {"enable", "release", "source", "go", "eval"}
        /\ r[i][1] = "go" => t = "page"
        /\ r[i][1] = "source" => r[i][2] \in Scripts /\ r[i][2].target = t
    BY <2>1, <2>2 DEF OrderOK
  <2> QED
    BY <2>4, <2>5, <2>6 DEF OrderOK
<1>6. ASSUME NEW u \in B!Targets, NEW i \in 1 .. Len(orders'[u])
      PROVE  OrderOK(u, orders'[u], i, target', excused)
  <2>1. CASE u # t
    <3>1. OrderOK(u, orders[u], i, target, excused) /\ orders'[u] = orders[u] /\ target'[u] = target[u]
      BY <1>1, <2>1 DEF OrdersOK
    <3> QED
      BY <3>1 DEF OrderOK
  <2>2. CASE u = t
    BY <1>1, <1>5, <2>2
  <2> QED
    BY <2>1, <2>2
<1>7. \A u \in B!Targets : IsLog(orders'[u])
  BY <1>1, <1>2 DEF OrdersOK
<1>8. \A u \in B!Targets : target'[u].life = "absent" => orders'[u] = <<>>
  BY <1>1 DEF OrdersOK
<1> QED
  BY <1>1, <1>6, <1>7, <1>8 DEF OrdersOK

LEMMA KeptStays ==
  ASSUME ScriptsKept, UNCHANGED <<ran, parsed>>, excused \subseteq excused', out \subseteq out',
         \A s \in pending : s \in pending' \/ s \in excused' \/ s.text \in out',
         \A s \in Scripts : B!Holds(news[s.target], <<"parsed", s>>) =>
                              B!Holds(news'[s.target], <<"parsed", s>>)
  PROVE  ScriptsKept'
<1>1. B!AtCap <=> B!AtCap'
  BY DEF B!AtCap
<1> QED
  BY <1>1 DEF ScriptsKept

LEMMA DriverStays ==
  ASSUME DriverOK, UNCHANGED <<drive, pending, detached>>, excused \subseteq excused',
         target["page"].life # "absent" => target'["page"].life # "absent"
  PROVE  DriverOK'
BY DEF DriverOK, Excused

LEMMA AttachBrowserInv ==
  ASSUME BrowserInv, NEW t \in B!Targets, B!Attach(t)
  PROVE  BrowserInv'
<1> DEFINE new == [life |-> "paused", debug |-> FALSE, doc |-> IF t = "page" THEN 0 ELSE 1]
<1>1. /\ target["page"].life # "dead" /\ target[t].life = "absent"
      /\ target' = [target EXCEPT ![t] = new]
      /\ news' = [news EXCEPT !["browser"] = Append(@, <<"attached", t>>)]
      /\ UNCHANGED <<ran, orders, drive, parsed, pending, out, detached, blocked, excused>>
  BY DEF B!Attach, B!Alive, B!Tell, B!found
<1>2. /\ new = [life |-> new.life, debug |-> new.debug, doc |-> new.doc]
      /\ new.life = "paused"
  OBVIOUS
<1> HIDE DEF new
<1>3. /\ target' = [u \in B!Targets |-> [life |-> target'[u].life, debug |-> target'[u].debug,
                                          doc |-> target'[u].doc]]
      /\ target'[t] = new /\ \A u \in B!Targets \ {t} : target'[u] = target[u]
  BY <1>1, <1>2 DEF BrowserInv, TargetsOK
<1>4. TargetsOK'
  BY <1>1, <1>2, <1>3 DEF BrowserInv, TargetsOK
<1>5. Onward
  BY <1>1, <1>2, <1>3, BrowserTargets DEF Onward
<1>6. MessageOK("browser", <<"attached", t>>, target', excused')
  BY <1>2, <1>3 DEF MessageOK
<1>7. NewsOK' /\ \A x : \A f \in B!Senders : B!Holds(news[f], x) => B!Holds(news'[f], x)
  BY <1>1, <1>5, <1>6, NewsTold, BrowserTargets DEF BrowserInv
<1>8. OrdersOK'
  <2>1. orders[t] = <<>> /\ \A u \in B!Targets \ {t} : Steady(u)
    BY <1>1, <1>3 DEF BrowserInv, OrdersOK, Steady
  <2> QED
    BY <1>1, <1>5, <2>1, <1>2, <1>3, OrdersStay DEF BrowserInv
<1>9. DriverOK'
  BY <1>1, <1>5, BrowserTargets, DriverStays DEF BrowserInv, Onward
<1>10. ScriptsKept'
  BY <1>1, <1>7, BrowserTargets, KeptStays DEF BrowserInv
<1> QED
  BY <1>4, <1>7, <1>8, <1>9, <1>10 DEF BrowserInv

LEMMA RunScriptBrowserInv ==
  ASSUME BrowserInv, NEW s \in Scripts, B!RunScript(s)
  PROVE  BrowserInv'
<1>1. /\ target[s.target].life = "running" /\ target[s.target].doc = s.doc
      /\ ran' = ran \cup {s}
      /\ IF target[s.target].debug
           THEN news' = [news EXCEPT ![s.target] = Append(@, <<"parsed", s>>)]
           ELSE UNCHANGED news
      /\ UNCHANGED <<target, orders, drive, parsed, pending, out, detached, blocked, excused>>
  BY DEF B!RunScript, B!InDocument, B!Tell, B!found
<1>2. s.target \in B!Targets /\ s.target \in B!Senders
  BY BrowserTargets
<1>3. news' = [news EXCEPT ![s.target] = Append(@, <<"parsed", s>>)]
  BY <1>1, <1>2 DEF BrowserInv, TargetsOK
<1>4. Onward
  BY <1>1 DEF Onward
<1>5. MessageOK(s.target, <<"parsed", s>>, target', excused')
  BY <1>1 DEF MessageOK, StillThere
<1>6. /\ NewsOK' /\ \A x : \A f \in B!Senders : B!Holds(news[f], x) => B!Holds(news'[f], x)
      /\ B!Holds(news'[s.target], <<"parsed", s>>)
  BY <1>2, <1>3, <1>4, <1>5, NewsTold DEF BrowserInv
<1>7. ScriptsKept'
  <2>1. B!AtCap <=> B!AtCap'
    BY <1>1 DEF B!AtCap
  <2> QED
    BY <1>1, <1>6, <2>1, BrowserTargets DEF BrowserInv, ScriptsKept
<1>8. DriverOK'
  BY <1>1, DriverStays DEF BrowserInv
<1>9. OrdersOK'
  BY <1>1 DEF BrowserInv, OrdersOK
<1>10. TargetsOK'
  BY <1>1 DEF BrowserInv, TargetsOK
<1> QED
  BY <1>6, <1>7, <1>8, <1>9, <1>10 DEF BrowserInv

LEMMA PageMovesBrowserInv ==
  ASSUME BrowserInv, B!PageMoves
  PROVE  BrowserInv'
<1>1. /\ target["page"].life = "running"
      /\ target' = [target EXCEPT !["page"].doc = @ + 1]
      /\ excused' = excused \cup B!OfPage(target["page"].doc)
      /\ UNCHANGED <<ran, orders, news, drive, parsed, pending, out, detached, blocked>>
  BY DEF B!PageMoves, B!found
<1> DEFINE next == target["page"].doc + 1
<1>2. target' = [target EXCEPT !["page"].doc = next]
  BY <1>1
<1> HIDE DEF next
<1>3. /\ target' = [u \in B!Targets |-> [life |-> target'[u].life, debug |-> target'[u].debug,
                                          doc |-> target'[u].doc]]
      /\ \A u \in B!Targets : target'[u].life = target[u].life /\ target'[u].debug = target[u].debug
      /\ \A u \in B!Targets \ {"page"} : target'[u] = target[u]
  BY <1>2, BrowserTargets DEF BrowserInv, TargetsOK
<1>4. excused \subseteq excused' /\ \A s \in Scripts : s.target = "page" /\ s.doc = target["page"].doc => s \in excused'
  BY <1>1 DEF B!OfPage
<1>5. TargetsOK'
  BY <1>3, <1>4 DEF BrowserInv, TargetsOK, Excused
<1>6. Onward
  BY <1>3, <1>4, BrowserTargets DEF Onward
<1>7. NewsOK'
  BY <1>1, <1>6, NewsStays DEF BrowserInv
<1>8. \A u \in B!Targets : Steady(u)
  BY <1>3, <1>4 DEF Steady
<1>9. OrdersOK'
  BY <1>1, <1>3, <1>4, <1>8, OrdersStay DEF BrowserInv
<1>10. DriverOK'
  BY <1>1, <1>3, <1>4, BrowserTargets, DriverStays DEF BrowserInv
<1>11. ScriptsKept'
  BY <1>1, <1>4, KeptStays DEF BrowserInv
<1> QED
  BY <1>5, <1>7, <1>9, <1>10, <1>11 DEF BrowserInv

LEMMA TargetEndsBrowserInv ==
  ASSUME BrowserInv, NEW t \in B!Targets, B!TargetEnds(t)
  PROVE  BrowserInv'
<1>1. /\ target["page"].life # "dead" /\ target[t].life \in {"paused", "running"}
      /\ target' = [target EXCEPT ![t].life = "gone"]
      /\ news' = [news EXCEPT !["browser"] = Append(@, <<"detached", t>>)]
      /\ excused' = excused \cup {s \in Scripts : s.target = t}
      /\ UNCHANGED <<ran, orders, drive, parsed, pending, out, detached, blocked>>
  BY DEF B!TargetEnds, B!Alive, B!Tell, B!found
<1>3. /\ target' = [u \in B!Targets |-> [life |-> target'[u].life, debug |-> target'[u].debug,
                                          doc |-> target'[u].doc]]
      /\ \A u \in B!Targets : target'[u].debug = target[u].debug /\ target'[u].doc = target[u].doc
      /\ \A u \in B!Targets \ {t} : target'[u] = target[u]
      /\ target'[t].life = "gone"
  BY <1>1 DEF BrowserInv, TargetsOK
<1>4. excused \subseteq excused' /\ Excused(t, excused')
  BY <1>1 DEF Excused
<1>5. TargetsOK'
  BY <1>3, <1>4 DEF BrowserInv, TargetsOK, Excused
<1>6. Onward
  BY <1>1, <1>3, <1>4, BrowserTargets DEF Onward
<1>7. MessageOK("browser", <<"detached", t>>, target', excused')
  BY <1>4 DEF MessageOK
<1>8. NewsOK' /\ \A x : \A f \in B!Senders : B!Holds(news[f], x) => B!Holds(news'[f], x)
  BY <1>1, <1>6, <1>7, NewsTold, BrowserTargets DEF BrowserInv
<1>9. \A u \in B!Targets : Steady(u)
  BY <1>3 DEF Steady
<1>10. OrdersOK'
  BY <1>1, <1>3, <1>4, <1>9, OrdersStay DEF BrowserInv
<1>11. DriverOK'
  BY <1>1, <1>3, <1>4, BrowserTargets, DriverStays DEF BrowserInv
<1>12. ScriptsKept'
  BY <1>1, <1>4, <1>8, BrowserTargets, KeptStays DEF BrowserInv
<1> QED
  BY <1>5, <1>8, <1>10, <1>11, <1>12 DEF BrowserInv

LEMMA BrowserDiesBrowserInv ==
  ASSUME BrowserInv, B!BrowserDies
  PROVE  BrowserInv'
<1>1. /\ target' = B!Dead /\ orders' = [t \in B!Targets |-> <<>>]
      /\ UNCHANGED <<ran, news, drive, parsed, pending, out, detached, blocked, excused>>
  BY DEF B!BrowserDies, B!found
<1>2. target' = [t \in B!Targets |-> [life |-> "dead", debug |-> FALSE, doc |-> 0]]
  BY <1>1 DEF B!Dead
<1>3. /\ target' = [u \in B!Targets |-> [life |-> target'[u].life, debug |-> target'[u].debug,
                                          doc |-> target'[u].doc]]
      /\ \A u \in B!Targets : target'[u].life = "dead"
  BY <1>2
<1>4. TargetsOK'
  BY <1>3 DEF TargetsOK
<1>5. Onward
  BY <1>1, <1>3, BrowserTargets DEF Onward
<1>6. NewsOK'
  BY <1>1, <1>5, NewsStays DEF BrowserInv
<1>7. OrdersOK'
  BY <1>1, LogEmpty DEF OrdersOK
<1>8. DriverOK'
  BY <1>1, <1>3, BrowserTargets, DriverStays DEF BrowserInv
<1>9. ScriptsKept'
  BY <1>1, KeptStays DEF BrowserInv
<1> QED
  BY <1>4, <1>6, <1>7, <1>8, <1>9 DEF BrowserInv

(* What carrying out an order does to its target, and the reply. *)
LEMMA CarriedOut ==
  ASSUME BrowserInv, NEW t \in B!Targets, B!CarryOut(t)
  PROVE  /\ orders[t] # <<>> /\ orders' = [orders EXCEPT ![t] = Tail(@)]
         /\ UNCHANGED <<ran, drive, parsed, pending, out, detached, blocked, excused>>
         /\ target' = [u \in B!Targets |-> [life |-> target'[u].life, debug |-> target'[u].debug,
                                            doc |-> target'[u].doc]]
         /\ \A u \in B!Targets \ {t} : target'[u] = target[u]
         /\ target'[t].life # "absent"
         /\ target[t].life = target'[t].life \/ (target[t].life # "gone" /\ target'[t].life = "running")
         /\ target[t].debug = TRUE => target'[t].debug = TRUE
         /\ Head(orders[t])[1] = "enable" => target'[t].life = "gone" \/ target'[t].debug = TRUE
         /\ target'[t].life = "running" => target'[t].debug = TRUE
         /\ target'[t].doc = target[t].doc \/ (Head(orders[t])[1] = "go" /\ t = "page")
         /\ target["page"].life # "dead"
         /\ \/ UNCHANGED news
            \/ \E n : /\ news' = [news EXCEPT ![t] = Append(@, n)]
                      /\ \/ n[1] = "ack"
                         \/ n[1] = "source" /\ (n[3] = TRUE \/ n[2] \in excused)
<1> DEFINE o == Head(orders[t])
<1>1. /\ orders[t] # <<>> /\ target["page"].life # "dead"
      /\ UNCHANGED <<ran, drive, parsed, pending, out, detached, blocked, excused>>
  BY DEF B!CarryOut, B!Alive, B!found
<1>2. /\ target[t].life # "absent" /\ o = orders[t][1]
      /\ OrderOK(t, orders[t], 1, target, excused)
  <2>1. Len(orders[t]) \in Nat \ {0} /\ o = orders[t][1]
    BY <1>1, LogTaken DEF BrowserInv, OrdersOK
  <2>2. 1 \in 1 .. Len(orders[t])
    BY <2>1
  <2> QED
    BY <1>1, <2>1, <2>2 DEF BrowserInv, OrdersOK
<1>3. /\ o[1] = "release" => target[t].life = "gone" \/ target[t].debug = TRUE
      /\ o[1] = "go" => t = "page"
      /\ o[1] = "source" => o[2] \in Scripts /\ o[2].target = t
      /\ o[1] = "source" => o[2] \in excused \/ target[t].doc = o[2].doc
  BY <1>2 DEF OrderOK
<1>4. /\ target = [u \in B!Targets |-> [life |-> target[u].life, debug |-> target[u].debug,
                                        doc |-> target[u].doc]]
      /\ target[t].life = "running" => target[t].debug = TRUE
      /\ target[t].life = "gone" => Excused(t, excused)
  BY DEF BrowserInv, TargetsOK
<1>5. \/ o[1] = "enable" /\ target[t].life # "gone" /\ target' = [target EXCEPT ![t].debug = TRUE]
         /\ B!Answered(t, <<>>)
      \/ o[1] = "release" /\ target[t].life # "gone" /\ target' = [target EXCEPT ![t].life = "running"]
         /\ B!Answered(t, <<>>)
      \/ o[1] = "source" /\ UNCHANGED target
         /\ \/ B!Answered(t, <<"source", o[2], target[t].life # "gone" /\ target[t].doc = o[2].doc>>)
            \/ B!Answered(t, <<>>)
      \/ o[1] = "go" /\ target[t].life # "gone" /\ target' = [target EXCEPT ![t].doc = @ + 1]
         /\ B!Answered(t, <<"ack", o[2], TRUE>>)
      \/ o[1] = "go" /\ UNCHANGED target /\ B!Answered(t, <<"ack", o[2], FALSE>>)
      \/ o[1] = "eval" /\ UNCHANGED target /\ B!Answered(t, <<"ack", o[2], TRUE>>)
      \/ o[1] # "source" /\ target[t].life = "gone" /\ UNCHANGED target /\ B!Answered(t, <<>>)
  BY DEF B!CarryOut
<1> HIDE DEF o
<1>6. \/ o[1] = "enable" /\ target[t].life # "gone" /\ target' = [target EXCEPT ![t].debug = TRUE]
      \/ o[1] = "release" /\ target[t].life # "gone" /\ target' = [target EXCEPT ![t].life = "running"]
      \/ o[1] = "go" /\ target' = [target EXCEPT ![t].doc = @ + 1]
      \/ UNCHANGED target /\ (o[1] = "enable" => target[t].life = "gone")
  BY <1>5, Zenon
<1>7. orders' = [orders EXCEPT ![t] = Tail(@)]
  BY <1>5, Zenon DEF B!Answered
<1>8. \/ UNCHANGED news
      \/ \E n : /\ news' = [news EXCEPT ![t] = Append(@, n)]
                /\ \/ n[1] = "ack"
                   \/ n[1] = "source" /\ (n[3] = TRUE \/ n[2] \in excused)
  <2>1. CASE B!Answered(t, <<>>)
    BY <2>1 DEF B!Answered
  <2>2. ASSUME NEW ok, B!Answered(t, <<"ack", o[2], ok>>)
        PROVE  \E n : news' = [news EXCEPT ![t] = Append(@, n)] /\ n[1] = "ack"
    <3>1. <<"ack", o[2], ok>> # <<>> /\ <<"ack", o[2], ok>>[1] = "ack"
      OBVIOUS
    <3>2. news' = [news EXCEPT ![t] = Append(@, <<"ack", o[2], ok>>)]
      BY <2>2, <3>1 DEF B!Answered, B!Tell
    <3> QED
      BY <3>1, <3>2
  <2>3. ASSUME o[1] = "source",
               B!Answered(t, <<"source", o[2], target[t].life # "gone" /\ target[t].doc = o[2].doc>>)
        PROVE  \E n : /\ news' = [news EXCEPT ![t] = Append(@, n)] /\ n[1] = "source"
                      /\ n[3] = TRUE \/ n[2] \in excused
    <3> DEFINE there == target[t].life # "gone" /\ target[t].doc = o[2].doc
    <3>1. there = TRUE \/ o[2] \in excused
      BY <1>3, <1>4, <2>3 DEF Excused
    <3>2. B!Answered(t, <<"source", o[2], there>>)
      BY <2>3
    <3> HIDE DEF there
    <3>3. /\ <<"source", o[2], there>> # <<>> /\ <<"source", o[2], there>>[1] = "source"
          /\ <<"source", o[2], there>>[2] = o[2] /\ <<"source", o[2], there>>[3] = there
      OBVIOUS
    <3>4. news' = [news EXCEPT ![t] = Append(@, <<"source", o[2], there>>)]
      BY <3>2, <3>3 DEF B!Answered, B!Tell
    <3> QED
      BY <3>1, <3>3, <3>4
  <2> QED
    BY <1>5, <2>1, <2>2, <2>3
<1>9. /\ target' = [u \in B!Targets |-> [life |-> target'[u].life, debug |-> target'[u].debug,
                                          doc |-> target'[u].doc]]
      /\ \A u \in B!Targets \ {t} : target'[u] = target[u]
      /\ target'[t].life # "absent"
      /\ target[t].life = target'[t].life \/ (target[t].life # "gone" /\ target'[t].life = "running")
      /\ target[t].debug = TRUE => target'[t].debug = TRUE
      /\ o[1] = "enable" => target'[t].life = "gone" \/ target'[t].debug = TRUE
      /\ target'[t].life = "running" => target'[t].debug = TRUE
      /\ target'[t].doc = target[t].doc \/ o[1] = "go"
  <2>1. CASE target' = [target EXCEPT ![t].debug = TRUE] /\ o[1] = "enable"
    <3> DEFINE yes == TRUE
    <3>1. target' = [target EXCEPT ![t].debug = yes]
      BY <2>1
    <3>3. yes = TRUE
      OBVIOUS
    <3> HIDE DEF yes
    <3>0. target = [u \in B!Targets |-> [life |-> target[u].life, debug |-> target[u].debug,
                                         doc |-> target[u].doc]]
      BY <1>4
    <3>2. /\ target' = [u \in B!Targets |-> [life |-> target'[u].life, debug |-> target'[u].debug,
                                              doc |-> target'[u].doc]]
          /\ \A u \in B!Targets \ {t} : target'[u] = target[u]
          /\ target'[t].life = target[t].life /\ target'[t].debug = yes
          /\ target'[t].doc = target[t].doc
      BY <3>0, <3>1
    <3> QED
      BY <1>2, <2>1, <3>2, <3>3
  <2>2. CASE target' = [target EXCEPT ![t].life = "running"] /\ o[1] = "release" /\ target[t].life # "gone"
    BY <1>2, <1>3, <1>4, <2>2
  <2>3. CASE target' = [target EXCEPT ![t].doc = @ + 1] /\ o[1] = "go"
    <3> DEFINE d == target[t].doc + 1
    <3>1. target' = [target EXCEPT ![t].doc = d]
      BY <2>3
    <3> HIDE DEF d
    <3> QED
      BY <1>2, <1>4, <2>3, <3>1
  <2>4. CASE UNCHANGED target /\ (o[1] = "enable" => target[t].life = "gone")
    BY <1>2, <1>4, <2>4
  <2> QED
    BY <1>6, <2>1, <2>2, <2>3, <2>4
<1> QED
  BY <1>1, <1>3, <1>7, <1>8, <1>9 DEF o

LEMMA CarryOutBrowserInv ==
  ASSUME BrowserInv, NEW t \in B!Targets, B!CarryOut(t)
  PROVE  BrowserInv'
<1> DEFINE P(n) == /\ news' = [news EXCEPT ![t] = Append(@, n)]
                   /\ \/ n[1] = "ack"
                      \/ n[1] = "source" /\ (n[3] = TRUE \/ n[2] \in excused)
<1>1. /\ orders[t] # <<>> /\ orders' = [orders EXCEPT ![t] = Tail(@)]
      /\ UNCHANGED <<ran, drive, parsed, pending, out, detached, blocked, excused>>
      /\ target["page"].life # "dead"
      /\ UNCHANGED news \/ \E n : P(n)
  BY CarriedOut
<1>2. /\ target' = [u \in B!Targets |-> [life |-> target'[u].life, debug |-> target'[u].debug,
                                            doc |-> target'[u].doc]]
      /\ \A u \in B!Targets \ {t} : target'[u] = target[u]
      /\ target'[t].life # "absent"
      /\ target[t].life = target'[t].life \/ (target[t].life # "gone" /\ target'[t].life = "running")
      /\ target[t].debug = TRUE => target'[t].debug = TRUE
      /\ Head(orders[t])[1] = "enable" => target'[t].life = "gone" \/ target'[t].debug = TRUE
      /\ target'[t].life = "running" => target'[t].debug = TRUE
      /\ target'[t].doc = target[t].doc \/ (Head(orders[t])[1] = "go" /\ t = "page")
  BY CarriedOut
<1>3. TargetsOK'
  BY <1>1, <1>2 DEF BrowserInv, TargetsOK
<1>4. Onward
  BY <1>1, <1>2, BrowserTargets DEF Onward
<1>5. OrdersOK'
  BY <1>1, <1>2, OrdersTaken DEF BrowserInv
<1>6. DriverOK'
  BY <1>1, <1>4, BrowserTargets, DriverStays DEF BrowserInv, Onward
<1>7. NewsOK' /\ \A x : \A f \in B!Senders : B!Holds(news[f], x) => B!Holds(news'[f], x)
  <2>1. CASE UNCHANGED news
    BY <1>4, <2>1, NewsStays DEF BrowserInv
  <2>2. ASSUME NEW n, P(n) PROVE NewsOK' /\ \A x : \A f \in B!Senders : B!Holds(news[f], x) => B!Holds(news'[f], x)
    <3>1. MessageOK(t, n, target', excused')
      BY <1>1, <2>2 DEF MessageOK
    <3>2. t \in B!Senders
      BY BrowserTargets
    <3> QED
      BY <1>4, <2>2, <3>1, <3>2, NewsTold DEF BrowserInv
  <2> QED
    BY <1>1, <2>1, <2>2
<1>8. ScriptsKept'
  BY <1>1, <1>7, BrowserTargets, KeptStays DEF BrowserInv
<1> QED
  BY <1>3, <1>5, <1>6, <1>7, <1>8 DEF BrowserInv

LEMMA LogOne ==
  ASSUME NEW x
  PROVE  IsLog(<<x>>) /\ Len(<<x>>) = 1 /\ <<x>>[1] = x
<1>1. <<x>> \in Seq({x})
  OBVIOUS
<1> QED
  BY <1>1, LogIs

(* What a message finds: the driver at work, and the rest as it was. *)
LEMMA Received ==
  ASSUME BrowserInv, NEW from \in B!Senders, B!Receive(from), NEW n, n = Head(news[from])
  PROVE  /\ news[from] # <<>> /\ news' = [news EXCEPT ![from] = Tail(@)]
         /\ MessageOK(from, n, target, excused)
         /\ UNCHANGED <<target, ran>>
         /\ drive.step \notin {"generator", "over"}
         /\ B!Asks(n) => target["page"].life # "dead"
         /\ n[1] = "attached" => B!OnAttached(n[2])
         /\ n[1] = "parsed" => B!OnParsed(n[2])
         /\ n[1] = "source" => B!OnSource(n[2], n[3])
         /\ n[1] = "detached" => B!OnDetached(n[2])
         /\ n[1] = "ack" => B!OnAck(n[2], n[3])
<1>1. /\ news[from] # <<>> /\ news' = [news EXCEPT ![from] = Tail(@)]
      /\ UNCHANGED <<target, ran>>
      /\ drive.step \notin {"generator", "over"}
      /\ B!Asks(n) => target["page"].life # "dead"
  <2>1. /\ news[from] # <<>> /\ news' = [news EXCEPT ![from] = Tail(@)]
        /\ UNCHANGED <<target, ran>> /\ B!Pumping
    BY DEF B!Receive, B!browser
  <2>2. B!Alive \/ ~B!Asks(n)
    BY Zenon DEF B!Receive
  <2>3. drive.step \notin {"generator", "over"}
    BY <2>1 DEF B!Pumping
  <2>4. B!Alive => target["page"].life # "dead"
    BY DEF B!Alive
  <2> QED
    BY <2>1, <2>2, <2>3, <2>4
<1>2. (CASE n[1] = "attached" -> B!OnAttached(n[2])
         [] n[1] = "parsed"   -> B!OnParsed(n[2])
         [] n[1] = "source"   -> B!OnSource(n[2], n[3])
         [] n[1] = "detached" -> B!OnDetached(n[2])
         [] n[1] = "ack"      -> B!OnAck(n[2], n[3]))
  BY Zenon DEF B!Receive
<1>3. /\ n[1] = "attached" => B!OnAttached(n[2])
      /\ n[1] = "parsed" => B!OnParsed(n[2])
      /\ n[1] = "source" => B!OnSource(n[2], n[3])
      /\ n[1] = "detached" => B!OnDetached(n[2])
      /\ n[1] = "ack" => B!OnAck(n[2], n[3])
  BY <1>2
<1>4. MessageOK(from, n, target, excused)
  <2>1. Len(news[from]) \in Nat \ {0} /\ n = news[from][1]
    BY <1>1, LogTaken DEF BrowserInv, NewsOK
  <2>2. 1 \in 1 .. Len(news[from])
    BY <2>1
  <2> QED
    BY <2>1, <2>2 DEF BrowserInv, NewsOK
<1> QED
  BY <1>1, <1>3, <1>4

LEMMA WatchedFirst ==
  ASSUME NEW go, IsLog(go), \A i \in 1 .. Len(go) : go[i][1] = "go",
         NEW more, more = B!WatchThenRelease(go)
  PROVE  /\ IsLog(more) /\ Len(more) \in Nat \ {0} /\ more[1][1] = "enable"
         /\ \A i \in 1 .. Len(more) : more[i][1] \in {"enable", "go", "release"}
         /\ \A i \in 1 .. Len(more) : more[i][1] = "go" => go # <<>>
<1> DEFINE a == <<<<"enable">>>>
           b == a \o go
           c == <<<<"release">>>>
<1>1. IsLog(a) /\ Len(a) = 1 /\ a[1][1] = "enable" /\ IsLog(c) /\ Len(c) = 1 /\ c[1][1] = "release"
  <2>1. /\ IsLog(<<<<"enable">>>>) /\ Len(<<<<"enable">>>>) = 1 /\ <<<<"enable">>>>[1] = <<"enable">>
    BY LogOne
  <2>2. /\ IsLog(<<<<"release">>>>) /\ Len(<<<<"release">>>>) = 1 /\ <<<<"release">>>>[1] = <<"release">>
    BY LogOne
  <2> QED
    BY <2>1, <2>2
<1>2. more = b \o c
  BY DEF B!WatchThenRelease
<1>3. /\ IsLog(b) /\ Len(b) = 1 + Len(go) /\ Len(go) \in Nat
      /\ \A i \in 1 .. 1 : b[i] = a[i]
      /\ \A i \in 1 .. Len(go) : b[1 + i] = go[i]
  <2> HIDE DEF a
  <2>0. b = a \o go /\ IsLog(a)
    BY <1>1
  <2> HIDE DEF b
  <2>1. /\ IsLog(a \o go) /\ Len(a \o go) = Len(a) + Len(go) /\ Len(a) \in Nat /\ Len(go) \in Nat
        /\ \A i \in 1 .. Len(a) : (a \o go)[i] = a[i]
        /\ \A i \in 1 .. Len(go) : (a \o go)[Len(a) + i] = go[i]
    BY <2>0, LogJoined
  <2> QED
    BY <1>1, <2>0, <2>1
<1>4. \A i \in 1 .. Len(b) : (i = 1 /\ b[i] = a[1]) \/ (i # 1 /\ i - 1 \in 1 .. Len(go) /\ b[i] = go[i - 1])
  <2> HIDE DEF a, b
  <2>1. ASSUME NEW i \in 1 .. Len(b), i # 1 PROVE i - 1 \in 1 .. Len(go) /\ 1 + (i - 1) = i
    BY <1>3, <2>1
  <2> QED
    BY <1>3, <2>1
<1> HIDE DEF a, b, c
<1>5. /\ IsLog(more) /\ Len(more) = Len(b) + 1
      /\ \A i \in 1 .. Len(b) : more[i] = b[i]
      /\ \A i \in 1 .. 1 : more[Len(b) + i] = c[i]
  <2>0. IsLog(b) /\ IsLog(c)
    BY <1>1, <1>3
  <2>1. /\ IsLog(b \o c) /\ Len(b \o c) = Len(b) + Len(c) /\ Len(b) \in Nat /\ Len(c) \in Nat
        /\ \A i \in 1 .. Len(b) : (b \o c)[i] = b[i]
        /\ \A i \in 1 .. Len(c) : (b \o c)[Len(b) + i] = c[i]
    BY <2>0, LogJoined
  <2> QED
    BY <1>1, <1>2, <2>1
<1>6. ASSUME NEW i \in 1 .. Len(more)
      PROVE  \/ i \in 1 .. Len(b) /\ more[i] = b[i]
             \/ i = Len(b) + 1 /\ more[i] = c[1]
  BY <1>2, <1>3, <1>5
<1>7. more[1] = a[1]
  <2>1. 1 \in 1 .. Len(b)
    BY <1>3
  <2> QED
    BY <1>2, <1>3, <1>5, <2>1
<1>8. ASSUME NEW i \in 1 .. Len(go) PROVE go # <<>>
  BY <1>8, LogEmpty
<1>9. Len(more) \in Nat \ {0}
  BY <1>2, <1>3, <1>5
<1>10. ASSUME NEW i \in 1 .. Len(more)
       PROVE  more[i][1] \in {"enable", "release"} \/ (more[i][1] = "go" /\ go # <<>>)
  <2>1. CASE i \in 1 .. Len(b) /\ more[i] = b[i]
    <3>1. CASE b[i] = a[1]
      BY <1>1, <2>1, <3>1
    <3>2. CASE i - 1 \in 1 .. Len(go) /\ b[i] = go[i - 1]
      BY <1>8, <2>1, <3>2
    <3> QED
      BY <1>4, <2>1, <3>1, <3>2
  <2>2. CASE more[i] = c[1]
    BY <1>1, <2>2
  <2> QED
    BY <1>6, <2>1, <2>2
<1> QED
  BY <1>1, <1>5, <1>7, <1>9, <1>10

LEMMA AttachedBrowserInv ==
  ASSUME BrowserInv, NEW from \in B!Senders, B!Receive(from), Head(news[from])[1] = "attached"
  PROVE  BrowserInv'
<1> DEFINE n == Head(news[from])
           t == n[2]
           goes == t = "page" /\ ~drive.moved
           go == IF goes THEN <<<<"go", 0>>>> ELSE <<>>
           more == B!WatchThenRelease(go)
           q == orders[t] \o more
<1>1. /\ news[from] # <<>> /\ news' = [news EXCEPT ![from] = Tail(@)]
      /\ t \in B!Targets /\ target[t].life # "absent"
      /\ UNCHANGED <<target, ran>>
      /\ drive.step \notin {"generator", "over"}
      /\ B!OnAttached(t)
  BY Received DEF MessageOK
<1>2. /\ orders' = [orders EXCEPT ![t] = q]
      /\ drive' = [drive EXCEPT !.moved = @ \/ goes]
      /\ UNCHANGED <<parsed, pending, out, detached, blocked, excused>>
  BY <1>1 DEF B!OnAttached, B!found
<1>3. IsLog(go) /\ (\A i \in 1 .. Len(go) : go[i][1] = "go") /\ (go # <<>> => t = "page")
  <2>1. IsLog(<<<<"go", 0>>>>) /\ Len(<<<<"go", 0>>>>) = 1 /\ <<<<"go", 0>>>>[1] = <<"go", 0>>
    BY LogOne
  <2>2. IsLog(<<>>) /\ Len(<<>>) = 0
    BY LogEmpty
  <2> QED
    BY <2>1, <2>2
<1> DEFINE moved == drive.moved \/ goes
<1>4. drive' = [drive EXCEPT !.moved = moved] /\ (moved = FALSE \/ drive.moved = TRUE \/ t = "page")
  BY <1>2
<1> HIDE DEF n, t, goes, go, more, q, moved
<1>5. /\ IsLog(more) /\ Len(more) \in Nat \ {0} /\ more[1][1] = "enable"
      /\ \A i \in 1 .. Len(more) : more[i][1] \in {"enable", "go", "release"}
      /\ \A i \in 1 .. Len(more) : more[i][1] = "go" => t = "page"
  BY <1>3, WatchedFirst DEF more
<1>6. /\ IsLog(q) /\ Len(q) = Len(orders[t]) + Len(more) /\ Len(orders[t]) \in Nat /\ Len(more) \in Nat
      /\ \A i \in 1 .. Len(orders[t]) : q[i] = orders[t][i]
      /\ \A i \in 1 .. Len(more) : q[Len(orders[t]) + i] = more[i]
  BY <1>1, <1>5, LogJoined DEF q, BrowserInv, OrdersOK
<1>7. ASSUME NEW i \in (Len(orders[t]) + 1) .. Len(q) PROVE OrderOK(t, q, i, target, excused)
  <2>1. /\ i - Len(orders[t]) \in 1 .. Len(more) /\ Len(orders[t]) + (i - Len(orders[t])) = i
        /\ 1 \in 1 .. Len(more)
    BY <1>5, <1>6
  <2>2. q[i] = more[i - Len(orders[t])] /\ q[Len(orders[t]) + 1] = more[1]
    BY <1>6, <2>1
  <2>3. q[i][1] \in {"enable", "go", "release"} /\ (q[i][1] = "go" => t = "page")
    BY <1>5, <2>1, <2>2
  <2>4. ASSUME q[i][1] = "release" PROVE \E j \in 1 .. (i - 1) : q[j][1] = "enable"
    <3>1. i # Len(orders[t]) + 1
      BY <1>5, <2>2, <2>4
    <3>2. Len(orders[t]) + 1 \in 1 .. (i - 1)
      BY <1>6, <3>1
    <3> QED
      BY <1>5, <2>2, <3>2
  <2> QED
    BY <2>3, <2>4 DEF OrderOK
<1>8. OrdersOK'
  <2>1. Len(q) \in Nat /\ Len(orders[t]) <= Len(q)
    BY <1>6
  <2> QED
    BY <1>1, <1>2, <1>6, <1>7, <2>1, OrdersSent DEF BrowserInv
<1>9. Onward
  BY <1>1, <1>2 DEF Onward
<1>10. /\ NewsOK'
       /\ \A x : \A f \in B!Senders :
            B!Holds(news[f], x) => B!Holds(news'[f], x) \/ (f = from /\ x = n)
  BY <1>1, <1>9, NewsTaken DEF BrowserInv, n
<1>11. ScriptsKept'
  <2>1. \A s \in Scripts : <<"parsed", s>> # n
    BY DEF n
  <2> QED
    BY <1>1, <1>2, <1>10, <2>1, BrowserTargets, KeptStays DEF BrowserInv
<1>12. DriverOK'
  <2>1. drive = [step |-> drive.step, route |-> drive.route, acts |-> drive.acts,
                 want |-> drive.want, moved |-> drive.moved]
    BY DEF BrowserInv, DriverOK
  <2>2. /\ drive' = [step |-> drive'.step, route |-> drive'.route, acts |-> drive'.acts,
                     want |-> drive'.want, moved |-> drive'.moved]
        /\ drive'.step = drive.step /\ drive'.moved = moved
    BY <1>4, <2>1
  <2>3. drive'.moved = FALSE \/ target["page"].life # "absent"
    BY <1>1, <1>4, <2>2 DEF BrowserInv, DriverOK
  <2> QED
    BY <1>1, <1>2, <2>2, <2>3 DEF BrowserInv, DriverOK
<1>13. TargetsOK'
  BY <1>1, <1>2 DEF BrowserInv, TargetsOK
<1> QED
  BY <1>8, <1>10, <1>11, <1>12, <1>13 DEF BrowserInv

LEMMA ParsedBrowserInv ==
  ASSUME BrowserInv, NEW from \in B!Senders, B!Receive(from), Head(news[from])[1] = "parsed"
  PROVE  BrowserInv'
<1> DEFINE n == Head(news[from])
           s == n[2]
<1>1. /\ news[from] # <<>> /\ news' = [news EXCEPT ![from] = Tail(@)]
      /\ s \in Scripts /\ s.target = from /\ StillThere(from, s, target)
      /\ UNCHANGED <<target, ran>>
      /\ drive.step \notin {"generator", "over"}
      /\ B!Asks(n) => target["page"].life # "dead"
      /\ B!OnParsed(s)
  BY Received DEF MessageOK
<1>2. /\ IF B!AtCap THEN UNCHANGED <<parsed, pending, orders>>
         ELSE /\ parsed' = parsed \cup {s}
              /\ IF from \in detached THEN UNCHANGED <<pending, orders>>
                 ELSE /\ pending' = pending \cup {s}
                      /\ orders' = [orders EXCEPT ![from] = Append(@, <<"source", s>>)]
      /\ excused' = IF B!TooLate(s) THEN excused \cup {s} ELSE excused
      /\ UNCHANGED <<drive, out, detached, blocked>>
  BY <1>1 DEF B!OnParsed
<1>3. ~B!AtCap /\ from \notin detached => target["page"].life # "dead"
  <2>1. ASSUME ~B!AtCap, from \notin detached PROVE B!Asks(n)
    BY <1>1, <2>1 DEF B!Asks
  <2> QED
    BY <1>1, <2>1
<1>h. n[1] = "parsed"
  OBVIOUS
<1> HIDE DEF n, s
<1>4. from \in B!Targets
  BY <1>1, BrowserTargets
<1>5. Onward
  BY <1>1, <1>2 DEF Onward
<1>6. /\ NewsOK'
      /\ \A x : \A f \in B!Senders :
           B!Holds(news[f], x) => B!Holds(news'[f], x) \/ (f = from /\ x = n)
  BY <1>1, <1>5, NewsTaken DEF BrowserInv, n
<1>7. ScriptsKept'
  <2>1. ran' \subseteq Scripts
    BY <1>1 DEF BrowserInv, ScriptsKept
  <2>2. CASE B!AtCap
    <3>1. B!AtCap'
      BY <1>2, <2>2 DEF B!AtCap
    <3> QED
      BY <2>1, <3>1 DEF ScriptsKept
  <2>3. CASE ~B!AtCap
    <3>1. s \in excused' \/ s \in pending'
      BY <1>1, <1>2, <2>3 DEF BrowserInv, DriverOK, Excused
    <3>2. pending \subseteq pending' /\ excused \subseteq excused'
      BY <1>2, <2>3
    <3>3. ASSUME NEW x \in ran
          PROVE  \/ x.text \in out' \/ x \in excused'
                 \/ B!Holds(news'[x.target], <<"parsed", x>>)
                 \/ x \in pending'
      <4>1. \/ x.text \in out \/ x \in excused
            \/ B!Holds(news[x.target], <<"parsed", x>>)
            \/ x \in pending
        BY <2>3 DEF BrowserInv, ScriptsKept
      <4>2. x.target \in B!Senders
        BY BrowserTargets DEF BrowserInv, ScriptsKept
      <4>3. CASE B!Holds(news[x.target], <<"parsed", x>>)
        <5>1. B!Holds(news'[x.target], <<"parsed", x>>) \/ <<"parsed", x>> = n
          BY <1>6, <4>2, <4>3
        <5>2. <<"parsed", x>> = n => x = s
          BY DEF s
        <5> QED
          BY <3>1, <5>1, <5>2
      <4> QED
        BY <1>2, <3>2, <4>1, <4>3
    <3> QED
      BY <1>1, <2>1, <3>3 DEF ScriptsKept
  <2> QED
    BY <2>2, <2>3
<1>8. OrdersOK'
  <2>1. CASE B!AtCap \/ from \in detached
    <3>1. UNCHANGED orders /\ \A u \in B!Targets : Steady(u)
      BY <1>1, <1>2, <2>1 DEF Steady
    <3> QED
      BY <1>1, <1>5, <3>1, OrdersStay DEF BrowserInv, Onward
  <2>2. CASE ~B!AtCap /\ from \notin detached
    <3>1. orders' = [orders EXCEPT ![from] = Append(@, <<"source", s>>)]
      BY <1>2, <2>2
    <3>3. target[from].life # "absent" /\ (from # "page" => target[from].doc = s.doc)
      BY <1>1, <1>3, <2>2 DEF StillThere
    <3>4. s \in excused' \/ (target[from].doc = s.doc /\ \A j \in 1 .. Len(orders[from]) : orders[from][j][1] # "go")
      <4>1. CASE from = "page"
        BY <1>1, <1>2, <4>1 DEF B!TooLate
      <4>2. CASE from # "page"
        <5>1. \A j \in 1 .. Len(orders[from]) : orders[from][j][1] # "go"
          BY <1>4, <4>2 DEF BrowserInv, OrdersOK, OrderOK
        <5> QED
          BY <3>3, <4>2, <5>1
      <4> QED
        BY <4>1, <4>2
    <3>5. excused \subseteq excused' /\ UNCHANGED target /\ OrdersOK
      BY <1>1, <1>2 DEF BrowserInv
    <3> QED
      BY <1>1, <1>4, <3>1, <3>3, <3>4, <3>5, OrdersAppended
  <2> QED
    BY <2>1, <2>2
<1>9. DriverOK'
  <2>1. drive.step = "meta" => B!TooLate(s)
    BY DEF B!TooLate
  <2>2. pending' \subseteq pending \cup {s} /\ excused \subseteq excused' /\ (drive.step = "meta" => s \in excused')
    BY <1>2, <2>1
  <2> QED
    BY <1>1, <1>2, <2>2 DEF BrowserInv, DriverOK, Excused
<1>10. TargetsOK'
  BY <1>1, <1>5 DEF BrowserInv, TargetsOK, Excused, Onward
<1> QED
  BY <1>6, <1>7, <1>8, <1>9, <1>10 DEF BrowserInv

LEMMA SourceBrowserInv ==
  ASSUME BrowserInv, NEW from \in B!Senders, B!Receive(from), Head(news[from])[1] = "source"
  PROVE  BrowserInv'
<1> DEFINE n == Head(news[from])
           s == n[2]
<1>1. /\ news[from] # <<>> /\ news' = [news EXCEPT ![from] = Tail(@)]
      /\ n[3] = TRUE \/ s \in excused
      /\ UNCHANGED <<target, ran>>
      /\ B!OnSource(s, n[3])
  BY Received DEF MessageOK
<1>2. /\ pending' = pending \ {s}
      /\ out' = IF s \in pending /\ n[3] THEN out \cup {s.text} ELSE out
      /\ UNCHANGED <<orders, drive, parsed, detached, blocked, excused>>
  BY <1>1 DEF B!OnSource
<1>3. s \in pending => s \in excused \/ s.text \in out'
  BY <1>1, <1>2
<1>4. \A x \in Scripts : <<"parsed", x>> # n
  OBVIOUS
<1> HIDE DEF n, s
<1>5. Onward
  BY <1>1, <1>2 DEF Onward
<1>6. /\ NewsOK'
      /\ \A x : \A f \in B!Senders :
           B!Holds(news[f], x) => B!Holds(news'[f], x) \/ (f = from /\ x = n)
  BY <1>1, <1>5, NewsTaken DEF BrowserInv, n
<1>7. ScriptsKept'
  <2>1. \A x \in pending : x \in pending' \/ x \in excused' \/ x.text \in out'
    BY <1>2, <1>3
  <2> QED
    BY <1>1, <1>2, <1>4, <1>6, <2>1, BrowserTargets, KeptStays DEF BrowserInv
<1>8. OrdersOK' /\ TargetsOK' /\ DriverOK'
  BY <1>1, <1>2 DEF BrowserInv, OrdersOK, TargetsOK, DriverOK
<1> QED
  BY <1>6, <1>7, <1>8 DEF BrowserInv

LEMMA DetachedBrowserInv ==
  ASSUME BrowserInv, NEW from \in B!Senders, B!Receive(from), Head(news[from])[1] = "detached"
  PROVE  BrowserInv'
<1> DEFINE n == Head(news[from])
           t == n[2]
<1>1. /\ news[from] # <<>> /\ news' = [news EXCEPT ![from] = Tail(@)]
      /\ Excused(t, excused)
      /\ UNCHANGED <<target, ran>>
      /\ B!OnDetached(t)
  BY Received DEF MessageOK
<1>2. /\ detached' = detached \cup {t}
      /\ pending' = {x \in pending : x.target # t}
      /\ UNCHANGED <<orders, drive, parsed, out, blocked, excused>>
  BY <1>1 DEF B!OnDetached, B!Owed
<1>4. \A x \in Scripts : <<"parsed", x>> # n
  OBVIOUS
<1> HIDE DEF n, t
<1>5. Onward
  BY <1>1, <1>2 DEF Onward
<1>6. /\ NewsOK'
      /\ \A x : \A f \in B!Senders :
           B!Holds(news[f], x) => B!Holds(news'[f], x) \/ (f = from /\ x = n)
  BY <1>1, <1>5, NewsTaken DEF BrowserInv, n
<1>7. ScriptsKept'
  <2>1. \A x \in ran : x \in pending => x \in pending' \/ x \in excused'
    BY <1>1, <1>2 DEF Excused, BrowserInv, ScriptsKept
  <2>2. B!AtCap <=> B!AtCap'
    BY <1>2 DEF B!AtCap
  <2> QED
    BY <1>1, <1>2, <1>4, <1>6, <2>1, <2>2, BrowserTargets DEF BrowserInv, ScriptsKept
<1>8. OrdersOK' /\ TargetsOK'
  BY <1>1, <1>2 DEF BrowserInv, OrdersOK, TargetsOK
<1>9. DriverOK'
  BY <1>1, <1>2 DEF BrowserInv, DriverOK
<1> QED
  BY <1>6, <1>7, <1>8, <1>9 DEF BrowserInv

LEMMA AckBrowserInv ==
  ASSUME BrowserInv, NEW from \in B!Senders, B!Receive(from), Head(news[from])[1] = "ack"
  PROVE  BrowserInv'
<1> DEFINE n == Head(news[from])
<1>1. /\ news[from] # <<>> /\ news' = [news EXCEPT ![from] = Tail(@)]
      /\ UNCHANGED <<target, ran>>
      /\ B!OnAck(n[2], n[3])
      /\ drive.step \notin {"generator", "over"}
  BY Received
<1>2. /\ drive' = [drive EXCEPT !.step = B!WaitOver(drive.step)] \/ UNCHANGED drive
      /\ UNCHANGED <<orders, parsed, pending, out, detached, excused>>
  BY <1>1 DEF B!OnAck
<1>4. \A x \in Scripts : <<"parsed", x>> # n
  OBVIOUS
<1> HIDE DEF n
<1>5. Onward
  BY <1>1, <1>2 DEF Onward
<1>6. /\ NewsOK'
      /\ \A x : \A f \in B!Senders :
           B!Holds(news[f], x) => B!Holds(news'[f], x) \/ (f = from /\ x = n)
  BY <1>1, <1>5, NewsTaken DEF BrowserInv, n
<1>7. ScriptsKept'
  BY <1>1, <1>2, <1>4, <1>6, BrowserTargets, KeptStays DEF BrowserInv
<1>8. OrdersOK' /\ TargetsOK'
  BY <1>1, <1>2 DEF BrowserInv, OrdersOK, TargetsOK
<1>9. B!WaitOver(drive.step) \in {"generator", "meta", "over"} => drive.step \in {"generator", "meta", "over"}
  BY DEF B!WaitOver
<1>10. DriverOK'
  <2> DEFINE step == B!WaitOver(drive.step)
  <2>1. CASE UNCHANGED drive
    BY <1>1, <1>2, <2>1, DriverStays DEF BrowserInv
  <2>2. CASE drive' = [drive EXCEPT !.step = step]
    <3> HIDE DEF step
    <3>1. drive = [step |-> drive.step, route |-> drive.route, acts |-> drive.acts,
                   want |-> drive.want, moved |-> drive.moved]
      BY DEF BrowserInv, DriverOK
    <3>2. /\ drive' = [step |-> drive'.step, route |-> drive'.route, acts |-> drive'.acts,
                       want |-> drive'.want, moved |-> drive'.moved]
          /\ drive'.step = step /\ drive'.moved = drive.moved
      BY <2>2, <3>1
    <3>3. drive'.moved = FALSE \/ target["page"].life # "absent"
      BY <3>2 DEF BrowserInv, DriverOK
    <3>4. drive'.step \in {"generator", "meta", "over"} => pending \subseteq excused
      BY <1>9, <3>2 DEF BrowserInv, DriverOK, step
    <3> QED
      BY <1>1, <1>2, <3>2, <3>3, <3>4 DEF BrowserInv, DriverOK
  <2> QED
    BY <1>2, <2>1, <2>2
<1> QED
  BY <1>6, <1>7, <1>8, <1>10 DEF BrowserInv

LEMMA ReceiveBrowserInv ==
  ASSUME BrowserInv, NEW from \in B!Senders, B!Receive(from)
  PROVE  BrowserInv'
<1>1. Head(news[from])[1] \in {"attached", "parsed", "source", "detached", "ack"}
  BY Received DEF MessageOK
<1> QED
  BY <1>1, AttachedBrowserInv, ParsedBrowserInv, SourceBrowserInv, DetachedBrowserInv, AckBrowserInv

LEMMA AbortsBrowserInv ==
  ASSUME BrowserInv, ran' = {}, NEW step, B!Aborts(step), step \notin {"generator", "meta", "over"}
  PROVE  BrowserInv'
<1>1. /\ drive' = [step |-> step, route |-> 0, acts |-> 0, want |-> 0, moved |-> TRUE]
      /\ target' = B!Dead
      /\ orders' = [t \in B!Targets |-> <<>>] /\ news' = [f \in DOMAIN news |-> <<>>]
      /\ detached' = {}
  BY DEF B!Aborts
<1>2. target' = [t \in B!Targets |-> [life |-> "dead", debug |-> FALSE, doc |-> 0]]
  BY <1>1 DEF B!Dead
<1>3. /\ target' = [u \in B!Targets |-> [life |-> target'[u].life, debug |-> target'[u].debug,
                                          doc |-> target'[u].doc]]
      /\ \A u \in B!Targets : target'[u].life = "dead"
  BY <1>2
<1>4. TargetsOK'
  BY <1>3 DEF TargetsOK
<1>5. NewsOK'
  <2>1. DOMAIN news = B!Senders
    BY DEF BrowserInv, NewsOK
  <2>2. /\ DOMAIN news' = B!Senders /\ news' = [f \in B!Senders |-> news'[f]]
        /\ \A f \in B!Senders : news'[f] = <<>>
    BY <1>1, <2>1
  <2> QED
    BY <2>2, LogEmpty DEF NewsOK
<1>6. OrdersOK'
  BY <1>1, LogEmpty DEF OrdersOK
<1>7. DriverOK'
  <2>1. drive'.step = step /\ target'["page"].life # "absent"
    BY <1>1, <1>3, BrowserTargets
  <2>2. drive' = [step |-> drive'.step, route |-> drive'.route, acts |-> drive'.acts,
                  want |-> drive'.want, moved |-> drive'.moved]
    BY <1>1
  <2> QED
    BY <1>1, <2>1, <2>2 DEF DriverOK
<1>8. ScriptsKept'
  BY DEF ScriptsKept
<1> QED
  BY <1>4, <1>5, <1>6, <1>7, <1>8 DEF BrowserInv

LEMMA AbortRan ==
  ASSUME NEW step, B!Aborts(step)
  PROVE  ran' = {}
BY DEF B!Aborts

(* The driver goes on to another step, and what it no longer waits for is excused. *)
LEMMA StepBrowserInv ==
  ASSUME BrowserInv, UNCHANGED <<target, ran, orders, news, parsed, pending, out, detached>>,
         NEW d, drive' = d,
         d = [step |-> d.step, route |-> d.route, acts |-> d.acts, want |-> d.want, moved |-> d.moved],
         d.moved = drive.moved, excused \subseteq excused',
         d.step \in {"generator", "meta", "over"} => pending \subseteq excused'
  PROVE  BrowserInv'
<1>1. TargetsOK'
  BY DEF BrowserInv, TargetsOK, Excused
<1>2. NewsOK'
  BY NewsStays DEF BrowserInv, Onward
<1>3. OrdersOK'
  BY OrdersStay DEF BrowserInv, Steady
<1>4. DriverOK'
  <2>1. drive.moved = FALSE \/ target["page"].life # "absent"
    BY DEF BrowserInv, DriverOK
  <2>2. d.moved = FALSE \/ target'["page"].life # "absent"
    BY <2>1
  <2>3. \A t \in detached' : Excused(t, excused')
    BY DEF BrowserInv, DriverOK, Excused
  <2> QED
    BY <2>2, <2>3 DEF DriverOK
<1>5. ScriptsKept'
  BY KeptStays DEF BrowserInv
<1> QED
  BY <1>1, <1>2, <1>3, <1>4, <1>5 DEF BrowserInv

LEMMA StepOnly ==
  ASSUME BrowserInv, UNCHANGED <<target, ran, orders, news, parsed, pending, out, detached>>,
         NEW step, drive' = [drive EXCEPT !.step = step], excused \subseteq excused',
         step \in {"generator", "meta", "over"} => pending \subseteq excused'
  PROVE  BrowserInv'
<1> DEFINE d == [drive EXCEPT !.step = step]
<1>1. drive = [step |-> drive.step, route |-> drive.route, acts |-> drive.acts,
               want |-> drive.want, moved |-> drive.moved]
  BY DEF BrowserInv, DriverOK
<1>2. /\ d = [step |-> d.step, route |-> d.route, acts |-> d.acts, want |-> d.want, moved |-> d.moved]
      /\ d.step = step /\ d.moved = drive.moved
  BY <1>1
<1> HIDE DEF d
<1>3. drive' = d
  BY DEF d
<1> QED
  BY <1>2, <1>3, StepBrowserInv

LEMMA PhaseEndsBrowserInv ==
  ASSUME BrowserInv, B!PhaseEnds, pending \subseteq excused' \/ pending = {},
         excused \subseteq excused'
  PROVE  BrowserInv'
<1>1. PICK step \in B!After : drive' = [drive EXCEPT !.step = step]
  BY DEF B!PhaseEnds
<1>2. UNCHANGED <<target, ran, orders, news, parsed, pending, out, detached>>
  BY DEF B!PhaseEnds, B!browser
<1> QED
  BY <1>1, <1>2, StepOnly

LEMMA ReplyTimesOutBrowserInv ==
  ASSUME BrowserInv, B!ReplyTimesOut
  PROVE  BrowserInv'
<1> DEFINE step == IF drive.step = "collect" THEN "flush" ELSE B!WaitOver(drive.step)
<1>1. /\ drive' = [drive EXCEPT !.step = step]
      /\ excused' = excused \cup pending
      /\ UNCHANGED <<target, ran, orders, news, parsed, pending, out, detached>>
  BY DEF B!ReplyTimesOut, B!browser, B!found
<1> HIDE DEF step
<1>2. excused \subseteq excused' /\ pending \subseteq excused'
  BY <1>1
<1> QED
  BY <1>1, <1>2, StepOnly

LEMMA EndRoutesBrowserInv ==
  ASSUME BrowserInv, B!EndRoutes
  PROVE  BrowserInv'
<1>1. /\ drive' = [drive EXCEPT !.step = "flush"]
      /\ UNCHANGED <<target, ran, orders, news, parsed, pending, out, detached, excused>>
  BY DEF B!EndRoutes, B!browser, B!found
<1> QED
  BY <1>1, StepOnly

(* A command is sent to the page, or skipped, or the connection is closed. *)
LEMMA SendsBrowserInv ==
  ASSUME BrowserInv, NEW order \in {"go", "eval"}, NEW d, NEW waits, NEW skips,
         B!Sends(order, d, waits, skips),
         d = [step |-> d.step, route |-> d.route, acts |-> d.acts, want |-> d.want, moved |-> d.moved],
         d.moved = drive.moved,
         waits \in {"generator", "meta", "over"} \/ skips \in {"generator", "meta", "over"} =>
           pending \subseteq excused
  PROVE  BrowserInv'
<1>1. CASE ~B!NoPage /\ ~B!Alive
  <2>1. B!Aborts("raised")
    BY <1>1 DEF B!Sends
  <2> QED
    BY <2>1, AbortRan, AbortsBrowserInv
<1>2. CASE B!NoPage
  <2> DEFINE e == [d EXCEPT !.step = skips]
  <2>1. /\ drive' = e
        /\ UNCHANGED <<target, ran, orders, news, parsed, pending, out, detached, excused>>
    BY <1>2 DEF B!Sends, B!browser, B!found
  <2>2. /\ e = [step |-> e.step, route |-> e.route, acts |-> e.acts, want |-> e.want, moved |-> e.moved]
        /\ e.step = skips /\ e.moved = d.moved
    OBVIOUS
  <2> HIDE DEF e
  <2> QED
    BY <2>1, <2>2, StepBrowserInv
<1>3. CASE ~B!NoPage /\ B!Alive
  <2> DEFINE id == d.want + 1
             e == [d EXCEPT !.step = waits, !.want = id]
  <2>1. /\ drive' = e
        /\ orders' = [orders EXCEPT !["page"] = Append(@, <<order, id>>)]
        /\ UNCHANGED <<target, ran, news, parsed, pending, out, detached, excused>>
    BY <1>3 DEF B!Sends, B!browser, B!found
  <2>2. drive.moved = TRUE
    BY <1>3 DEF B!NoPage
  <2>3. target["page"].life # "absent"
    BY <2>2 DEF BrowserInv, DriverOK
  <2> HIDE DEF id
  <2> DEFINE f == [d EXCEPT !.step = waits]
  <2>f. f = [step |-> waits, route |-> d.route, acts |-> d.acts, want |-> d.want, moved |-> d.moved]
    OBVIOUS
  <2>e. e = [f EXCEPT !.want = id]
    OBVIOUS
  <2> HIDE DEF f
  <2> HIDE DEF e
  <2>4. /\ e = [step |-> e.step, route |-> e.route, acts |-> e.acts, want |-> e.want, moved |-> e.moved]
        /\ e.step = waits /\ e.moved = d.moved
    BY <2>e, <2>f
  <2>5. OrdersOK'
    BY <2>1, <2>3, BrowserTargets, OrdersAppended DEF BrowserInv
  <2>6. TargetsOK'
    BY <2>1 DEF BrowserInv, TargetsOK
  <2>7. NewsOK'
    BY <2>1 DEF BrowserInv, NewsOK
  <2>8. DriverOK'
    BY <2>1, <2>3, <2>4 DEF BrowserInv, DriverOK
  <2>9. ScriptsKept'
    BY <2>1, KeptStays DEF BrowserInv
  <2> QED
    BY <2>5, <2>6, <2>7, <2>8, <2>9 DEF BrowserInv
<1> QED
  BY <1>1, <1>2, <1>3

LEMMA CommandBrowserInv ==
  ASSUME BrowserInv, B!Act \/ B!CollectRoutes \/ B!NextRoute \/ B!ReadGenerator
  PROVE  BrowserInv'
<1>1. drive = [step |-> drive.step, route |-> drive.route, acts |-> drive.acts,
               want |-> drive.want, moved |-> drive.moved]
  BY DEF BrowserInv, DriverOK
<1>2. CASE B!Act
  <2> DEFINE acts == drive.acts + 1
             d == [drive EXCEPT !.acts = acts]
  <2>1. B!Sends("eval", d, "eval", "settle")
    BY <1>2 DEF B!Act
  <2> HIDE DEF acts
  <2>2. /\ d = [step |-> d.step, route |-> d.route, acts |-> d.acts, want |-> d.want, moved |-> d.moved]
        /\ d.moved = drive.moved
    BY <1>1
  <2> HIDE DEF d
  <2> QED
    BY <2>1, <2>2, SendsBrowserInv
<1>3. CASE B!CollectRoutes
  <2>1. B!Sends("eval", drive, "collect", "flush")
    BY <1>3 DEF B!CollectRoutes
  <2> QED
    BY <1>1, <2>1, SendsBrowserInv
<1>4. CASE B!NextRoute
  <2> DEFINE route == drive.route + 1
             d == [drive EXCEPT !.route = route, !.acts = 0]
  <2>1. B!Sends("go", d, "going", "settle")
    BY <1>4 DEF B!NextRoute
  <2> HIDE DEF route
  <2> DEFINE f == [drive EXCEPT !.route = route]
  <2>f. f = [step |-> drive.step, route |-> route, acts |-> drive.acts, want |-> drive.want,
             moved |-> drive.moved]
    BY <1>1
  <2>d. d = [f EXCEPT !.acts = 0]
    OBVIOUS
  <2> HIDE DEF f
  <2> HIDE DEF d
  <2>2. /\ d = [step |-> d.step, route |-> d.route, acts |-> d.acts, want |-> d.want, moved |-> d.moved]
        /\ d.moved = drive.moved
    BY <2>d, <2>f
  <2> QED
    BY <2>1, <2>2, SendsBrowserInv
<1>5. CASE B!ReadGenerator
  <2>1. B!Sends("eval", drive, "meta", "over") /\ drive.step = "generator"
    BY <1>5 DEF B!ReadGenerator
  <2>2. pending \subseteq excused
    BY <2>1 DEF BrowserInv, DriverOK
  <2> QED
    BY <1>1, <2>1, <2>2, SendsBrowserInv
<1> QED
  BY <1>2, <1>3, <1>4, <1>5

LEMMA BrowserInvInit ==
  ASSUME B!Init
  PROVE  BrowserInv
<1>1. TargetsOK
  <2>1. target = [t \in B!Targets |-> [life |-> "absent", debug |-> FALSE, doc |-> 0]]
    BY DEF B!Init
  <2> QED
    BY <2>1 DEF TargetsOK
<1>2. NewsOK
  BY LogEmpty DEF B!Init, NewsOK
<1>3. OrdersOK
  BY LogEmpty DEF B!Init, OrdersOK
<1>4. DriverOK
  <2>1. /\ drive = [step |-> "load", route |-> 0, acts |-> 0, want |-> 0, moved |-> FALSE]
        /\ pending = {} /\ detached = {}
    BY DEF B!Init
  <2> QED
    BY <2>1 DEF DriverOK
<1>5. ScriptsKept
  BY DEF B!Init, ScriptsKept
<1> QED
  BY <1>1, <1>2, <1>3, <1>4, <1>5 DEF BrowserInv

LEMMA BrowserInvNext ==
  ASSUME BrowserInv, [B!Next]_browserVars
  PROVE  BrowserInv'
<1>1. ASSUME NEW t \in B!Targets, B!Attach(t) \/ B!CarryOut(t) \/ B!TargetEnds(t) PROVE BrowserInv'
  BY <1>1, AttachBrowserInv, CarryOutBrowserInv, TargetEndsBrowserInv
<1>2. ASSUME NEW s \in Scripts, B!RunScript(s) PROVE BrowserInv'
  BY <1>2, RunScriptBrowserInv
<1>3. CASE B!PageMoves \/ B!BrowserDies
  BY <1>3, PageMovesBrowserInv, BrowserDiesBrowserInv
<1>4. ASSUME NEW from \in B!Senders, B!Receive(from) PROVE BrowserInv'
  BY <1>4, ReceiveBrowserInv
<1>5. ASSUME NEW from \in B!Senders, B!ReceiveRaises(from) PROVE BrowserInv'
  <2>1. B!Aborts("raised")
    BY <1>5 DEF B!ReceiveRaises
  <2> QED
    BY <2>1, AbortRan, AbortsBrowserInv
<1>6. CASE B!PhaseSettles \/ B!PhaseTimesOut
  <2>1. B!PhaseEnds /\ (pending = {} \/ pending \subseteq excused') /\ excused \subseteq excused'
    BY <1>6 DEF B!PhaseSettles, B!PhaseTimesOut, B!Settled
  <2> QED
    BY <2>1, PhaseEndsBrowserInv
<1>7. CASE B!ReplyTimesOut \/ B!EndRoutes
  BY <1>7, ReplyTimesOutBrowserInv, EndRoutesBrowserInv
<1>8. CASE B!Act \/ B!CollectRoutes \/ B!NextRoute \/ B!ReadGenerator
  BY <1>8, CommandBrowserInv
<1>9. CASE B!Interrupt
  <2>1. B!Aborts("interrupted")
    BY <1>9 DEF B!Interrupt
  <2> QED
    BY <2>1, AbortRan, AbortsBrowserInv
<1>10. CASE UNCHANGED browserVars
  BY <1>10 DEF browserVars, BrowserInv, TargetsOK, NewsOK, OrdersOK, DriverOK, ScriptsKept, B!AtCap, B!Holds
<1> QED
  BY <1>1, <1>2, <1>3, <1>4, <1>5, <1>6, <1>7, <1>8, <1>9, <1>10 DEF B!Next

LEMMA BrowserInductive == B!Init /\ [][B!Next]_browserVars => []BrowserInv
<1>1. B!Init => BrowserInv
  BY BrowserInvInit
<1>2. BrowserInv /\ [B!Next]_browserVars => BrowserInv'
  BY BrowserInvNext
<1> QED
  BY <1>1, <1>2, PTL

LEMMA BrowserMissesNone ==
  ASSUME BrowserInv
  PROVE  B!NoScriptMissed
<1>1. ASSUME B!Returns, NEW s \in ran
      PROVE  \/ s.text \in out \/ s \in excused \/ B!AtCap
             \/ B!Holds(news[s.target], <<"parsed", s>>)
             \/ s \in pending /\ drive.step # "over"
  BY <1>1 DEF BrowserInv, ScriptsKept, DriverOK
<1> QED
  BY <1>1 DEF B!NoScriptMissed

-----------------------------------------------------------------------------
(* Chunks: the steps of a builder, and the public path it runs with.        *)
StepsOf(u) == IF u.form = "expr" THEN <<K!Return(u.body)>> ELSE u.body

RuntimePath(b, o) ==
  LET last == {i \in K!Nodes(b, "p", o) : b[i].text # K!Computed /\ i = K!Greatest(K!Nodes(b, "p", o))}
  IN  IF last = {} THEN K!NoUrl ELSE <<b[K!Least(last)].text>>

BuiltBy(b, url) ==
  \E i \in DOMAIN b : b[i].is = "u" /\
    \E id \in K!NamedIds(b, b[i].of) \ {K!Computed} : url \in K!RuntimeUrls(b, b[i].of, id)

(* A URL still to be looked at is one of the bundle's own too.               *)
ChunkInv ==
  /\ bundle \in Bundles
  /\ K!AsWebpackWrites(bundle) => \A url \in todo \union urls : BuiltBy(bundle, url)

LEMMA LeastOfSome ==
  ASSUME NEW n \in Nat, NEW S \in SUBSET (1 .. n), S # {}
  PROVE  K!Least(S) \in S /\ \A i \in S : K!Least(S) <= i
<1>1. S \subseteq Nat
  OBVIOUS
<1>2. PICK m \in S : \A k \in S : ~(<<k, m>> \in OpToRel(<, Nat))
  BY <1>1, WFMin, NatLessThanWellFounded, Zenon
<1>3. \A k \in S : ~(k < m)
  BY <1>1, <1>2 DEF OpToRel
<1>4. \A k \in S : m <= k
  BY <1>1, <1>3
<1> QED
  BY <1>4 DEF K!Least

LEMMA OfOne ==
  ASSUME NEW x \in Nat
  PROVE  K!Least({x}) = x /\ K!Greatest({x}) = x
BY DEF K!Least, K!Greatest

LEMMA ListedIs ==
  ASSUME NEW s, K!Listed(s)
  PROVE  Len(s) \in Nat /\ DOMAIN s = 1 .. Len(s)
BY DEF K!Listed

LEMMA BundleListed ==
  ASSUME NEW b \in Bundles
  PROVE  /\ Len(b) \in Nat /\ DOMAIN b = 1 .. Len(b)
         /\ \A i \in DOMAIN b : b[i].is = "u" =>
              IF b[i].form = "expr" THEN K!IsExpression(b[i].body) ELSE K!IsBlock(b[i].body)
<1>1. K!EnumConstants
  BY FindingsAssumption
<1>2. /\ K!Listed(b)
      /\ \A i \in DOMAIN b : b[i].is = "u" =>
           IF b[i].form = "expr" THEN K!IsExpression(b[i].body) ELSE K!IsBlock(b[i].body)
  BY <1>1 DEF K!EnumConstants
<1> QED
  BY <1>2, ListedIs

(* What folds is what the expression comes to.                               *)
LEMMA FoldIsValue ==
  ASSUME NEW x, NEW id, K!Foldable(x), K!Fold(x, id) # K!NoUrl
  PROVE  /\ K!Value(x, id) = K!Fold(x, id)
         /\ \A i \in DOMAIN x.ops : x.ops[i].is = "map" => id \in DOMAIN x.ops[i].map
<1>1. \A i \in DOMAIN x.ops : x.ops[i].is = "map" => id \in DOMAIN x.ops[i].map
  BY DEF K!Fold, K!StaticKeys
<1>2. K!Fold(x, id) =
        [i \in DOMAIN x.ops |->
          CASE x.ops[i].is = "lit" -> x.ops[i].text
            [] x.ops[i].is = "param" -> id
            [] OTHER -> x.ops[i].map[id]]
  BY DEF K!Fold
<1>3. \A i \in DOMAIN x.ops : x.ops[i].is \in {"lit", "param", "map"}
  BY DEF K!Foldable
<1>4. K!Value(x, id) =
        [i \in DOMAIN x.ops |->
          CASE x.ops[i].is = "lit" -> x.ops[i].text
            [] x.ops[i].is = "param" -> id
            [] OTHER -> x.ops[i].map[id]]
  BY <1>1, <1>3 DEF K!Value
<1> QED
  BY <1>1, <1>2, <1>4

(* With one public path, the first that is a literal is the last.            *)
LEMMA PathsAgree ==
  ASSUME NEW b \in Bundles, K!AsWebpackWrites(b), NEW o
  PROVE  K!PublicPath(b, o) = RuntimePath(b, o)
<1> DEFINE paths == K!Nodes(b, "p", o)
           literal == {i \in paths : b[i].text # K!Computed}
           last == {i \in paths : b[i].text # K!Computed /\ i = K!Greatest(paths)}
<1>1. \A i, j \in paths : i = j
  BY DEF K!AsWebpackWrites, K!Nodes
<1>2. \A i \in paths : i \in Nat
  BY BundleListed DEF K!Nodes
<1>3. literal = last
  <2>1. ASSUME NEW i \in paths PROVE i = K!Greatest(paths)
    <3>1. paths = {i}
      BY <1>1, <2>1
    <3> HIDE DEF paths
    <3> QED
      BY <1>2, <2>1, <3>1, OfOne
  <2> HIDE DEF paths
  <2> QED
    BY <2>1
<1> QED
  BY <1>3 DEF K!PublicPath, RuntimePath

(* What a builder of the bundle comes to for an id it names is built by it.  *)
LEMMA BuilderBuilds ==
  ASSUME NEW b \in Bundles, K!AsWebpackWrites(b), NEW i \in DOMAIN b, b[i].is = "u",
         NEW id \in K!NamedIds(b, b[i].of), id # K!Computed,
         NEW x \in K!Returned(StepsOf(b[i]), id), NEW y \in K!Chosen(x, id),
         K!Foldable(y), K!Fold(y, id) # K!NoUrl
  PROVE  BuiltBy(b, K!PublicPath(b, b[i].of) \o K!Fold(y, id))
<1> DEFINE o == b[i].of
           ends == UNION {K!Chosen(z, id) : z \in K!Returned(StepsOf(b[i]), id)}
<1>1. K!Nodes(b, "u", o) = {i}
  BY DEF K!Nodes, K!AsWebpackWrites
<1>2. b[K!Greatest(K!Nodes(b, "u", o))] = b[i]
  <2>1. i \in Nat
    BY BundleListed
  <2> QED
    BY <1>1, <2>1, OfOne
<1>3. K!RuntimeUrls(b, o, id) = {RuntimePath(b, o) \o K!Value(z, id) : z \in ends}
  BY <1>2 DEF K!RuntimeUrls, RuntimePath, StepsOf
<1>4. y \in ends
  OBVIOUS
<1>5. RuntimePath(b, o) \o K!Value(y, id) = K!PublicPath(b, o) \o K!Fold(y, id)
  BY FoldIsValue, PathsAgree
<1> HIDE DEF ends
<1> QED
  BY <1>3, <1>4, <1>5 DEF BuiltBy

LEMMA NamedBy ==
  ASSUME NEW b \in Bundles, K!AsWebpackWrites(b), NEW i \in DOMAIN b, b[i].is = "u"
  PROVE  /\ \A j \in K!Nodes(b, "e", b[i].of) : b[j].id \in K!NamedIds(b, b[i].of)
         /\ b[i].form = "expr" => K!NamedIn(b[i].body) \subseteq K!NamedIds(b, b[i].of)
         /\ b[i].form # "expr" => \A j \in DOMAIN b[i].body :
              /\ b[i].body[j].is = "if" => b[i].body[j].test \in K!NamedIds(b, b[i].of)
              /\ b[i].body[j].is = "return" =>
                   K!NamedIn(b[i].body[j].value) \subseteq K!NamedIds(b, b[i].of)
<1> DEFINE o == b[i].of
           u == b[K!Greatest(K!Nodes(b, "u", o))]
           Of(s) == CASE s.is = "if" -> {s.test} [] s.is = "return" -> K!NamedIn(s.value) [] OTHER -> {}
<1>1. K!Nodes(b, "u", o) = {i}
  BY DEF K!Nodes, K!AsWebpackWrites
<1>2. u = b[i]
  <2>1. i \in Nat
    BY BundleListed
  <2> QED
    BY <1>1, <2>1, OfOne
<1>3. K!NamedIds(b, o) = {b[j].id : j \in K!Nodes(b, "e", o)}
        \union (IF u.form = "expr" THEN K!NamedIn(u.body) ELSE UNION {Of(u.body[j]) : j \in DOMAIN u.body})
  BY DEF K!NamedIds
<1>4. \A s : (s.is = "if" => Of(s) = {s.test}) /\ (s.is = "return" => Of(s) = K!NamedIn(s.value))
  OBVIOUS
<1> HIDE DEF u, Of
<1> QED
  BY <1>2, <1>3, <1>4

LEMMA MapsAreNamed ==
  ASSUME NEW x, NEW i \in DOMAIN x.ops, x.ops[i].is = "map", x.kind = "chain"
  PROVE  DOMAIN x.ops[i].map \subseteq K!NamedIn(x)
BY DEF K!NamedIn

LEMMA TemplateBuilds ==
  ASSUME NEW b \in Bundles, K!AsWebpackWrites(b), K!Templates(b) # {}, NEW url \in K!FromTemplate(b)
  PROVE  BuiltBy(b, url)
<1> DEFINE i == K!Least(K!Templates(b))
           u == b[i]
           x == CHOOSE y \in K!Collapse(u) : TRUE
<1>1. i \in K!Templates(b)
  <2>1. K!Templates(b) \in SUBSET (1 .. Len(b)) /\ Len(b) \in Nat
    BY BundleListed DEF K!Templates, K!Builders
  <2> QED
    BY <2>1, LeastOfSome
<1> HIDE DEF i
<1>2. i \in DOMAIN b /\ u.is = "u" /\ \E y \in K!Collapse(u) : K!Foldable(y)
  BY <1>1 DEF K!Templates, K!Builders
<1>3. PICK id \in K!ChunkIds(b, u.of, x) : url = K!PublicPath(b, u.of) \o K!Fold(x, id) /\ K!Fold(x, id) # K!NoUrl
  BY DEF K!FromTemplate, i
<1>4. IF u.form = "expr" THEN K!Collapse(u) = {u.body}
      ELSE /\ Len(u.body) = 1 /\ DOMAIN u.body = 1 .. 1
           /\ u.body[1].is = "return" /\ K!Collapse(u) = {u.body[1].value}
  <2>1. CASE u.form = "expr"
    BY <2>1 DEF K!Collapse
  <2>2. CASE u.form # "expr"
    <3>1. PICK j \in DOMAIN u.body : Len(u.body) = 1 /\ u.body[j].is = "return"
      BY <1>2, <2>2 DEF K!Collapse
    <3>2. DOMAIN u.body = 1 .. 1
      BY <1>2, <2>2, <3>1, BundleListed, ListedIs DEF K!IsBlock
    <3>3. j = 1
      BY <3>1, <3>2
    <3>4. K!Collapse(u) = {u.body[k].value : k \in {l \in DOMAIN u.body : Len(u.body) = 1 /\ u.body[l].is = "return"}}
      BY <2>2 DEF K!Collapse
    <3>5. {l \in DOMAIN u.body : Len(u.body) = 1 /\ u.body[l].is = "return"} = {1}
      BY <3>1, <3>2, <3>3
    <3> QED
      BY <2>2, <3>1, <3>2, <3>3, <3>4, <3>5
  <2> QED
    BY <2>1, <2>2
<1>5. K!Collapse(u) = {x} /\ K!Foldable(x)
  BY <1>2, <1>4
<1>6. x.kind = "chain"
  BY <1>5 DEF K!Foldable
<1>7. id # K!Computed /\ (\/ \E j \in K!Nodes(b, "e", u.of) : id = b[j].id
                          \/ \E j \in DOMAIN x.ops : x.ops[j].is = "map" /\ id \in DOMAIN x.ops[j].map)
  BY <1>3 DEF K!ChunkIds, K!StaticKeys
<1>8. id \in K!NamedIds(b, u.of)
  <2>1. K!NamedIn(x) \subseteq K!NamedIds(b, u.of)
    BY <1>2, <1>4, <1>5, NamedBy
  <2> HIDE DEF x, u
  <2> QED
    BY <1>2, <1>6, <1>7, <2>1, NamedBy, MapsAreNamed DEF u
<1>9. x \in K!Returned(StepsOf(u), id)
  <2> DEFINE steps == StepsOf(u)
  <2>1. DOMAIN steps = 1 .. 1 /\ steps[1].is = "return" /\ steps[1].value = x
    BY <1>4, <1>5 DEF StepsOf, K!Return
  <2> HIDE DEF steps
  <2>2. K!Reached(steps, 1, id)
    BY <2>1 DEF K!Reached
  <2> QED
    BY <2>1, <2>2 DEF K!Returned, steps
<1>10. x \in K!Chosen(x, id)
  BY <1>6 DEF K!Chosen
<1> HIDE DEF x
<1> QED
  BY <1>2, <1>3, <1>5, <1>7, <1>8, <1>9, <1>10, BuilderBuilds

(* The arm that names an id is the one it takes.                             *)
LEMMA ArmFolds ==
  ASSUME NEW steps, NEW url \in K!FoldArms(steps)
  PROVE  \E i \in DOMAIN steps :
           /\ steps[i].is = "if" /\ steps[i].test # K!Computed /\ K!Foldable(steps[i].value)
           /\ url = K!Fold(steps[i].value, steps[i].test) /\ url # K!NoUrl
BY DEF K!FoldArms

LEMMA ArmIsTaken ==
  ASSUME NEW steps, K!OneArmEach(steps), NEW i \in DOMAIN steps, steps[i].is = "if",
         steps[i].test # K!Computed, Len(steps) \in Nat, DOMAIN steps = 1 .. Len(steps),
         \A j \in 1 .. i - 1 : steps[j].is \in {"if", "other"}
  PROVE  K!Reached(steps, i, steps[i].test)
<1>1. \A j \in 1 .. i - 1 : j \in DOMAIN steps /\ j # i
  OBVIOUS
<1> QED
  BY <1>1 DEF K!Reached, K!OneArmEach

LEMMA TernaryTakes ==
  ASSUME NEW x, K!IsExpression(x), K!OneEach(x), NEW url \in K!Ternary(x)
  PROVE  /\ x.kind = "ternary"
         /\ \E i \in DOMAIN x.arms : LET y == x.arms[i].value  id == x.arms[i].test IN
              /\ id # K!Computed /\ K!Foldable(y) /\ url = K!Fold(y, id) /\ url # K!NoUrl
              /\ y \in K!Chosen(x, id) /\ id \in K!NamedIn(x)
<1>1. x.kind = "ternary" /\ url \in K!FoldArms(x.arms)
  BY DEF K!Ternary
<1>2. PICK i \in DOMAIN x.arms :
        /\ x.arms[i].is = "if" /\ x.arms[i].test # K!Computed /\ K!Foldable(x.arms[i].value)
        /\ url = K!Fold(x.arms[i].value, x.arms[i].test) /\ url # K!NoUrl
  BY <1>1, ArmFolds
<1> DEFINE arms == x.arms
           all == Append(arms, K!Return(x.default))
           id == arms[i].test
<1>3. /\ Len(arms) \in Nat /\ DOMAIN arms = 1 .. Len(arms)
      /\ \A j \in DOMAIN arms : arms[j].is = "if"
      /\ K!OneArmEach(arms)
  BY <1>1, ListedIs DEF K!IsExpression, K!OneEach
<1>4. K!Reached(arms, i, id)
  BY <1>2, <1>3, ArmIsTaken
<1>5. /\ DOMAIN all = 1 .. Len(arms) + 1
      /\ \A j \in DOMAIN arms : all[j] = arms[j]
  <2>1. arms \in Seq({arms[j] : j \in DOMAIN arms})
    BY <1>1 DEF K!IsExpression, K!Listed
  <2>2. arms \in Seq({arms[j] : j \in DOMAIN arms} \union {K!Return(x.default)})
    BY <2>1
  <2> QED
    BY <2>2, AppendProperties
<1> HIDE DEF all, arms
<1>6. i \in DOMAIN all /\ K!Reached(all, i, id)
  <2>1. i \in 1 .. Len(arms) /\ \A j \in 1 .. i - 1 : j \in DOMAIN arms
    BY <1>2, <1>3 DEF arms
  <2> QED
    BY <1>3, <1>4, <1>5, <2>1 DEF K!Reached
<1>7. arms[i].value \in K!Returned(all, id)
  <2>1. all[i].value = arms[i].value
    BY <1>2, <1>5 DEF arms
  <2> QED
    BY <1>6, <2>1 DEF K!Returned
<1>8. K!Chosen(x, id) = K!Returned(all, id)
  BY <1>1 DEF K!Chosen, all, arms
<1>9. id \in K!NamedIn(x)
  BY <1>1, <1>2 DEF K!NamedIn, arms
<1> QED
  BY <1>1, <1>2, <1>7, <1>8, <1>9 DEF arms

LEMMA ArmsBuild ==
  ASSUME NEW b \in Bundles, K!AsWebpackWrites(b), NEW url \in K!FromArms(b)
  PROVE  BuiltBy(b, url)
<1> DEFINE i == K!Least(K!Builders(b))
           u == b[i]
           steps == StepsOf(u)
           arms == IF u.form = "expr" THEN K!Ternary(u.body) ELSE K!IfChain(u.body)
<1>1. K!Builders(b) # {} /\ \E arm \in arms : url = K!PublicPath(b, u.of) \o arm
  BY DEF K!FromArms
<1>2. i \in K!Builders(b)
  <2>1. K!Builders(b) \in SUBSET (1 .. Len(b)) /\ Len(b) \in Nat
    BY BundleListed DEF K!Builders
  <2> QED
    BY <1>1, <2>1, LeastOfSome
<1> HIDE DEF i
<1>3. i \in DOMAIN b /\ u.is = "u"
  BY <1>2 DEF K!Builders
<1>4. PICK arm \in arms : url = K!PublicPath(b, u.of) \o arm
  BY <1>1
<1>5. SUFFICES \E id \in K!NamedIds(b, u.of) \ {K!Computed} :
                 \E x \in K!Returned(steps, id) : \E y \in K!Chosen(x, id) :
                   K!Foldable(y) /\ arm = K!Fold(y, id) /\ arm # K!NoUrl
  BY <1>3, <1>4, BuilderBuilds
<1>6. CASE u.form = "expr"
  <2>1. K!IsExpression(u.body) /\ K!OneEach(u.body) /\ K!NamedIn(u.body) \subseteq K!NamedIds(b, u.of)
    BY <1>3, <1>6, BundleListed, NamedBy DEF K!AsWebpackWrites
  <2>2. PICK k \in DOMAIN u.body.arms : LET y == u.body.arms[k].value  id == u.body.arms[k].test IN
          /\ id # K!Computed /\ K!Foldable(y) /\ arm = K!Fold(y, id) /\ arm # K!NoUrl
          /\ y \in K!Chosen(u.body, id) /\ id \in K!NamedIn(u.body)
    BY <1>4, <1>6, <2>1, TernaryTakes
  <2>3. \A id : u.body \in K!Returned(steps, id)
    <3>1. DOMAIN steps = 1 .. 1 /\ steps[1].is = "return" /\ steps[1].value = u.body
      BY <1>6 DEF StepsOf, K!Return
    <3> HIDE DEF steps
    <3>2. \A id : K!Reached(steps, 1, id)
      BY <3>1 DEF K!Reached
    <3> QED
      BY <3>1, <3>2 DEF K!Returned
  <2> HIDE DEF steps, u
  <2> QED
    BY <2>1, <2>2, <2>3
<1>7. CASE u.form # "expr"
  <2>1. steps = u.body /\ arms = K!IfChain(steps)
    BY <1>7 DEF StepsOf
  <2>2. /\ K!IsBlock(steps) /\ K!OneArmEach(steps)
        /\ \A j \in DOMAIN steps : steps[j].is = "return" =>
             /\ j = Len(steps)
             /\ K!OneEach(steps[j].value) /\ K!OneOfBoth(steps, steps[j].value)
    BY <1>3, <1>7, <2>1, BundleListed DEF K!AsWebpackWrites
  <2>3. \A j \in DOMAIN steps :
          /\ steps[j].is = "if" => steps[j].test \in K!NamedIds(b, u.of)
          /\ steps[j].is = "return" => K!NamedIn(steps[j].value) \subseteq K!NamedIds(b, u.of)
    BY <1>3, <1>7, <2>1, NamedBy
  <2> HIDE DEF steps, u, arms
  <2>4. /\ Len(steps) \in Nat /\ DOMAIN steps = 1 .. Len(steps)
        /\ \A j \in DOMAIN steps :
             /\ steps[j].is \in {"return", "if", "other"}
             /\ steps[j].is = "return" => K!IsExpression(steps[j].value)
    BY <2>2, ListedIs DEF K!IsBlock
  <2>5. ASSUME NEW k \in DOMAIN steps
        PROVE  \A j \in 1 .. k - 1 : j \in DOMAIN steps /\ steps[j].is \in {"if", "other"}
    BY <2>2, <2>4
  <2>6. CASE arm \in K!FoldArms(steps)
    <3>1. PICK k \in DOMAIN steps :
            /\ steps[k].is = "if" /\ steps[k].test # K!Computed /\ K!Foldable(steps[k].value)
            /\ arm = K!Fold(steps[k].value, steps[k].test) /\ arm # K!NoUrl
      BY <2>6, ArmFolds
    <3>2. K!Reached(steps, k, steps[k].test)
      BY <2>2, <2>4, <2>5, <3>1, ArmIsTaken
    <3>3. steps[k].value \in K!Returned(steps, steps[k].test)
      BY <3>2 DEF K!Returned
    <3>4. steps[k].value \in K!Chosen(steps[k].value, steps[k].test)
      BY <3>1 DEF K!Chosen, K!Foldable
    <3> QED
      BY <2>3, <3>1, <3>3, <3>4
  <2>7. CASE arm \notin K!FoldArms(steps)
    <3> DEFINE returns == {j \in DOMAIN steps : steps[j].is = "return"}
               r == K!Least(returns)
               x == steps[r].value
    <3>1. returns # {} /\ arm \in K!Ternary(x)
      BY <1>4, <2>1, <2>7 DEF K!IfChain
    <3>2. r \in returns
      <4>1. returns \in SUBSET (1 .. Len(steps))
        BY <2>4
      <4> HIDE DEF returns
      <4> QED
        BY <2>4, <3>1, <4>1, LeastOfSome
    <3> HIDE DEF r
    <3>3. /\ r \in DOMAIN steps /\ steps[r].is = "return"
          /\ K!IsExpression(x) /\ K!OneEach(x) /\ K!OneOfBoth(steps, x)
          /\ K!NamedIn(x) \subseteq K!NamedIds(b, u.of)
      BY <2>2, <2>3, <2>4, <3>2
    <3> HIDE DEF x, returns
    <3>4. /\ x.kind = "ternary"
          /\ \E k \in DOMAIN x.arms : LET y == x.arms[k].value  id == x.arms[k].test IN
               /\ id # K!Computed /\ K!Foldable(y) /\ arm = K!Fold(y, id) /\ arm # K!NoUrl
               /\ y \in K!Chosen(x, id) /\ id \in K!NamedIn(x)
      BY <3>1, <3>3, TernaryTakes
    <3>5. PICK k \in DOMAIN x.arms : LET y == x.arms[k].value  id == x.arms[k].test IN
            /\ id # K!Computed /\ K!Foldable(y) /\ arm = K!Fold(y, id) /\ arm # K!NoUrl
            /\ y \in K!Chosen(x, id) /\ id \in K!NamedIn(x)
      BY <3>4
    <3> DEFINE id == x.arms[k].test
    <3>6. \A j \in DOMAIN steps : steps[j].is = "if" => steps[j].test # id
      BY <3>3, <3>4, <3>5 DEF K!OneOfBoth
    <3>7. K!Reached(steps, r, id)
      BY <2>5, <3>3, <3>6 DEF K!Reached
    <3>8. x \in K!Returned(steps, id)
      BY <3>3, <3>7 DEF K!Returned, x
    <3> QED
      BY <3>3, <3>5, <3>8
  <2> QED
    BY <2>6, <2>7
<1> QED
  BY <1>6, <1>7

LEMMA ChunkInductive == K!Init /\ [][K!Next]_chunksVars => []ChunkInv
<1>1. K!Init => ChunkInv
  BY DEF K!Init, ChunkInv
<1>2. ChunkInv /\ [K!Next]_chunksVars => ChunkInv'
  <2> SUFFICES ASSUME ChunkInv, [K!Next]_chunksVars PROVE ChunkInv'
    OBVIOUS
  <2>1. SUFFICES ASSUME K!AsWebpackWrites(bundle), bundle' = bundle
                 PROVE  \A url \in (todo \union urls)' : BuiltBy(bundle, url)
    <3>1. bundle' = bundle
      BY DEF chunksVars, K!Next, K!FoldTemplate, K!FoldConditional, K!AddUrl, K!PassUrl, K!Done
    <3> QED
      BY <2>1, <3>1 DEF ChunkInv
  <2>2. bundle \in Bundles /\ \A url \in todo \union urls : BuiltBy(bundle, url)
    BY <2>1 DEF ChunkInv
  <2>3. CASE K!FoldTemplate
    BY <2>1, <2>2, <2>3, TemplateBuilds DEF K!FoldTemplate
  <2>4. CASE K!FoldConditional
    BY <2>1, <2>2, <2>4, ArmsBuild DEF K!FoldConditional
  <2>5. ASSUME NEW url \in todo, K!AddUrl(url) \/ K!PassUrl(url)
        PROVE  (todo \union urls)' \subseteq todo \union urls
    BY <2>5 DEF K!AddUrl, K!PassUrl
  <2>6. CASE K!Done \/ UNCHANGED chunksVars
    BY <2>2, <2>6 DEF K!Done, chunksVars
  <2> QED
    BY <2>2, <2>3, <2>4, <2>5, <2>6 DEF K!Next
<1> QED
  BY <1>1, <1>2, PTL

LEMMA ChunksAreBuilt == ChunkInv => K!NeverInvented
BY DEF ChunkInv, K!NeverInvented, BuiltBy

-----------------------------------------------------------------------------
(* A step of the composition is one of each part, or leaves that part alone. *)
LEMMA SpecAlone == [AnyNext]_allVars => [Next]_dvars
<1>1. ASSUME AnyNext PROVE Next \/ UNCHANGED dvars
  BY <1>1 DEF AnyNext, OnlySpecDiff, OnlyBrowserCapture, OnlyDiscoverStage,
     OnlyCorrelate, OnlyChunkEnum, Next
<1> QED
  BY <1>1 DEF allVars

LEMMA BrowserAlone == [AnyNext]_allVars => [B!Next]_browserVars
<1>1. ASSUME AnyNext PROVE B!Next \/ UNCHANGED browserVars
  BY <1>1 DEF AnyNext, OnlySpecDiff, OnlyBrowserCapture, OnlyDiscoverStage,
     OnlyCorrelate, OnlyChunkEnum, B!Next
<1> QED
  BY <1>1 DEF allVars

LEMMA DiscoverAlone == [AnyNext]_allVars => [D!Next]_discoverVars
<1>1. ASSUME AnyNext PROVE D!Next \/ UNCHANGED discoverVars
  BY <1>1 DEF AnyNext, OnlySpecDiff, OnlyBrowserCapture, OnlyDiscoverStage,
     OnlyCorrelate, OnlyChunkEnum, D!Next, D!Discover
<1> QED
  BY <1>1 DEF allVars

LEMMA MatcherAlone == [AnyNext]_allVars => [C!Next]_correlateVars
<1>1. ASSUME AnyNext PROVE C!Next \/ UNCHANGED correlateVars
  BY <1>1 DEF AnyNext, OnlySpecDiff, OnlyBrowserCapture, OnlyDiscoverStage,
     OnlyCorrelate, OnlyChunkEnum, C!Next
<1> QED
  BY <1>1 DEF allVars

LEMMA ChunksAlone == [AnyNext]_allVars => [K!Next]_chunksVars
<1>1. ASSUME AnyNext PROVE K!Next \/ UNCHANGED chunksVars
  BY <1>1 DEF AnyNext, OnlySpecDiff, OnlyBrowserCapture, OnlyDiscoverStage,
     OnlyCorrelate, OnlyChunkEnum, K!Next
<1> QED
  BY <1>1 DEF allVars

\* A call is never stored as a shadow of the document that has it, unless a
\* rule gave it a base it does not have (classify_operation, resolve_operation).
THEOREM NoShadowIsFalse == (Spec => []NoFalseShadow) /\ (AnySpec => []NoFalseShadow)
<1>1. AnyInit => Init
  BY DEF AnyInit
<1> QED
  BY <1>1, ShadowsInductive, SpecAlone, PTL DEF Spec, AnySpec

\* Once nothing is at work the verdicts are those that the session's spec,
\* rules and occurrences give, unless the last classification overlapped
\* another, failed or was missing (attach_and_classify, add_rule, delete_rule,
\* reclassify_run, advance).
THEOREM VerdictsAreCurrent == (Spec => []VerdictsCurrent) /\ (AnySpec => []VerdictsCurrent)
<1>1. AnyInit => Init
  BY DEF AnyInit
<1> QED
  BY <1>1, CurrentInductive, SpecAlone, PTL DEF Spec, AnySpec

\* Whatever a page and its workers run, leave and end, and whatever order the
\* news of it comes in, a script that ran is captured by the time the session
\* is over, unless its context ended first, the wait for it was out of time
\* or the cap was reached (_on_attached, _on_parsed, _on_source, _settled).
THEOREM EveryScriptIsCaught ==
  (B!Spec => []B!NoScriptMissed) /\ (AnySpec => []NoScriptMissed)
<1>1. B!Init /\ [][B!Next]_browserVars => []B!NoScriptMissed
  BY BrowserInductive, BrowserMissesNone, PTL
<1>2. [B!Next]_(B!cvars) => [B!Next]_browserVars
  BY DEF B!cvars, B!found, browserVars
<1>3. B!Spec => []B!NoScriptMissed
  BY <1>1, <1>2, PTL DEF B!Spec
<1>4. AnyInit => B!Init
  BY DEF AnyInit
<1>5. B!NoScriptMissed => NoScriptMissed
  BY DEF NoScriptMissed
<1>6. AnySpec => []NoScriptMissed
  BY <1>1, <1>4, <1>5, BrowserAlone, PTL DEF AnySpec
<1> QED
  BY <1>3, <1>6

\* However often the stage is paused, crashes and is taken up again, by any
\* number of workers at once, one that counts as done left the manifest, the
\* rows and, of a capture, the bytes that the fetch stage reads (discover_run,
\* capture_run).
THEOREM ADoneStageIsSeeded ==
  (D!Spec => []D!DiscoveredMeansSeeded) /\ (AnySpec => []DiscoveredMeansSeeded)
<1>1. D!Init /\ [][D!Next]_discoverVars => []D!DiscoveredMeansSeeded
  BY DiscoverInductive, DiscoverIsSeeded, PTL
<1>2. [D!Next]_(D!dvars) => [D!Next]_discoverVars
  BY DEF D!dvars, discoverVars
<1>3. D!Spec => []D!DiscoveredMeansSeeded
  BY <1>1, <1>2, PTL DEF D!Spec
<1>4. AnyInit => D!Init
  BY DEF AnyInit
<1>5. D!DiscoveredMeansSeeded => DiscoveredMeansSeeded
  BY DEF DiscoveredMeansSeeded
<1>6. AnySpec => []DiscoveredMeansSeeded
  BY <1>1, <1>4, <1>5, DiscoverAlone, PTL DEF AnySpec
<1> QED
  BY <1>3, <1>6

\* Of any endpoints and requests, one execution attaches a url to an endpoint
\* exactly when the endpoint is the one most specific match of the url and the
\* url the only one it wins: endpoints as specific as each other, and an
\* endpoint that wins two urls, are left alone (match.py).
THEOREM AmbiguityIsLeftAlone ==
  (C!Spec => []C!NeverGuesses) /\ (AnySpec => []NeverGuesses)
<1>1. C!Init /\ [][C!Next]_correlateVars => []C!NeverGuesses
  BY MatcherInductive, MatcherGuesses, PTL
<1>2. [C!Next]_(C!mvars) => [C!Next]_correlateVars
  BY DEF C!mvars, correlateVars
<1>3. C!Spec => []C!NeverGuesses
  BY <1>1, <1>2, PTL DEF C!Spec
<1>4. AnyInit => C!Init
  BY DEF AnyInit
<1>5. C!NeverGuesses => NeverGuesses
  BY DEF NeverGuesses
<1>6. AnySpec => []NeverGuesses
  BY <1>1, <1>4, <1>5, MatcherAlone, PTL DEF AnySpec
<1> QED
  BY <1>3, <1>6

\* Of any bundle as webpack writes them, whatever its builder looks like, the
\* URLs enumerated are those its own code builds for ids it names, under any
\* bounds (chunkenum.py).
THEOREM NoUrlIsInvented ==
  (K!Spec => []K!NeverInvented) /\ (AnySpec => []NeverInvented)
<1>1. K!Init /\ [][K!Next]_chunksVars => []K!NeverInvented
  BY ChunkInductive, ChunksAreBuilt, PTL
<1>2. [K!Next]_(K!cvars) => [K!Next]_chunksVars
  BY DEF K!cvars, chunksVars
<1>3. K!Spec => []K!NeverInvented
  BY <1>1, <1>2, PTL DEF K!Spec
<1>4. AnyInit => K!Init
  <2>1. Bundles # {}
    BY FindingsAssumption DEF K!EnumConstants
  <2> QED
    BY <2>1 DEF AnyInit, K!Init
<1>5. K!NeverInvented => NeverInvented
  BY DEF NeverInvented
<1>6. AnySpec => []NeverInvented
  BY <1>1, <1>4, <1>5, ChunksAlone, PTL DEF AnySpec
<1> QED
  BY <1>3, <1>6
=============================================================================
