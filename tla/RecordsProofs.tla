----------------------------- MODULE RecordsProofs -----------------------------
(***************************************************************************)
(* Theorems about the parts of Records, one after the other, and then of   *)
(* every behaviour of the composition: sessions and runs, for any hosts,   *)
(* scopes and targets, any number of requests and workers, and any number  *)
(* of crashes and of failing calls to the object store; the capture of a   *)
(* page's scripts; the hook that reads its responses; the reveal of a      *)
(* secret; the walk that harvests routes; and the identity of findings.    *)
(***************************************************************************)
EXTENDS Records, FiniteSetTheorems, SequenceTheorems, WellFoundedInduction, TLAPS

AnyHost == Hosts \cup Targets \cup Hints \cup Edits \cup (UNION Scopes) \cup {Absent}

ClientPc == {"idle", "copy", "create", "put", "point", "enqueue"}
WorkerPc == {"idle", "crawl", "surf", "fetch", "redirected", "analyze", "record"}
Request == [pc : ClientPc, session : Nat, target : AnyHost, upload : BOOLEAN, run : Nat]
Ats == {<< >>} \cup (AnyHost \X Addresses)
Job == [pc : WorkerPc, run : Nat, at : Ats, found : SUBSET AnyHost]
Deletion == [pc : {"idle", "collected", "sweep"}, session : Nat, runs : SUBSET Nat]
Config == [session : Nat, target : AnyHost, upload : BOOLEAN]

SessionTypeOK ==
  /\ scope \in Seq(SUBSET AnyHost)
  /\ row \in Seq(Config)
  /\ client \in [Clients -> Request]
  /\ worker \in [Workers -> Job]
  /\ purge \in Deletion

(* Ids are given once, in order: what has an id was made. *)
IdsKnown ==
  /\ live \subseteq 1 .. Len(scope)
  /\ \A r \in 1 .. Len(row) : row[r].session \in 1 .. Len(scope)
  /\ rows \subseteq 1 .. Len(row)
  /\ purge.runs \subseteq 1 .. Len(row)
  /\ \A c \in Clients : client[c].pc \in {"put", "point", "enqueue"} => client[c].run \in 1 .. Len(row)
  /\ \A w \in Workers : worker[w].pc # "idle" => worker[w].run \in 1 .. Len(row)

TInv == SessionTypeOK /\ IdsKnown
-----------------------------------------------------------------------------
(* What a step does to the sessions: one may be added, and an empty scope may
   be filled.                                                               *)
ScopesGrow ==
  /\ scope' \in Seq(SUBSET AnyHost)
  /\ Len(scope) <= Len(scope')
  /\ \A s \in 1 .. Len(scope) : scope[s] = {} \/ scope'[s] = scope[s]
  /\ live' \subseteq live \cup {Len(scope')}
  /\ live' # live => Len(scope') = Len(scope) + 1
  /\ scope = declared => scope' = declared'

LEMMA AddSessionGrows ==
  ASSUME TInv, NEW hosts \in SUBSET AnyHost, NEW target \in AnyHost, AddSession(hosts, target)
  PROVE  ScopesGrow
<1> DEFINE resolved == ResolveScope(hosts, target)
<1>1. resolved \in SUBSET AnyHost
  BY DEF ResolveScope
<1>2. /\ scope' = Append(scope, resolved) /\ declared' = Append(declared, resolved)
      /\ live' = live \cup {Len(scope) + 1}
  BY DEF AddSession
<1> HIDE DEF resolved
<1>3. scope \in Seq(SUBSET AnyHost)
  BY DEF TInv, SessionTypeOK
<1>4. /\ scope' \in Seq(SUBSET AnyHost) /\ Len(scope') = Len(scope) + 1
      /\ \A s \in 1 .. Len(scope) : scope'[s] = scope[s]
  BY <1>1, <1>2, <1>3
<1> QED
  BY <1>2, <1>3, <1>4 DEF ScopesGrow

LEMMA SeedScopeGrows ==
  ASSUME TInv, NEW s \in live, NEW hosts \in SUBSET AnyHost, SeedScope(s, hosts)
  PROVE  ScopesGrow
<1> DEFINE valid == {h \in hosts : ValidScopeEntry(h)}
<1>1. /\ valid \in SUBSET AnyHost /\ s \in 1 .. Len(scope) /\ scope[s] = {}
      /\ scope' = [scope EXCEPT ![s] = valid] /\ declared' = [declared EXCEPT ![s] = scope'[s]]
      /\ live' = live
  BY DEF SeedScope, TInv, IdsKnown
<1> HIDE DEF valid
<1>2. scope \in Seq(SUBSET AnyHost)
  BY DEF TInv, SessionTypeOK
<1>3. /\ scope' \in Seq(SUBSET AnyHost) /\ Len(scope') = Len(scope)
      /\ scope'[s] = valid
      /\ \A q \in 1 .. Len(scope) : q # s => scope'[q] = scope[q]
  BY <1>1, <1>2
<1>4. scope = declared => scope' = declared'
  BY <1>1, <1>3
<1>5. Len(scope) \in Nat /\ Len(scope) <= Len(scope')
  BY <1>2, <1>3
<1>6. \A q \in 1 .. Len(scope) : scope[q] = {} \/ scope'[q] = scope[q]
  BY <1>1, <1>3
<1> QED
  BY <1>1, <1>3, <1>4, <1>5, <1>6 DEF ScopesGrow

LEMMA SameScopes ==
  ASSUME TInv, UNCHANGED <<scope, live, declared>>
  PROVE  ScopesGrow
BY DEF TInv, SessionTypeOK, ScopesGrow

(* Types and ids survive a step that lets the scopes grow, if what else it
   writes is of its type and of runs that were made.                        *)
LEMMA KnownKeeps ==
  ASSUME TInv, ScopesGrow,
         \/ row' = row
         \/ \E new \in Config : row' = Append(row, new) /\ new.session \in live,
         client' \in [Clients -> Request], worker' \in [Workers -> Job],
         purge' \in Deletion,
         rows' \subseteq 1 .. Len(row'), purge'.runs \subseteq 1 .. Len(row'),
         \A c \in Clients : client'[c].pc \in {"put", "point", "enqueue"} =>
           client'[c].run \in 1 .. Len(row'),
         \A w \in Workers : worker'[w].pc # "idle" => worker'[w].run \in 1 .. Len(row')
  PROVE  TInv'
<1>1. row \in Seq(Config) /\ scope \in Seq(SUBSET AnyHost)
  BY DEF TInv, SessionTypeOK
<1>2. /\ row' \in Seq(Config)
      /\ \A r \in 1 .. Len(row') : row'[r].session \in 1 .. Len(scope)
  <2>1. CASE row' = row
    BY <1>1, <2>1 DEF TInv, IdsKnown
  <2>2. ASSUME NEW new \in Config, row' = Append(row, new), new.session \in live
        PROVE  /\ row' \in Seq(Config)
               /\ \A r \in 1 .. Len(row') : row'[r].session \in 1 .. Len(scope)
    <3>1. /\ row' \in Seq(Config) /\ Len(row') = Len(row) + 1 /\ row'[Len(row) + 1] = new
          /\ \A r \in 1 .. Len(row) : row'[r] = row[r]
      BY <1>1, <2>2
    <3>2. new.session \in 1 .. Len(scope)
      BY <2>2 DEF TInv, IdsKnown
    <3>3. \A r \in 1 .. Len(row') : r \in 1 .. Len(row) \/ r = Len(row) + 1
      BY <1>1, <3>1
    <3> QED
      BY <3>1, <3>2, <3>3 DEF TInv, IdsKnown
  <2> QED
    BY <2>1, <2>2
<1>3. live' \subseteq 1 .. Len(scope')
  BY <1>1 DEF ScopesGrow, TInv, IdsKnown
<1>4. \A r \in 1 .. Len(row') : row'[r].session \in 1 .. Len(scope')
  BY <1>1, <1>2 DEF ScopesGrow
<1> QED
  BY <1>2, <1>3, <1>4 DEF TInv, SessionTypeOK, IdsKnown, ScopesGrow

(* What a request asks for is a host of some kind. *)
LEMMA Hosted ==
  /\ \A hosts \in Scopes : hosts \in SUBSET AnyHost
  /\ Targets \cup Hints \cup Edits \subseteq AnyHost /\ {} \in SUBSET AnyHost
  /\ Hosts \subseteq AnyHost
BY DEF AnyHost

LEMMA AtsAre == << >> \in Ats /\ \A host \in AnyHost, address \in Addresses : <<host, address>> \in Ats
<1> DEFINE none == << >>
<1>1. none \in {none} \cup (AnyHost \X Addresses)
  OBVIOUS
<1> QED
  BY <1>1 DEF Ats

LEMMA JobsAre ==
  ASSUME NEW pc \in WorkerPc, NEW r \in Nat, NEW place \in Ats, NEW found \in SUBSET AnyHost
  PROVE  [pc |-> pc, run |-> r, at |-> place, found |-> found] \in Job
BY DEF Job

LEMMA IdleTypes == IdleClient \in Request /\ IdleClient.pc = "idle"
                   /\ IdleWorker \in Job /\ IdleWorker.pc = "idle"
                   /\ NoPurge \in Deletion
                   /\ NoPurge.pc = "idle" /\ NoPurge.runs = {}
<1>1. Absent \in AnyHost
  BY DEF AnyHost
<1>2. IdleClient \in Request /\ IdleClient.pc = "idle"
  BY <1>1 DEF IdleClient, Request, ClientPc
<1>3. IdleWorker \in Job /\ IdleWorker.pc = "idle"
  BY AtsAre, JobsAre DEF IdleWorker, WorkerPc
<1>4. NoPurge \in Deletion /\ NoPurge.pc = "idle" /\ NoPurge.runs = {}
  BY DEF NoPurge, Deletion
<1> QED
  BY <1>2, <1>3, <1>4

(* The steps of one request that neither make a run nor write for one. *)
LEMMA ClientKnown ==
  ASSUME TInv, ScopesGrow, NEW c \in Clients, NEW here \in Request,
         client' = [client EXCEPT ![c] = here],
         here.pc \in {"put", "point", "enqueue"} => here.run \in 1 .. Len(row),
         UNCHANGED <<row, rows, purge, worker>>
  PROVE  TInv'
<1>1. client' \in [Clients -> Request]
  BY DEF TInv, SessionTypeOK
<1>2. \A d \in Clients : client'[d].pc \in {"put", "point", "enqueue"} =>
                           client'[d].run \in 1 .. Len(row')
  BY DEF TInv, SessionTypeOK, IdsKnown
<1> QED
  BY <1>1, <1>2, KnownKeeps DEF TInv, SessionTypeOK, IdsKnown

LEMMA WorkerKnown ==
  ASSUME TInv, NEW w \in Workers, NEW here \in Job,
         worker' = [worker EXCEPT ![w] = here],
         here.pc # "idle" => here.run \in 1 .. Len(row),
         UNCHANGED <<scope, live, declared, row, rows, purge, client>>
  PROVE  TInv'
<1>1. worker' \in [Workers -> Job]
  BY DEF TInv, SessionTypeOK
<1>2. \A d \in Workers : worker'[d].pc # "idle" => worker'[d].run \in 1 .. Len(row')
  BY DEF TInv, SessionTypeOK, IdsKnown
<1> QED
  BY <1>1, <1>2, KnownKeeps, SameScopes DEF TInv, SessionTypeOK, IdsKnown

LEMMA PurgeKnown ==
  ASSUME TInv, purge' \in Deletion,
         purge'.runs \subseteq 1 .. Len(row), rows' \subseteq rows,
         live' \subseteq live, UNCHANGED <<scope, declared, row, client, worker>>
  PROVE  TInv'
BY DEF TInv, SessionTypeOK, IdsKnown

LEMMA AskRerunKnown ==
  ASSUME TInv, NEW c \in Clients, NEW r \in rows, NEW target \in Edits \cup {row[r].target},
         NEW hosts \in Scopes \cup {scope[row[r].session]}, AskRerun(c, r, target, hosts)
  PROVE  TInv' /\ ScopesGrow
<1> DEFINE upload == <<r, "input">> \in refs
           cfg == [row[r] EXCEPT !.target = target, !.upload = upload]
           here == [pc |-> IF upload THEN "copy" ELSE "create",
                  session |-> IF Len(scope') > Len(scope) THEN Len(scope') ELSE row[r].session,
                  target |-> target, upload |-> upload, run |-> r]
<1>1. /\ row \in Seq(Config) /\ scope \in Seq(SUBSET AnyHost) /\ r \in 1 .. Len(row)
      /\ row[r].session \in 1 .. Len(scope)
  BY DEF TInv, SessionTypeOK, IdsKnown
<1>2. row[r] \in Config /\ scope[row[r].session] \in SUBSET AnyHost
  BY <1>1
<1>3. target \in AnyHost /\ hosts \in SUBSET AnyHost
  BY <1>2, Hosted DEF Config
<1>4. cfg.session = row[r].session /\ cfg.target = target
  BY <1>2 DEF Config
<1>5. /\ client' = [client EXCEPT ![c] = here] /\ UNCHANGED <<row, rows, purge, worker>>
      /\ IF MustFork(cfg, hosts) THEN Fork(cfg, hosts) ELSE UNCHANGED <<scope, live, declared>>
  BY DEF AskRerun
<1>6. ScopesGrow
  <2>1. CASE UNCHANGED <<scope, live, declared>>
    BY <2>1, SameScopes
  <2>2. CASE Fork(cfg, hosts)
    <3>1. \E wanted \in SUBSET AnyHost : AddSession(wanted, target)
      BY <1>3, <1>4, <2>2 DEF Fork
    <3> QED
      BY <1>3, <3>1, AddSessionGrows
  <2> QED
    BY <1>5, <2>1, <2>2
<1>7. here \in Request /\ here.pc \in {"copy", "create"}
  <2>1. Len(scope') \in Nat /\ row[r].session \in Nat /\ r \in Nat /\ upload \in BOOLEAN
    BY <1>1, <1>6 DEF ScopesGrow
  <2> HIDE DEF upload
  <2> QED
    BY <1>3, <2>1 DEF Request, ClientPc
<1> QED
  BY <1>5, <1>6, <1>7, ClientKnown

LEMMA CreateRunKnown ==
  ASSUME TInv, NEW c \in Clients, CreateRun(c)
  PROVE  TInv'
<1> DEFINE here == client[c]
           new == [session |-> here.session, target |-> here.target, upload |-> here.upload]
           pc == IF here.upload THEN "put" ELSE "enqueue"
           to == [IdleClient EXCEPT !.run = Len(row) + 1, !.pc = pc]
<1>1. /\ here \in Request /\ row \in Seq(Config) /\ rows \subseteq 1 .. Len(row)
      /\ client \in [Clients -> Request]
  BY DEF TInv, SessionTypeOK, IdsKnown
<1>2. CASE client' = [client EXCEPT ![c] = IdleClient] /\ UNCHANGED <<row, rows>>
  BY <1>2, ClientKnown, IdleTypes, SameScopes DEF CreateRun
<1>3. CASE here.session \in live
  <2>1. /\ row' = Append(row, new) /\ rows' = rows \cup {Len(row) + 1}
        /\ client' = [client EXCEPT ![c] = to]
        /\ UNCHANGED <<scope, live, declared, purge, worker>>
    BY <1>3 DEF CreateRun
  <2>2. new \in Config /\ new.session \in live
    BY <1>1, <1>3 DEF Config, Request
  <2>3. Len(row') = Len(row) + 1 /\ Len(row) \in Nat
    BY <1>1, <2>1, <2>2
  <2>4. to \in Request /\ to.run = Len(row) + 1
    <3>1. pc \in ClientPc
      BY DEF ClientPc
    <3> HIDE DEF pc
    <3> DEFINE n == Len(row) + 1
    <3>2. n \in Nat
      BY <2>3
    <3> HIDE DEF n
    <3>3. [IdleClient EXCEPT !.run = n, !.pc = pc] \in Request
          /\ [IdleClient EXCEPT !.run = n, !.pc = pc].run = n
      BY <3>1, <3>2, IdleTypes DEF Request
    <3> QED
      BY <3>3 DEF n
  <2> HIDE DEF to, new
  <2>5. \A d \in Clients : client'[d].pc \in {"put", "point", "enqueue"} =>
                             client'[d].run \in 1 .. Len(row')
    BY <1>1, <2>1, <2>3, <2>4 DEF TInv, IdsKnown
  <2>6. \A w \in Workers : worker'[w].pc # "idle" => worker'[w].run \in 1 .. Len(row')
    BY <2>1, <2>3 DEF TInv, IdsKnown
  <2>7. client' \in [Clients -> Request]
    BY <1>1, <2>1, <2>4
  <2>9. 1 .. Len(row) \subseteq 1 .. Len(row') /\ Len(row) + 1 \in 1 .. Len(row')
    BY <2>3
  <2>8. rows' \subseteq 1 .. Len(row') /\ purge'.runs \subseteq 1 .. Len(row')
    BY <1>1, <2>1, <2>9 DEF TInv, IdsKnown
  <2> QED
    BY <2>1, <2>2, <2>5, <2>6, <2>7, <2>8, KnownKeeps, SameScopes DEF TInv, SessionTypeOK
<1> QED
  BY <1>2, <1>3 DEF CreateRun

(* The steps, by whose they are. *)
SessionStep ==
  \/ \E hosts \in Scopes, target \in Targets \cup Hints : CreateSession(hosts, target)
  \/ \E s \in live, hosts \in Scopes : SeedScope(s, hosts)
AskStep(c) ==
  \/ \E s \in live, target \in Targets : AskCrawl(c, s, target)
  \/ \E s \in live, target \in Hints : AskUpload(c, s, target)
  \/ CopyInput(c)
RerunStep(c) ==
  \E r \in rows : \E target \in Edits \cup {row[r].target},
       hosts \in Scopes \cup {scope[row[r].session]} : AskRerun(c, r, target, hosts)
InputStep(c) == PutInput(c) \/ PointToInput(c) \/ \E w \in Workers : Enqueue(c, w)
WorkStep(w) ==
  \/ \E host \in Hosts : Hop(w, host) \/ Surf(w, host)
  \/ Launch(w) \/ ListAssets(w) \/ Capture(w)
  \/ PutArtifact(w) \/ NoInput(w) \/ RecordArtifact(w)
DeleteStep ==
  \/ \E s \in live : Collect(s)
  \/ CommitDelete \/ EndPurge \/ Crash
  \/ \E r \in purge.runs : Sweep(r)

LEMMA StepIsSomebodys ==
  Next => \/ SessionStep \/ DeleteStep
          \/ \E c \in Clients : AskStep(c) \/ RerunStep(c) \/ CreateRun(c) \/ InputStep(c)
          \/ \E w \in Workers : WorkStep(w)
BY DEF Next, SessionStep, DeleteStep, AskStep, RerunStep, InputStep, WorkStep

LEMMA SessionStepGrows ==
  ASSUME TInv, SessionStep
  PROVE  ScopesGrow /\ UNCHANGED <<row, rows, blobs, refs, client, worker, purge>>
<1>1. ASSUME NEW hosts \in Scopes, NEW target \in Targets \cup Hints,
             CreateSession(hosts, target)
      PROVE  ScopesGrow /\ UNCHANGED <<row, rows, blobs, refs, client, worker, purge>>
  BY <1>1, Hosted, AddSessionGrows DEF CreateSession
<1>2. ASSUME NEW s \in live, NEW hosts \in Scopes, SeedScope(s, hosts)
      PROVE  ScopesGrow /\ UNCHANGED <<row, rows, blobs, refs, client, worker, purge>>
  <2>1. UNCHANGED <<row, rows, blobs, refs, client, worker, purge>>
    BY <1>2 DEF SeedScope
  <2> QED
    BY <1>2, <2>1, Hosted, SeedScopeGrows
<1> QED
  BY <1>1, <1>2 DEF SessionStep

LEMMA SessionStepKnown ==
  ASSUME TInv, SessionStep
  PROVE  TInv'
<1>1. ScopesGrow /\ UNCHANGED <<row, rows, client, worker, purge>>
  BY SessionStepGrows
<1>2. /\ client' \in [Clients -> Request] /\ worker' \in [Workers -> Job] /\ purge' \in Deletion
      /\ rows' \subseteq 1 .. Len(row') /\ purge'.runs \subseteq 1 .. Len(row')
  BY <1>1 DEF TInv, SessionTypeOK, IdsKnown
<1>3. /\ \A c \in Clients : client'[c].pc \in {"put", "point", "enqueue"} =>
           client'[c].run \in 1 .. Len(row')
      /\ \A w \in Workers : worker'[w].pc # "idle" => worker'[w].run \in 1 .. Len(row')
  BY <1>1 DEF TInv, IdsKnown
<1> QED
  BY <1>1, <1>2, <1>3, KnownKeeps

LEMMA AskStepKnown ==
  ASSUME TInv, NEW c \in Clients, AskStep(c)
  PROVE  TInv'
<1>0. ScopesGrow /\ UNCHANGED <<row, rows, purge, worker>>
  BY SameScopes DEF AskStep, AskCrawl, AskUpload, CopyInput
<1>1. ASSUME NEW s \in live, NEW target \in Targets \cup Hints, NEW upload \in BOOLEAN,
             client' = [client EXCEPT ![c] =
               [pc |-> "create", session |-> s, target |-> target, upload |-> upload, run |-> 0]]
      PROVE  TInv'
  <2> DEFINE here == [pc |-> "create", session |-> s, target |-> target, upload |-> upload,
                    run |-> 0]
  <2>1. s \in Nat /\ target \in AnyHost
    BY Hosted DEF TInv, SessionTypeOK, IdsKnown
  <2>2. here \in Request /\ here.pc = "create"
    BY <2>1 DEF Request, ClientPc
  <2> HIDE DEF here
  <2> QED
    BY <1>0, <1>1, <2>2, ClientKnown DEF here
<1>2. CASE CopyInput(c)
  <2>1. client[c] \in Request
    BY DEF TInv, SessionTypeOK
  <2> DEFINE here == [client[c] EXCEPT !.pc = "create", !.run = 0]
  <2>2. here \in Request /\ here.pc = "create"
    BY <2>1 DEF Request, ClientPc
  <2>3. client' = [client EXCEPT ![c] = here] \/ client' = [client EXCEPT ![c] = IdleClient]
    BY <1>2, <2>1 DEF CopyInput, TInv, SessionTypeOK
  <2> HIDE DEF here
  <2> QED
    BY <1>0, <2>2, <2>3, ClientKnown, IdleTypes
<1> QED
  BY <1>1, <1>2 DEF AskStep, AskCrawl, AskUpload

LEMMA InputStepKnown ==
  ASSUME TInv, NEW c \in Clients, InputStep(c)
  PROVE  TInv'
<1>0. ScopesGrow /\ UNCHANGED <<scope, live, declared, row, rows, purge>>
  BY SameScopes DEF InputStep, PutInput, PointToInput, Enqueue
<1>1. client[c] \in Request /\ client \in [Clients -> Request]
  BY DEF TInv, SessionTypeOK
<1>2. ASSUME NEW pc \in {"point", "enqueue"}, client[c].pc \in {"put", "point"},
             client' = [client EXCEPT ![c].pc = pc], UNCHANGED worker
      PROVE  TInv'
  <2> DEFINE here == [client[c] EXCEPT !.pc = pc]
  <2>1. here \in Request /\ here.run = client[c].run
    BY <1>1 DEF Request, ClientPc
  <2>2. client' = [client EXCEPT ![c] = here]
    BY <1>1, <1>2
  <2>3. client[c].run \in 1 .. Len(row)
    BY <1>2 DEF TInv, IdsKnown
  <2> HIDE DEF here
  <2> QED
    BY <1>0, <1>2, <2>1, <2>2, <2>3, ClientKnown
<1>3. ASSUME NEW w \in Workers, Enqueue(c, w) PROVE TInv'
  <2> DEFINE pc == IF row[client[c].run].upload THEN "analyze" ELSE "crawl"
             here == [pc |-> pc, run |-> client[c].run, at |-> << >>, found |-> {}]
  <2>1. client[c].run \in 1 .. Len(row)
    BY <1>3 DEF Enqueue, TInv, IdsKnown
  <2>2. client' = [client EXCEPT ![c] = IdleClient]
    BY <1>3 DEF Enqueue
  <2>3. worker' \in [Workers -> Job]
        /\ \A v \in Workers : worker'[v].pc # "idle" => worker'[v].run \in 1 .. Len(row)
    <3>1. CASE UNCHANGED worker
      BY <3>1 DEF TInv, SessionTypeOK, IdsKnown
    <3>2. CASE worker' = [worker EXCEPT ![w] = here]
      <4>1. here \in Job /\ here.run = client[c].run
        <5>1. pc \in WorkerPc /\ client[c].run \in Nat
          BY <1>1 DEF WorkerPc, Request
        <5> QED
          BY <5>1, AtsAre, JobsAre
      <4> HIDE DEF here
      <4> QED
        BY <2>1, <3>2, <4>1 DEF TInv, SessionTypeOK, IdsKnown
    <3> QED
      BY <1>3, <3>1, <3>2 DEF Enqueue
  <2>4. client' \in [Clients -> Request]
        /\ \A d \in Clients : client'[d].pc \in {"put", "point", "enqueue"} =>
                                client'[d].run \in 1 .. Len(row)
    BY <2>2, IdleTypes DEF TInv, SessionTypeOK, IdsKnown
  <2> QED
    BY <1>0, <2>3, <2>4, KnownKeeps DEF TInv, SessionTypeOK, IdsKnown
<1> QED
  BY <1>2, <1>3 DEF InputStep, PutInput, PointToInput

(* What a step makes of its worker's job, and what it stores.               *)
MovesTo(w, job) ==
  /\ UNCHANGED <<scope, live, declared, row, rows, purge, client, excused>>
  /\ worker' = [worker EXCEPT ![w] = job]
  /\ (job = IdleWorker \/ (worker[w].pc \notin {"idle", "record"} /\ job.run = worker[w].run))
  /\ job.pc # "crawl" /\ job.pc # "analyze"
  /\ refs' = refs \/ RecordArtifact(w)
  /\ \/ blobs' = blobs /\ job.pc # "record"
     \/ /\ blobs' = blobs \cup {<<worker[w].run, "artifact">>}
        /\ worker[w].pc \in {"surf", "redirected", "analyze"}

LEMMA WorkMoves ==
  ASSUME TInv, NEW w \in Workers, WorkStep(w)
  PROVE  \E job \in Job : MovesTo(w, job)
<1> DEFINE r == worker[w].run
<1>1. /\ worker[w] \in Job /\ worker \in [Workers -> Job]
      /\ r \in Nat /\ worker[w].at \in Ats /\ worker[w].found \in SUBSET AnyHost
  BY DEF TInv, SessionTypeOK, Job
<1>2. IdleWorker \in Job /\ IdleWorker.pc = "idle"
  BY IdleTypes
<1>3. \A host \in Hosts : \A address \in AddressesOf(host) : <<host, address>> \in Ats
  BY Hosted, AtsAre DEF AddressesOf, Addresses
<1>4. << >> \in Ats
  BY AtsAre
<1>5. ASSUME worker' = [worker EXCEPT ![w] = IdleWorker], blobs' = blobs, refs' = refs \/ RecordArtifact(w),
             UNCHANGED <<scope, live, declared, row, rows, purge, client, excused>>
      PROVE  MovesTo(w, IdleWorker)
  BY <1>2, <1>5 DEF MovesTo
<1>6. ASSUME NEW host \in Hosts, Hop(w, host) PROVE \E job \in Job : MovesTo(w, job)
  <2>1. PICK address \in AddressesOf(host) :
          \/ worker' = [worker EXCEPT ![w] = IdleWorker]
          \/ worker' = [worker EXCEPT ![w] =
                [pc |-> "redirected", run |-> r, at |-> <<host, address>>, found |-> {}]]
    BY <1>6 DEF Hop
  <2> DEFINE hop == <<host, address>>
             job == [pc |-> "redirected", run |-> r, at |-> hop, found |-> {}]
  <2>2. hop \in Ats
    BY <1>3
  <2>3. /\ UNCHANGED <<scope, live, declared, row, rows, purge, client, excused, blobs, refs>>
        /\ worker[w].pc \notin {"idle", "record"}
    BY <1>6 DEF Hop
  <2> HIDE DEF hop
  <2>4. job \in Job
    BY <1>1, <2>2, JobsAre DEF WorkerPc
  <2>5. CASE worker' = [worker EXCEPT ![w] = IdleWorker]
    BY <1>2, <1>5, <2>3, <2>5
  <2>6. CASE worker' = [worker EXCEPT ![w] = job]
    BY <2>3, <2>4, <2>6 DEF MovesTo
  <2> QED
    BY <2>1, <2>5, <2>6 DEF hop
<1>7. ASSUME NEW host \in Hosts, Surf(w, host) PROVE \E job \in Job : MovesTo(w, job)
  <2>1. PICK address \in AddressesOf(host) : worker' = [worker EXCEPT ![w].at = <<host, address>>]
    BY <1>7 DEF Surf
  <2> DEFINE hop == <<host, address>>
             job == [worker[w] EXCEPT !.at = hop]
  <2>2. hop \in Ats
    BY <1>3
  <2>3. worker' = [worker EXCEPT ![w] = job]
    BY <1>1, <2>1
  <2>4. /\ UNCHANGED <<scope, live, declared, row, rows, purge, client, excused, blobs, refs>>
        /\ worker[w].pc = "surf"
    BY <1>7 DEF Surf
  <2> HIDE DEF hop
  <2>5. job \in Job /\ job.run = r /\ job.pc = "surf"
    BY <1>1, <2>2, <2>4 DEF Job
  <2> HIDE DEF job
  <2> QED
    BY <2>3, <2>4, <2>5 DEF MovesTo
<1>8. CASE Launch(w)
  <2> DEFINE job == [worker[w] EXCEPT !.pc = "surf"]
  <2>1. worker' = [worker EXCEPT ![w] = IdleWorker] \/ worker' = [worker EXCEPT ![w] = job]
    BY <1>8 DEF Launch
  <2>2. /\ UNCHANGED <<scope, live, declared, row, rows, purge, client, excused, blobs, refs>>
        /\ worker[w].pc = "crawl"
    BY <1>8 DEF Launch
  <2>3. job \in Job /\ job.run = r /\ job.pc = "surf"
    BY <1>1 DEF Job, WorkerPc
  <2> HIDE DEF job
  <2>4. CASE worker' = [worker EXCEPT ![w] = IdleWorker]
    BY <1>2, <1>5, <2>2, <2>4
  <2>5. CASE worker' = [worker EXCEPT ![w] = job]
    BY <2>2, <2>3, <2>5 DEF MovesTo
  <2> QED
    BY <2>1, <2>4, <2>5
<1>9. CASE ListAssets(w)
  <2>1. PICK listed \in SUBSET FoundAt(worker[w].at) :
          \/ worker' = [worker EXCEPT ![w] = IdleWorker]
          \/ worker' = [worker EXCEPT ![w] = [pc |-> "fetch", run |-> r, at |-> << >>, found |-> listed]]
    BY <1>9 DEF ListAssets
  <2> DEFINE job == [pc |-> "fetch", run |-> r, at |-> << >>, found |-> listed]
  <2>2. /\ UNCHANGED <<scope, live, declared, row, rows, purge, client, excused, refs>>
        /\ blobs' = blobs \cup {<<r, "artifact">>} /\ worker[w].pc = "surf"
    BY <1>9 DEF ListAssets
  <2>3. listed \in SUBSET AnyHost
    BY <1>1 DEF FoundAt, Ats
  <2>4. job \in Job /\ job.run = r /\ job.pc = "fetch"
    BY <1>1, <1>4, <2>3, JobsAre DEF WorkerPc
  <2> HIDE DEF job
  <2>5. CASE worker' = [worker EXCEPT ![w] = IdleWorker]
    BY <1>2, <2>2, <2>5 DEF MovesTo
  <2>6. CASE worker' = [worker EXCEPT ![w] = job]
    BY <2>2, <2>4, <2>6 DEF MovesTo
  <2> QED
    BY <2>1, <2>5, <2>6 DEF job
<1>10. CASE Capture(w)
  <2>1. PICK listed \in SUBSET FoundAt(worker[w].at) :
          worker' = [worker EXCEPT ![w] = [pc |-> "redirected", run |-> r, at |-> << >>, found |-> listed]]
    BY <1>10 DEF Capture
  <2> DEFINE job == [pc |-> "redirected", run |-> r, at |-> << >>, found |-> listed]
  <2>2. /\ UNCHANGED <<scope, live, declared, row, rows, purge, client, excused, refs>>
        /\ worker[w].pc = "surf" /\ (blobs' = blobs \/ blobs' = blobs \cup {<<r, "artifact">>})
    BY <1>10 DEF Capture
  <2>3. listed \in SUBSET AnyHost
    BY <1>1 DEF FoundAt, Ats
  <2>4. job \in Job /\ job.run = r /\ job.pc = "redirected"
    BY <1>1, <1>4, <2>3, JobsAre DEF WorkerPc
  <2>5. worker' = [worker EXCEPT ![w] = job]
    BY <2>1
  <2> HIDE DEF job
  <2> QED
    BY <2>2, <2>4, <2>5 DEF MovesTo
<1>11. CASE PutArtifact(w)
  <2> DEFINE job == [IdleWorker EXCEPT !.pc = "record", !.run = r]
  <2>1. /\ UNCHANGED <<scope, live, declared, row, rows, purge, client, excused, refs>>
        /\ blobs' = blobs \cup {<<r, "artifact">>} /\ worker[w].pc \in {"redirected", "analyze"}
        /\ worker' = [worker EXCEPT ![w] = job]
    BY <1>11 DEF PutArtifact
  <2>2. job \in Job /\ job.run = r /\ job.pc = "record"
    BY <1>1, <1>2 DEF Job, WorkerPc
  <2> HIDE DEF job
  <2> QED
    BY <2>1, <2>2 DEF MovesTo
<1>12. CASE NoInput(w)
  BY <1>2, <1>5, <1>12 DEF NoInput
<1>13. CASE RecordArtifact(w)
  BY <1>2, <1>5, <1>13 DEF RecordArtifact
<1> QED
  BY <1>6, <1>7, <1>8, <1>9, <1>10, <1>11, <1>12, <1>13 DEF WorkStep

LEMMA WorkStepKnown ==
  ASSUME TInv, NEW w \in Workers, WorkStep(w)
  PROVE  TInv'
<1>1. PICK job \in Job : MovesTo(w, job)
  BY WorkMoves
<1>2. job.pc # "idle" => job.run \in 1 .. Len(row)
  BY <1>1, IdleTypes DEF MovesTo, TInv, IdsKnown
<1> QED
  BY <1>1, <1>2, WorkerKnown DEF MovesTo

LEMMA DeleteStepKnown ==
  ASSUME TInv, DeleteStep
  PROVE  TInv'
<1>0. purge \in Deletion /\ rows \subseteq 1 .. Len(row) /\ row' = row /\ scope' = scope
  BY DEF TInv, SessionTypeOK, IdsKnown, DeleteStep, Collect, CommitDelete, EndPurge, Crash, Sweep
<1>1. ASSUME NEW s \in live, Collect(s) PROVE TInv'
  <2>0. s \in 1 .. Len(scope) /\ scope \in Seq(SUBSET AnyHost) /\ row \in Seq(Config)
    BY DEF TInv, SessionTypeOK, IdsKnown
  <2>1. s \in Nat /\ RunsOf(s) \subseteq 1 .. Len(row) /\ RunsOf(s) \in SUBSET Nat
    <3>1. s \in Nat /\ 1 .. Len(row) \subseteq Nat
      BY <2>0
    <3>2. RunsOf(s) \subseteq rows
      BY DEF RunsOf
    <3> QED
      BY <1>0, <3>1, <3>2
  <2> QED
    BY <1>1, <2>1, PurgeKnown DEF Collect, Deletion
<1>2. CASE CommitDelete
  <2>1. purge' = [purge EXCEPT !.pc = "sweep", !.runs = purge.runs]
    BY <1>2 DEF CommitDelete, ToSweep
  <2>2. purge' \in Deletion /\ purge'.runs \subseteq 1 .. Len(row)
    BY <1>0, <2>1 DEF Deletion, TInv, IdsKnown
  <2>3. rows' \subseteq rows /\ live' \subseteq live /\ UNCHANGED <<scope, declared, row, client, worker>>
    BY <1>2 DEF CommitDelete
  <2> QED
    BY <2>2, <2>3, PurgeKnown
<1>3. ASSUME NEW r \in purge.runs, Sweep(r) PROVE TInv'
  <2>1. purge' \in Deletion /\ purge'.runs \subseteq 1 .. Len(row)
    BY <1>0, <1>3 DEF Sweep, Deletion, TInv, IdsKnown
  <2> QED
    BY <1>3, <2>1, PurgeKnown DEF Sweep
<1>4. CASE EndPurge
  BY <1>4, PurgeKnown, IdleTypes DEF EndPurge
<1>5. CASE Crash
  <2>1. client' \in [Clients -> Request] /\ \A c \in Clients : client'[c].pc = "idle"
    BY <1>5, IdleTypes DEF Crash
  <2>2. purge' \in Deletion /\ purge'.runs = {}
    BY <1>5, IdleTypes DEF Crash
  <2> QED
    BY <1>5, <2>1, <2>2, KnownKeeps, SameScopes DEF Crash, TInv, SessionTypeOK, IdsKnown
<1> QED
  BY <1>1, <1>2, <1>3, <1>4, <1>5 DEF DeleteStep

LEMMA NextKnown == TInv /\ [Next]_srvars => TInv'
<1> SUFFICES ASSUME TInv, [Next]_srvars PROVE TInv'
  OBVIOUS
<1>1. CASE UNCHANGED srvars
  BY <1>1 DEF srvars, TInv, SessionTypeOK, IdsKnown
<1>2. ASSUME NEW c \in Clients, RerunStep(c) PROVE TInv'
  BY <1>2, AskRerunKnown DEF RerunStep
<1> QED
  BY <1>1, <1>2, StepIsSomebodys, SessionStepKnown, AskStepKnown, CreateRunKnown,
     InputStepKnown, WorkStepKnown, DeleteStepKnown

LEMMA InitKnown == Init => TInv
<1> SUFFICES ASSUME Init PROVE TInv
  OBVIOUS
<1>1. scope \in Seq(SUBSET AnyHost) /\ row \in Seq(Config) /\ Len(row) = 0
  BY DEF Init
<1> QED
  BY <1>1, IdleTypes DEF Init, TInv, SessionTypeOK, IdsKnown
-----------------------------------------------------------------------------
(* The scope a run is held to is the one its authorization named, and where a
   worker is connected was in it, or the target of what surfs for it: the
   scope of a session is written once.                                       *)
Connected(w) ==
  LET job == worker[w]
      hosts == scope[row[job.run].session]
  IN /\ job.pc = "idle" => job.at = << >> /\ job.found = {}
     /\ job.at # << >> /\ job.pc # "surf" =>
          InScope(job.at[1], hosts) /\ MayConnect(job.at[2])
     /\ job.pc = "surf" => InScope(row[job.run].target, hosts)
     /\ \A host \in job.found : InScope(host, hosts)

DInv == scope = declared /\ \A w \in Workers : Connected(w)

(* Nothing is in scope of the empty scope, so what is connected is not touched
   when a scope grows.                                                       *)
LEMMA GrowthKeepsConnected ==
  ASSUME TInv, DInv, ScopesGrow, worker' = worker,
         \A r \in 1 .. Len(row) : row'[r] = row[r]
  PROVE  DInv'
<1>1. ASSUME NEW w \in Workers, worker[w].pc # "idle", scope[row[worker[w].run].session] # {}
      PROVE  Connected(w)'
  <2> DEFINE r == worker[w].run
             s == row[r].session
  <2>1. r \in 1 .. Len(row) /\ s \in 1 .. Len(scope)
    BY <1>1 DEF TInv, IdsKnown
  <2>2. scope'[s] = scope[s] /\ row'[r] = row[r]
    BY <1>1, <2>1 DEF ScopesGrow
  <2> HIDE DEF r, s
  <2> QED
    BY <2>2 DEF DInv, Connected, InScope, MayConnect, r, s
<1>2. \A w \in Workers : Connected(w)'
  <2>1. ASSUME NEW w \in Workers, worker[w].pc = "idle" PROVE Connected(w)'
    BY <2>1 DEF DInv, Connected
  <2>2. ASSUME NEW w \in Workers, scope[row[worker[w].run].session] = {} PROVE Connected(w)'
    BY <2>2 DEF DInv, Connected, InScope
  <2> QED
    BY <1>1, <2>1, <2>2
<1>3. scope' = declared'
  BY DEF DInv, ScopesGrow
<1> QED
  BY <1>2, <1>3 DEF DInv

LEMMA WorkConnects ==
  ASSUME TInv, DInv, NEW w \in Workers, WorkStep(w)
  PROVE  DInv'
<1> DEFINE r == worker[w].run
<1>1. PICK job \in Job : MovesTo(w, job)
  BY WorkMoves
<1>2. /\ worker \in [Workers -> Job] /\ worker' = [worker EXCEPT ![w] = job]
      /\ UNCHANGED <<scope, declared, row>> /\ (job = IdleWorker \/ job.run = r)
  BY <1>1 DEF MovesTo, TInv, SessionTypeOK
<1>3. worker'[w] = job /\ \A v \in Workers : v # w => worker'[v] = worker[v]
  BY <1>2
<1>4. Connected(w)' => DInv'
  BY <1>2, <1>3 DEF DInv, Connected, InScope, MayConnect
<1>5. CASE job = IdleWorker
  BY <1>3, <1>4, <1>5 DEF Connected, IdleWorker
<1>6. ASSUME NEW host \in Hosts, Hop(w, host), job # IdleWorker PROVE Connected(w)'
  <2>1. PICK address \in AddressesOf(host) :
          /\ Validates(r, host, address)
          /\ worker' = [worker EXCEPT ![w] =
                [pc |-> "redirected", run |-> r, at |-> <<host, address>>, found |-> {}]]
    BY <1>2, <1>3, <1>6 DEF Hop
  <2>2. worker'[w] = [pc |-> "redirected", run |-> r, at |-> <<host, address>>, found |-> {}]
    BY <1>2, <2>1
  <2> QED
    BY <1>2, <2>1, <2>2 DEF Connected, Validates, InScope, MayConnect
<1>7. ASSUME NEW host \in Hosts, Surf(w, host) PROVE Connected(w)'
  <2>1. /\ job.pc = "surf" /\ worker[w].pc = "surf" /\ job.found = worker[w].found /\ job.run = r
    BY <1>2, <1>3, <1>7 DEF Surf, Job
  <2> QED
    BY <1>2, <1>3, <2>1 DEF DInv, Connected, InScope
<1>8. ASSUME Launch(w), job # IdleWorker PROVE Connected(w)'
  <2>1. /\ InScope(row[r].target, scope[row[r].session])
        /\ job.pc = "surf" /\ job.found = worker[w].found /\ job.run = r
    BY <1>2, <1>3, <1>8 DEF Launch, Validates, Job
  <2> QED
    BY <1>2, <1>3, <2>1 DEF DInv, Connected, InScope
<1>9. ASSUME ListAssets(w), job # IdleWorker PROVE Connected(w)'
  <2>1. PICK listed \in SUBSET FoundAt(worker[w].at) :
          /\ \A host \in listed : InScope(host, scope[row[r].session])
          /\ worker' = [worker EXCEPT ![w] = [pc |-> "fetch", run |-> r, at |-> << >>, found |-> listed]]
    BY <1>2, <1>3, <1>9 DEF ListAssets, Validates
  <2>2. worker'[w] = [pc |-> "fetch", run |-> r, at |-> << >>, found |-> listed]
    BY <1>2, <2>1
  <2> QED
    BY <1>2, <2>1, <2>2 DEF Connected, InScope
<1>10. ASSUME Capture(w) PROVE Connected(w)'
  <2>1. PICK listed \in SUBSET FoundAt(worker[w].at) :
          /\ \A host \in listed : host = row[r].target \/ InScope(host, scope[row[r].session])
          /\ worker' = [worker EXCEPT ![w] = [pc |-> "redirected", run |-> r, at |-> << >>, found |-> listed]]
    BY <1>10 DEF Capture
  <2>2. worker'[w] = [pc |-> "redirected", run |-> r, at |-> << >>, found |-> listed]
    BY <1>2, <2>1
  <2>3. InScope(row[r].target, scope[row[r].session])
    BY <1>10 DEF Capture, DInv, Connected
  <2>4. \A host \in listed : InScope(host, scope[row[r].session])
    BY <2>1, <2>3
  <2> QED
    BY <1>2, <2>2, <2>4 DEF Connected, InScope
<1>11. ASSUME PutArtifact(w) PROVE Connected(w)'
  <2>1. worker'[w] = [IdleWorker EXCEPT !.pc = "record", !.run = r]
    BY <1>2, <1>11 DEF PutArtifact
  <2>2. worker'[w].pc = "record" /\ worker'[w].at = << >> /\ worker'[w].found = {}
    BY <2>1 DEF IdleWorker
  <2> QED
    BY <2>2 DEF Connected
<1>12. CASE NoInput(w) \/ RecordArtifact(w)
  BY <1>2, <1>3, <1>5, <1>12 DEF NoInput, RecordArtifact
<1> QED
  BY <1>4, <1>5, <1>6, <1>7, <1>8, <1>9, <1>10, <1>11, <1>12 DEF WorkStep

LEMMA EnqueueConnects ==
  ASSUME TInv, DInv, NEW c \in Clients, NEW w \in Workers, Enqueue(c, w)
  PROVE  DInv'
<1>0. UNCHANGED <<scope, declared, row>> /\ worker \in [Workers -> Job]
  BY DEF Enqueue, TInv, SessionTypeOK
<1>1. CASE UNCHANGED worker
  BY <1>0, <1>1 DEF DInv, Connected, InScope
<1>2. CASE worker' # worker
  <2>1. /\ worker'[w].at = << >> /\ worker'[w].found = {}
        /\ worker'[w].pc \in {"analyze", "crawl"}
        /\ \A v \in Workers : v # w => worker'[v] = worker[v]
    BY <1>0, <1>2 DEF Enqueue
  <2>2. Connected(w)'
    BY <2>1 DEF Connected
  <2>3. ASSUME NEW v \in Workers, v # w PROVE Connected(v)'
    BY <1>0, <2>1, <2>3 DEF DInv, Connected, InScope
  <2> QED
    BY <1>0, <2>2, <2>3 DEF DInv
<1> QED
  BY <1>1, <1>2

LEMMA NextConnects == TInv /\ DInv /\ [Next]_srvars => DInv'
<1> SUFFICES ASSUME TInv, DInv, [Next]_srvars PROVE DInv'
  OBVIOUS
<1>1. ASSUME UNCHANGED <<scope, live, declared, row, worker>> PROVE DInv'
  BY <1>1, SameScopes, GrowthKeepsConnected
<1>2. CASE SessionStep
  BY <1>2, SessionStepGrows, GrowthKeepsConnected
<1>3. ASSUME NEW c \in Clients, RerunStep(c) PROVE DInv'
  <2>1. ScopesGrow
    BY <1>3, AskRerunKnown DEF RerunStep
  <2>2. worker' = worker /\ row' = row
    BY <1>3 DEF RerunStep, AskRerun
  <2> QED
    BY <2>1, <2>2, GrowthKeepsConnected
<1>4. ASSUME NEW c \in Clients, CreateRun(c) PROVE DInv'
  <2>1. UNCHANGED <<scope, live, declared, worker>>
    BY <1>4 DEF CreateRun
  <2>2. \A r \in 1 .. Len(row) : row'[r] = row[r]
    <3>1. row \in Seq(Config)
      BY DEF TInv, SessionTypeOK
    <3>2. client[c] \in Request
      BY DEF TInv, SessionTypeOK
    <3> DEFINE new == [session |-> client[c].session, target |-> client[c].target,
                       upload |-> client[c].upload]
    <3>3. row' = row \/ row' = Append(row, new)
      BY <1>4 DEF CreateRun
    <3>4. new \in Config
      BY <3>2 DEF Request, Config
    <3> HIDE DEF new
    <3> QED
      BY <3>1, <3>3, <3>4
  <2> QED
    BY <2>1, <2>2, SameScopes, GrowthKeepsConnected
<1>5. ASSUME NEW c \in Clients, InputStep(c) PROVE DInv'
  BY <1>1, <1>5, EnqueueConnects DEF InputStep, PutInput, PointToInput
<1>6. ASSUME NEW c \in Clients, AskStep(c) PROVE DInv'
  BY <1>1, <1>6 DEF AskStep, AskCrawl, AskUpload, CopyInput
<1>7. CASE DeleteStep
  <2>1. UNCHANGED <<scope, declared, row, worker>>
    BY <1>7 DEF DeleteStep, Collect, CommitDelete, Sweep, EndPurge, Crash
  <2> QED
    BY <2>1 DEF DInv, Connected, InScope
<1>8. CASE UNCHANGED srvars
  BY <1>1, <1>8 DEF srvars
<1> QED
  BY <1>2, <1>3, <1>4, <1>5, <1>6, <1>7, <1>8, StepIsSomebodys, WorkConnects

(* Whatever is edited, run again or redirected, the fetcher connects only where
   the authorization of its session named, and only to an address that is
   public; what surfs is out only for such a target, and nothing else it finds
   is kept (_resolve_rerun_session, validate_target, _fetch_hops).           *)
LEMMA ScopeInductive == Init /\ [][Next]_srvars => []OnlyDeclared
<1>1. Init => TInv /\ DInv
  <2> SUFFICES ASSUME Init PROVE DInv
    BY InitKnown
  <2>1. \A w \in Workers : worker[w] = IdleWorker
    BY DEF Init
  <2>2. \A w \in Workers : Connected(w)
    BY <2>1 DEF Connected, IdleWorker
  <2> QED
    BY <2>2 DEF Init, DInv
<1>2. TInv /\ DInv /\ [Next]_srvars => (TInv /\ DInv)'
  BY NextKnown, NextConnects
<1>3. TInv /\ DInv => OnlyDeclared
  BY DEF DInv, Connected, OnlyDeclared
<1> QED
  BY <1>1, <1>2, <1>3, PTL
-----------------------------------------------------------------------------
(* Whoever is about to point to bytes has them; a deletion sweeps only what has
   no row left, and so nothing a row points to.                             *)
PointBacked(c) ==
  client[c].pc = "point" /\ client[c].run \in rows => <<client[c].run, "input">> \in blobs
RecordBacked(w) ==
  worker[w].pc = "record" /\ worker[w].run \in rows => <<worker[w].run, "artifact">> \in blobs
SweepsTheDead ==
  /\ purge.pc = "collected" =>
       \A r \in purge.runs : r \in rows => row[r].session = purge.session
  /\ purge.pc = "sweep" => \A r \in purge.runs : r \notin rows

BInv ==
  /\ NoDangling
  /\ \A f \in refs : f[1] \in rows
  /\ \A c \in Clients : PointBacked(c)
  /\ \A w \in Workers : RecordBacked(w)
  /\ SweepsTheDead

(* A step that stores, and points to nothing new. *)
LEMMA StoringKeeps ==
  ASSUME TInv, BInv, refs' = refs, rows' = rows, row' = row, purge' = purge,
         blobs \subseteq blobs',
         \A c \in Clients : client'[c] = client[c] \/ client'[c].pc # "point"
                              \/ <<client'[c].run, "input">> \in blobs',
         \A w \in Workers : worker'[w] = worker[w] \/ worker'[w].pc # "record"
                              \/ <<worker'[w].run, "artifact">> \in blobs'
  PROVE  BInv'
<1>1. (\A c \in Clients : PointBacked(c)') /\ (\A w \in Workers : RecordBacked(w)')
  BY DEF BInv, PointBacked, RecordBacked
<1> QED
  BY <1>1 DEF BInv, NoDangling, SweepsTheDead

LEMMA CreateRunBacked ==
  ASSUME TInv, BInv, NEW c \in Clients, CreateRun(c)
  PROVE  BInv'
<1> DEFINE here == client[c]
           new == [session |-> here.session, target |-> here.target, upload |-> here.upload]
           pc == IF here.upload THEN "put" ELSE "enqueue"
           to == [IdleClient EXCEPT !.run = Len(row) + 1, !.pc = pc]
<1>1. /\ here \in Request /\ row \in Seq(Config) /\ client \in [Clients -> Request]
      /\ UNCHANGED <<blobs, refs, worker, purge>>
  BY DEF TInv, SessionTypeOK, CreateRun
<1>2. CASE client' = [client EXCEPT ![c] = IdleClient] /\ UNCHANGED <<row, rows>>
  <2>1. \A d \in Clients : client'[d] = client[d] \/ client'[d].pc # "point"
    BY <1>1, <1>2, IdleTypes
  <2> QED
    BY <1>1, <1>2, <2>1, StoringKeeps
<1>3. CASE here.session \in live
  <2>1. /\ row' = Append(row, new) /\ rows' = rows \cup {Len(row) + 1}
        /\ client' = [client EXCEPT ![c] = to]
    BY <1>3 DEF CreateRun
  <2>2. new \in Config
    BY <1>1 DEF Config, Request
  <2>3. to.pc # "point"
    <3>1. pc \in {"put", "enqueue"}
      OBVIOUS
    <3> HIDE DEF pc
    <3> QED
      BY <3>1 DEF IdleClient
  <2> HIDE DEF to, new
  <2>4. Len(row) \in Nat /\ \A r \in 1 .. Len(row) : row'[r] = row[r] /\ r # Len(row) + 1
    BY <1>1, <2>1, <2>2
  <2>5. \A d \in Clients : PointBacked(d)'
    BY <1>1, <2>1, <2>3, <2>4 DEF BInv, PointBacked, TInv, IdsKnown
  <2>6. \A w \in Workers : RecordBacked(w)'
    BY <1>1, <2>1, <2>4 DEF BInv, RecordBacked, TInv, IdsKnown
  <2>7. SweepsTheDead'
    BY <1>1, <2>1, <2>4 DEF BInv, SweepsTheDead, TInv, IdsKnown
  <2> QED
    BY <1>1, <2>1, <2>5, <2>6, <2>7 DEF BInv, NoDangling
<1> QED
  BY <1>2, <1>3 DEF CreateRun

LEMMA InputStepBacked ==
  ASSUME TInv, BInv, NEW c \in Clients, InputStep(c)
  PROVE  BInv'
<1>0. UNCHANGED <<row, rows, purge>> /\ client \in [Clients -> Request]
  BY DEF InputStep, PutInput, PointToInput, Enqueue, TInv, SessionTypeOK
<1>1. CASE PutInput(c)
  <2>1. client'[c].run = client[c].run /\ \A d \in Clients : d # c => client'[d] = client[d]
    BY <1>0, <1>1 DEF PutInput, Request
  <2> QED
    BY <1>0, <1>1, <2>1, StoringKeeps DEF PutInput
<1>2. CASE PointToInput(c)
  <2>1. /\ client'[c].pc = "enqueue" /\ \A d \in Clients : d # c => client'[d] = client[d]
        /\ UNCHANGED <<blobs, worker>>
        /\ refs' = IF client[c].run \in rows THEN refs \cup {<<client[c].run, "input">>} ELSE refs
    BY <1>0, <1>2 DEF PointToInput, Request
  <2>2. client[c].run \in rows => <<client[c].run, "input">> \in blobs
    BY <1>2 DEF PointToInput, BInv, PointBacked
  <2>3. NoDangling' /\ \A f \in refs' : f[1] \in rows'
    BY <1>0, <2>1, <2>2 DEF BInv, NoDangling
  <2>4. (\A d \in Clients : PointBacked(d)') /\ (\A w \in Workers : RecordBacked(w)')
    BY <1>0, <2>1 DEF BInv, PointBacked, RecordBacked
  <2> QED
    BY <1>0, <2>3, <2>4 DEF BInv, SweepsTheDead
<1>3. ASSUME NEW w \in Workers, Enqueue(c, w) PROVE BInv'
  <2>1. UNCHANGED <<refs, blobs>>
    BY <1>3 DEF Enqueue
  <2>2. \A d \in Clients : client'[d] = client[d] \/ client'[d].pc # "point"
    BY <1>0, <1>3, IdleTypes DEF Enqueue
  <2>3. \A v \in Workers : worker'[v] = worker[v] \/ worker'[v].pc # "record"
    <3> DEFINE pc == IF row[client[c].run].upload THEN "analyze" ELSE "crawl"
    <3>1. worker' = worker \/
          worker' = [worker EXCEPT ![w] =
            [pc |-> pc, run |-> client[c].run, at |-> << >>, found |-> {}]]
      BY <1>3 DEF Enqueue
    <3>2. pc # "record" /\ worker \in [Workers -> Job]
      BY DEF TInv, SessionTypeOK
    <3> HIDE DEF pc
    <3> QED
      BY <3>1, <3>2
  <2> QED
    BY <1>0, <2>1, <2>2, <2>3, StoringKeeps
<1> QED
  BY <1>1, <1>2, <1>3 DEF InputStep

LEMMA WorkStepBacked ==
  ASSUME TInv, BInv, NEW w \in Workers, WorkStep(w)
  PROVE  BInv'
<1>0. PICK job \in Job : MovesTo(w, job)
  BY WorkMoves
<1>1. /\ UNCHANGED <<row, rows, purge, client>> /\ worker \in [Workers -> Job]
      /\ worker' = [worker EXCEPT ![w] = job]
  BY <1>0 DEF MovesTo, TInv, SessionTypeOK
<1>2. worker'[w] = job /\ \A v \in Workers : v # w => worker'[v] = worker[v]
  BY <1>1
<1>3. CASE refs' = refs
  <2>1. blobs \subseteq blobs' /\ (job.pc = "record" => <<job.run, "artifact">> \in blobs')
    BY <1>0, IdleTypes DEF MovesTo
  <2> QED
    BY <1>1, <1>2, <1>3, <2>1, StoringKeeps
<1>6. CASE RecordArtifact(w)
  <2> DEFINE r == worker[w].run
  <2>1. /\ refs' = IF r \in rows THEN refs \cup {<<r, "artifact">>} ELSE refs
        /\ blobs' = blobs /\ worker[w].pc = "record"
        /\ worker'[w].pc # "record" /\ \A v \in Workers : v # w => worker'[v] = worker[v]
    BY <1>1, <1>2, <1>6, IdleTypes DEF RecordArtifact
  <2>2. r \in rows => <<r, "artifact">> \in blobs
    BY <2>1 DEF BInv, RecordBacked
  <2>3. NoDangling' /\ \A f \in refs' : f[1] \in rows'
    BY <1>1, <2>1, <2>2 DEF BInv, NoDangling
  <2>4. (\A d \in Clients : PointBacked(d)') /\ (\A v \in Workers : RecordBacked(v)')
    BY <1>1, <2>1 DEF BInv, PointBacked, RecordBacked
  <2> QED
    BY <1>1, <2>3, <2>4 DEF BInv, SweepsTheDead
<1> QED
  BY <1>0, <1>3, <1>6 DEF MovesTo

LEMMA DeleteStepBacked ==
  ASSUME TInv, BInv, DeleteStep
  PROVE  BInv'
<1>0. UNCHANGED <<row, worker>> /\ purge \in Deletion
  BY DEF DeleteStep, Collect, CommitDelete, EndPurge, Crash, Sweep, TInv, SessionTypeOK
<1>1. ASSUME NEW s \in live, Collect(s) PROVE BInv'
  BY <1>0, <1>1 DEF Collect, BInv, NoDangling, PointBacked, RecordBacked, SweepsTheDead, RunsOf
<1>2. CASE CommitDelete
  <2> DEFINE s == purge.session
  <2>1. /\ purge.pc = "collected" /\ rows' = rows \ RunsOf(s) /\ blobs' = blobs
        /\ refs' = {f \in refs : f[1] \notin RunsOf(s)} /\ client' = client
        /\ purge' = [purge EXCEPT !.pc = "sweep", !.runs = purge.runs]
    BY <1>2 DEF CommitDelete, ToSweep
  <2>2. purge'.pc = "sweep" /\ purge'.runs = purge.runs
    BY <1>0, <2>1 DEF Deletion
  <2>3. \A r \in purge.runs : r \notin rows'
    BY <2>1 DEF BInv, SweepsTheDead, RunsOf
  <2>4. SweepsTheDead'
    BY <2>2, <2>3 DEF SweepsTheDead
  <2>5. (\A d \in Clients : PointBacked(d)') /\ (\A v \in Workers : RecordBacked(v)')
    BY <1>0, <2>1 DEF BInv, PointBacked, RecordBacked
  <2> QED
    BY <2>1, <2>4, <2>5 DEF BInv, NoDangling
<1>3. ASSUME NEW r \in purge.runs, Sweep(r) PROVE BInv'
  <2>1. /\ purge.pc = "sweep" /\ UNCHANGED <<rows, refs, client>>
        /\ purge' = [purge EXCEPT !.runs = purge.runs \ {r}]
        /\ blobs \ BlobsOf({r}) \subseteq blobs'
    BY <1>3 DEF Sweep
  <2>2. purge'.pc = "sweep" /\ purge'.runs = purge.runs \ {r}
    BY <1>0, <2>1 DEF Deletion
  <2>3. r \notin rows
    BY <1>3, <2>1 DEF BInv, SweepsTheDead
  <2>4. \A b \in blobs : b[1] \in rows => b \in blobs'
    BY <2>1, <2>3 DEF BlobsOf
  <2>5. NoDangling'
    BY <2>1, <2>4 DEF BInv, NoDangling
  <2>6. (\A d \in Clients : PointBacked(d)') /\ (\A v \in Workers : RecordBacked(v)')
    BY <1>0, <2>1, <2>4 DEF BInv, PointBacked, RecordBacked
  <2>7. SweepsTheDead'
    BY <2>1, <2>2 DEF BInv, SweepsTheDead
  <2> QED
    BY <2>1, <2>5, <2>6, <2>7 DEF BInv
<1>4. ASSUME purge' = NoPurge, UNCHANGED <<rows, refs, blobs>>,
             \A d \in Clients : client'[d] = client[d] \/ client'[d].pc # "point"
      PROVE  BInv'
  BY <1>0, <1>4, IdleTypes DEF BInv, NoDangling, PointBacked, RecordBacked, SweepsTheDead
<1>5. CASE EndPurge
  BY <1>4, <1>5 DEF EndPurge
<1>6. CASE Crash
  BY <1>4, <1>6, IdleTypes DEF Crash
<1> QED
  BY <1>1, <1>2, <1>3, <1>5, <1>6 DEF DeleteStep

LEMMA NextBacked == TInv /\ BInv /\ [Next]_srvars => BInv'
<1> SUFFICES ASSUME TInv, BInv, [Next]_srvars PROVE BInv'
  OBVIOUS
<1>0. client \in [Clients -> Request]
  BY DEF TInv, SessionTypeOK
<1>1. CASE SessionStep
  BY <1>1, SessionStepGrows, StoringKeeps
<1>2. ASSUME NEW c \in Clients, UNCHANGED <<row, rows, refs, blobs, worker, purge>>,
             \A d \in Clients : d # c => client'[d] = client[d], client'[c].pc # "point"
      PROVE  BInv'
  BY <1>2, StoringKeeps
<1>3. ASSUME NEW c \in Clients, AskStep(c) PROVE BInv'
  <2>1. UNCHANGED <<row, rows, refs, blobs, worker, purge>>
    BY <1>3 DEF AskStep, AskCrawl, AskUpload, CopyInput
  <2>2. \A d \in Clients : d # c => client'[d] = client[d]
    BY <1>0, <1>3 DEF AskStep, AskCrawl, AskUpload, CopyInput
  <2>3. client[c] \in Request
    BY <1>0
  <2>4. client'[c].pc # "point"
    <3>1. CASE CopyInput(c)
      <4>1. [client[c] EXCEPT !.pc = "create", !.run = 0].pc = "create"
        BY <2>3 DEF Request
      <4>2. \/ client'[c] = [client[c] EXCEPT !.pc = "create", !.run = 0]
            \/ client'[c] = IdleClient
        BY <1>0, <3>1 DEF CopyInput
      <4> QED
        BY <4>1, <4>2, IdleTypes
    <3> QED
      BY <1>0, <1>3, <3>1 DEF AskStep, AskCrawl, AskUpload
  <2> QED
    BY <1>2, <2>1, <2>2, <2>4
<1>4. ASSUME NEW c \in Clients, RerunStep(c) PROVE BInv'
  <2>1. PICK r \in rows : \E target \in Edits \cup {row[r].target},
          hosts \in Scopes \cup {scope[row[r].session]} : AskRerun(c, r, target, hosts)
    BY <1>4 DEF RerunStep
  <2>2. PICK target \in Edits \cup {row[r].target},
          hosts \in Scopes \cup {scope[row[r].session]} : AskRerun(c, r, target, hosts)
    BY <2>1
  <2> DEFINE upload == <<r, "input">> \in refs
             pc == IF upload THEN "copy" ELSE "create"
             session == IF Len(scope') > Len(scope) THEN Len(scope') ELSE row[r].session
  <2>3. /\ client' = [client EXCEPT ![c] = [pc |-> pc, session |-> session, target |-> target,
                                            upload |-> upload, run |-> r]]
        /\ UNCHANGED <<row, rows, refs, blobs, worker, purge>>
    BY <2>2 DEF AskRerun
  <2>4. pc # "point"
    OBVIOUS
  <2> HIDE DEF pc, session, upload
  <2> QED
    BY <1>0, <1>2, <2>3, <2>4
<1>5. CASE UNCHANGED srvars
  BY <1>5, StoringKeeps DEF srvars
<1> QED
  BY <1>1, <1>3, <1>4, <1>5, StepIsSomebodys, CreateRunBacked, InputStepBacked,
     WorkStepBacked, DeleteStepBacked

(* A committed row never points to bytes that are not there: bytes go in before
   the row that names them, and out after it (start_run_with_input,
   delete_session), whatever dies and whoever else is at work.               *)
LEMMA BytesInductive == Init /\ [][Next]_srvars => []NoDangling
<1>1. Init => TInv /\ BInv
  <2> SUFFICES ASSUME Init PROVE BInv
    BY InitKnown
  <2> QED
    BY IdleTypes DEF Init, BInv, NoDangling, PointBacked, RecordBacked, SweepsTheDead
<1>2. TInv /\ BInv /\ [Next]_srvars => (TInv /\ BInv)'
  BY NextKnown, NextBacked
<1>3. TInv /\ BInv => NoDangling
  BY DEF BInv
<1> QED
  BY <1>1, <1>2, <1>3, PTL
-----------------------------------------------------------------------------
(* Bytes belong to a run that is there, that is being swept, or whose purge is
   excused; and whoever may still store bytes does so for such a run.       *)
Accounted(r) == r \in rows \cup excused
Storing == {"crawl", "surf", "fetch", "redirected", "analyze"}

CInv ==
  /\ PurgeComplete
  /\ \A c \in Clients : client[c].pc = "put" => Accounted(client[c].run)
  /\ \A w \in Workers : worker[w].pc \in Storing => Accounted(worker[w].run)
  /\ purge.pc = "collected" => purge.runs \subseteq rows
  /\ purge.pc = "idle" => purge.runs = {}

LEMMA AccountedKeeps ==
  ASSUME TInv, CInv, UNCHANGED <<purge, excused>>, rows \subseteq rows',
         \A b \in blobs' : b \in blobs \/ Accounted(b[1])',
         \A c \in Clients : client'[c] = client[c] \/ client'[c].pc # "put"
                              \/ Accounted(client[c].run)',
         \A w \in Workers : worker'[w] = worker[w] \/ worker'[w].pc \notin Storing
                              \/ Accounted(worker[w].run)'
  PROVE  CInv'
<1>1. PurgeComplete'
  BY DEF CInv, PurgeComplete, Accounted
<1>2. \A c \in Clients : client'[c].pc = "put" => Accounted(client[c].run)'
  BY DEF CInv, Accounted
<1>3. \A w \in Workers : worker'[w].pc \in Storing => Accounted(worker[w].run)'
  BY DEF CInv, Accounted
<1> QED
  BY <1>1, <1>2, <1>3 DEF CInv, Accounted

LEMMA ClientAccounted ==
  ASSUME TInv, CInv, NEW c \in Clients, AskStep(c) \/ RerunStep(c) \/ CreateRun(c) \/ InputStep(c)
  PROVE  CInv'
<1>0. client[c] \in Request /\ client \in [Clients -> Request] /\ worker \in [Workers -> Job]
  BY DEF TInv, SessionTypeOK
<1>1. UNCHANGED <<purge, excused>> /\ rows \subseteq rows'
  BY DEF AskStep, AskCrawl, AskUpload, CopyInput, RerunStep, AskRerun, CreateRun, InputStep,
         PutInput, PointToInput, Enqueue
<1>2. \A b \in blobs' : b \in blobs \/ Accounted(b[1])'
  <2>1. CASE PutInput(c)
    BY <1>1, <2>1 DEF PutInput, CInv, Accounted
  <2>2. CASE blobs' = blobs
    BY <2>2
  <2> QED
    BY <2>1, <2>2 DEF AskStep, AskCrawl, AskUpload, CopyInput, RerunStep, AskRerun, CreateRun,
         InputStep, PointToInput, Enqueue
<1>3. \A d \in Clients : d # c => client'[d] = client[d]
  BY <1>0 DEF AskStep, AskCrawl, AskUpload, CopyInput, RerunStep, AskRerun, CreateRun, InputStep,
              PutInput, PointToInput, Enqueue
<1>4. client'[c].pc # "put" \/ client'[c] = client[c] \/ Accounted(client[c].run)'
  <2>1. CASE AskStep(c)
    <3>1. CASE CopyInput(c)
      <4>1. [client[c] EXCEPT !.pc = "create", !.run = 0].pc = "create"
        BY <1>0 DEF Request
      <4>2. \/ client'[c] = [client[c] EXCEPT !.pc = "create", !.run = 0]
            \/ client'[c] = IdleClient
        BY <1>0, <3>1 DEF CopyInput
      <4> QED
        BY <4>1, <4>2, IdleTypes
    <3> QED
      BY <1>0, <2>1, <3>1 DEF AskStep, AskCrawl, AskUpload
  <2>2. CASE RerunStep(c)
    <3>1. PICK r \in rows, pc \in {"copy", "create"} : client'[c].pc = pc
      <4>1. PICK r \in rows : \E target \in Edits \cup {row[r].target},
              hosts \in Scopes \cup {scope[row[r].session]} : AskRerun(c, r, target, hosts)
        BY <2>2 DEF RerunStep
      <4>2. PICK target \in Edits \cup {row[r].target},
              hosts \in Scopes \cup {scope[row[r].session]} : AskRerun(c, r, target, hosts)
        BY <4>1
      <4> DEFINE upload == <<r, "input">> \in refs
                 pc == IF upload THEN "copy" ELSE "create"
                 session == IF Len(scope') > Len(scope) THEN Len(scope') ELSE row[r].session
      <4>3. client' = [client EXCEPT ![c] = [pc |-> pc, session |-> session, target |-> target,
                                             upload |-> upload, run |-> r]]
        BY <4>2 DEF AskRerun
      <4>4. pc \in {"copy", "create"}
        OBVIOUS
      <4> HIDE DEF pc, session, upload
      <4> QED
        BY <1>0, <4>3, <4>4
    <3> QED
      BY <3>1
  <2>3. CASE CreateRun(c)
    <3>1. CASE client' = [client EXCEPT ![c] = IdleClient]
      BY <1>0, <3>1, IdleTypes
    <3>2. CASE client[c].session \in live
      <4> DEFINE n == Len(row) + 1
                 pc == IF client[c].upload THEN "put" ELSE "enqueue"
                 to == [IdleClient EXCEPT !.run = n, !.pc = pc]
      <4>1. rows' = rows \cup {n} /\ client' = [client EXCEPT ![c] = to]
        BY <2>3, <3>2 DEF CreateRun
      <4> HIDE DEF n, pc
      <4>2. to.run = n
        BY DEF IdleClient
      <4> HIDE DEF to
      <4> QED
        BY <1>0, <4>1, <4>2 DEF Accounted
    <3> QED
      BY <2>3, <3>1, <3>2 DEF CreateRun
  <2>4. CASE InputStep(c)
    BY <1>0, <2>4, IdleTypes DEF InputStep, PutInput, PointToInput, Enqueue, Request
  <2> QED
    BY <2>1, <2>2, <2>3, <2>4
<1>5. \A w \in Workers : worker'[w] = worker[w] \/ Accounted(worker[w].run)'
  <2>1. CASE worker' = worker
    BY <2>1
  <2>2. ASSUME NEW w \in Workers, Enqueue(c, w), worker' # worker
        PROVE  \A v \in Workers : worker'[v] = worker[v] \/ Accounted(worker[v].run)'
    <3>1. worker'[w].run = client[c].run /\ \A v \in Workers : v # w => worker'[v] = worker[v]
      BY <1>0, <2>2 DEF Enqueue
    <3>2. client[c].run \in rows
      BY <2>2 DEF Enqueue
    <3> QED
      BY <1>1, <3>1, <3>2 DEF Accounted
  <2> QED
    BY <2>1, <2>2 DEF AskStep, AskCrawl, AskUpload, CopyInput, RerunStep, AskRerun, CreateRun,
                      InputStep, PutInput, PointToInput
<1> QED
  BY <1>1, <1>2, <1>3, <1>4, <1>5, AccountedKeeps

LEMMA WorkAccounted ==
  ASSUME TInv, CInv, NEW w \in Workers, WorkStep(w)
  PROVE  CInv'
<1>0. PICK job \in Job : MovesTo(w, job)
  BY WorkMoves
<1>1. /\ UNCHANGED <<rows, purge, client, excused>> /\ worker \in [Workers -> Job]
      /\ worker' = [worker EXCEPT ![w] = job]
  BY <1>0 DEF MovesTo, TInv, SessionTypeOK
<1>2. worker'[w] = job /\ \A v \in Workers : v # w => worker'[v] = worker[v]
  BY <1>1
<1>3. worker[w].pc \in WorkerPc
  BY <1>1 DEF Job
<1>4. worker[w].pc \notin {"idle", "record"} => Accounted(worker[w].run)
  BY <1>3 DEF CInv, Storing, WorkerPc
<1>5. job.pc \in Storing => job.run \in rows \cup excused
  BY <1>0, <1>4, IdleTypes DEF MovesTo, Storing, Accounted
<1>6. \A b \in blobs' : b \in blobs \/ b[1] \in rows \cup excused
  <2>1. CASE blobs' = blobs
    BY <2>1
  <2>2. CASE /\ blobs' = blobs \cup {<<worker[w].run, "artifact">>}
             /\ worker[w].pc \in {"surf", "redirected", "analyze"}
    BY <1>4, <2>2 DEF Accounted
  <2> QED
    BY <1>0, <2>1, <2>2 DEF MovesTo
<1> QED
  BY <1>1, <1>2, <1>5, <1>6, AccountedKeeps DEF Accounted

LEMMA DeleteAccounted ==
  ASSUME TInv, BInv, CInv, DeleteStep
  PROVE  CInv'
<1>0. purge \in Deletion /\ UNCHANGED worker
  BY DEF DeleteStep, Collect, CommitDelete, EndPurge, Crash, Sweep, TInv, SessionTypeOK
<1>1. ASSUME NEW s \in live, Collect(s) PROVE CInv'
  BY <1>0, <1>1 DEF Collect, CInv, PurgeComplete, Accounted, RunsOf
<1>2. CASE CommitDelete
  <2> DEFINE s == purge.session
  <2>1. /\ purge.pc = "collected" /\ rows' = rows \ RunsOf(s) /\ UNCHANGED <<blobs, client>>
        /\ purge' = [purge EXCEPT !.pc = "sweep", !.runs = purge.runs]
        /\ excused' = excused \cup (RunsOf(s) \ purge.runs) \cup {r \in RunsOf(s) : Writing(r)}
    BY <1>2 DEF CommitDelete, ToSweep
  <2>2. purge'.pc = "sweep" /\ purge'.runs = purge.runs
    BY <1>0, <2>1 DEF Deletion
  <2>3. PurgeComplete'
    BY <2>1, <2>2 DEF CInv, PurgeComplete
  <2>4. \A c \in Clients : client[c].pc = "put" => Accounted(client[c].run)'
    BY <2>1 DEF CInv, Accounted, Writing
  <2>5. \A w \in Workers : worker[w].pc \in Storing => Accounted(worker[w].run)'
    <3>1. "record" \notin Storing
      BY DEF Storing
    <3>2. \A w \in Workers : worker[w].pc \in Storing /\ worker[w].run \in RunsOf(s) =>
                               Writing(worker[w].run)
      BY <3>1 DEF Writing
    <3> QED
      BY <1>0, <2>1, <3>2 DEF CInv, Accounted
  <2> QED
    BY <1>0, <2>1, <2>2, <2>3, <2>4, <2>5 DEF CInv
<1>3. ASSUME NEW r \in purge.runs, Sweep(r) PROVE CInv'
  <2>1. /\ purge.pc = "sweep" /\ UNCHANGED <<rows, client>>
        /\ purge' = [purge EXCEPT !.runs = purge.runs \ {r}]
        /\ blobs' \subseteq blobs /\ excused \subseteq excused'
        /\ r \in excused' \/ blobs' = blobs \ BlobsOf({r})
    BY <1>3 DEF Sweep, BlobsOf
  <2>2. purge'.pc = "sweep" /\ purge'.runs = purge.runs \ {r}
    BY <1>0, <2>1 DEF Deletion
  <2>3. PurgeComplete'
    BY <2>1, <2>2 DEF CInv, PurgeComplete, BlobsOf
  <2> QED
    BY <1>0, <2>1, <2>2, <2>3 DEF CInv, Accounted
<1>4. CASE EndPurge
  BY <1>0, <1>4, IdleTypes DEF EndPurge, CInv, PurgeComplete, Accounted
<1>5. CASE Crash
  <2>1. /\ UNCHANGED <<rows, blobs>> /\ purge'.runs = {} /\ purge'.pc = "idle"
        /\ \A c \in Clients : client'[c].pc = "idle"
        /\ excused' = IF purge.pc = "sweep" THEN excused \cup purge.runs ELSE excused
    BY <1>5, IdleTypes DEF Crash
  <2>2. purge.pc # "sweep" => purge.runs \subseteq rows
    BY <1>0 DEF CInv, Deletion
  <2>3. PurgeComplete'
    BY <2>1, <2>2 DEF CInv, PurgeComplete
  <2> QED
    BY <1>0, <2>1, <2>3 DEF CInv, Accounted
<1> QED
  BY <1>1, <1>2, <1>3, <1>4, <1>5 DEF DeleteStep

LEMMA NextAccounted == TInv /\ BInv /\ CInv /\ [Next]_srvars => CInv'
<1> SUFFICES ASSUME TInv, BInv, CInv, [Next]_srvars PROVE CInv'
  OBVIOUS
<1>1. CASE SessionStep
  <2>1. excused' = excused
    BY <1>1 DEF SessionStep, CreateSession, SeedScope
  <2> QED
    BY <1>1, <2>1, SessionStepGrows, AccountedKeeps
<1>2. CASE UNCHANGED srvars
  BY <1>2, AccountedKeeps DEF srvars
<1> QED
  BY <1>1, <1>2, StepIsSomebodys, ClientAccounted, WorkAccounted, DeleteAccounted

(* When a deletion is over, what bytes are left of its runs are those of a sweep
   that failed or was interrupted, of a run made after the runs were collected,
   or of a run somebody was still storing for (delete_session).              *)
LEMMA PurgeInductive == Init /\ [][Next]_srvars => []PurgeComplete
<1>1. Init => TInv /\ BInv /\ CInv
  <2> SUFFICES ASSUME Init PROVE BInv /\ CInv
    BY InitKnown
  <2>1. BInv
    BY IdleTypes DEF Init, BInv, NoDangling, PointBacked, RecordBacked, SweepsTheDead
  <2>2. CInv
    BY IdleTypes DEF Init, CInv, PurgeComplete, Storing
  <2> QED
    BY <2>1, <2>2
<1>2. TInv /\ BInv /\ CInv /\ [Next]_srvars => (TInv /\ BInv /\ CInv)'
  BY NextKnown, NextBacked, NextAccounted
<1>3. TInv /\ BInv /\ CInv => PurgeComplete
  BY DEF CInv
<1> QED
  BY <1>1, <1>2, <1>3, PTL
-----------------------------------------------------------------------------
(* PageCapture: a run that has queued a content names the session it was
   stamped with, and one that is about to end has seen an empty queue.      *)
MemFields == {"sid", "capturing", "files", "hashes", "bytes", "queue", "timer", "inline", "metaDue"}
StoredFields == {"sid", "dedup", "meta", "capturing"}
ProcFields == {"pc", "batch", "hash", "sid"}

PageShapes ==
  /\ DOMAIN mem = MemFields /\ DOMAIN stored = StoredFields
  /\ DOMAIN proc = Processors /\ proc = [p \in Processors |-> proc[p]]
  /\ \A p \in Processors : DOMAIN proc[p] = ProcFields

SessionsKnown ==
  /\ mem.sid \in Sessions /\ stored.sid \in Sessions
  /\ turn \in {"flush", "rotate"} => stored.sid + 1 \in Sessions

Stamped(mine) == mine.pc \in {"queue", "mark", "count"} => mine.sid \in Sessions
Outboxed(mine, out) == mine.pc \in {"mark", "count"} => <<mine.sid, mine.hash>> \in out
(* Where what was queued is, or was when the worker was torn down. *)
Handed == sent \cup held \cup torn
Queued(h, out) == \E s \in Sessions : <<s, h>> \in out

PageInv ==
  /\ PageShapes /\ SessionsKnown
  /\ \A p \in Processors : Stamped(proc[p]) /\ Outboxed(proc[p], Handed)
  /\ \A h \in stored.dedup : Queued(h, Handed)
  /\ P!NothingForgotten

LEMMA SameHanded == UNCHANGED <<sent, held, torn>> => Handed' = Handed
BY DEF Handed

(* A step of the page or of the user: nobody at work notices. *)
LEMMA QuietKeepsPage ==
  ASSUME PageInv, DOMAIN mem' = MemFields, DOMAIN stored' = StoredFields,
         mem'.sid \in Sessions, stored'.sid \in Sessions,
         turn' \in {"flush", "rotate"} => stored'.sid + 1 \in Sessions,
         stored'.dedup \subseteq stored.dedup, Handed' = Handed, UNCHANGED proc,
         mem'.queue = << >> \/ mem'.timer \/ (mem'.queue = mem.queue /\ mem'.timer = mem.timer)
  PROVE  PageInv'
<1>1. PageShapes' /\ SessionsKnown'
  BY DEF PageInv, PageShapes, SessionsKnown
<1>2. P!NothingForgotten'
  BY DEF PageInv, P!NothingForgotten
<1> QED
  BY <1>1, <1>2 DEF PageInv

(* A step of a run of the queue: it goes on, or it leaves an empty queue. *)
LEMMA WorkKeepsPage ==
  ASSUME PageInv, NEW p \in Processors, NEW mine, proc' = [proc EXCEPT ![p] = mine],
         DOMAIN mine = ProcFields, DOMAIN mem' = MemFields, DOMAIN stored' = StoredFields,
         mem'.sid = mem.sid, stored'.sid = stored.sid, turn' = turn, Handed \subseteq Handed',
         Stamped(mine), Outboxed(mine, Handed'),
         \A h \in stored'.dedup : h \in stored.dedup \/ Queued(h, Handed'),
         mine.pc # "idle" \/ mem'.queue = << >>
  PROVE  PageInv'
<1>1. proc'[p] = mine /\ \A q \in Processors : q # p => proc'[q] = proc[q]
  BY DEF PageInv, PageShapes
<1>2. PageShapes'
  BY <1>1 DEF PageInv, PageShapes
<1>3. SessionsKnown'
  BY DEF PageInv, SessionsKnown
<1>4. \A q \in Processors : Stamped(proc'[q]) /\ Outboxed(proc'[q], Handed')
  BY <1>1 DEF PageInv, Outboxed
<1>5. \A h \in stored'.dedup : Queued(h, Handed')
  BY DEF PageInv, Queued
<1>6. P!NothingForgotten'
  BY <1>1 DEF PageInv, P!NothingForgotten
<1> QED
  BY <1>2, <1>3, <1>4, <1>5, <1>6 DEF PageInv

LEMMA EmptyShape ==
  ASSUME NEW s, NEW capturing
  PROVE  /\ DOMAIN P!Empty(s, capturing) = MemFields
         /\ P!Empty(s, capturing).sid = s /\ P!Empty(s, capturing).queue = << >>
  BY DEF P!Empty, MemFields

LEMMA SetCapturingShape ==
  ASSUME PageInv, NEW on, P!SetCapturing(on)
  PROVE  /\ DOMAIN mem' = MemFields /\ DOMAIN stored' = StoredFields
         /\ mem'.sid = mem.sid /\ mem'.queue = mem.queue /\ mem'.timer = mem.timer
         /\ stored'.sid = stored.sid /\ stored'.dedup = stored.dedup
  BY DEF PageInv, PageShapes, P!SetCapturing, MemFields, StoredFields

LEMMA PushShape ==
  ASSUME PageInv, NEW items
  PROVE  /\ DOMAIN P!Push(items) = MemFields
         /\ P!Push(items).sid = mem.sid /\ P!Push(items).timer
  BY DEF PageInv, PageShapes, P!Push, MemFields

LEMMA IdleProcShape ==
  DOMAIN P!IdleProc = ProcFields /\ P!IdleProc.pc = "idle"
  BY DEF P!IdleProc, ProcFields

(* What follows an item: another, the queue again, or the end of the run. *)
LEMMA NextItemShape ==
  ASSUME NEW p, NEW queue
  PROVE  /\ DOMAIN P!NextItem(p, queue) = ProcFields
         /\ P!NextItem(p, queue).pc \in {"fetch", "idle", "again"}
         /\ P!NextItem(p, queue).pc # "idle" \/ queue = << >>
<1>1. CASE Len(proc[p].batch) > 1
  BY <1>1 DEF P!NextItem, P!IdleProc, ProcFields
<1>2. CASE ~(Len(proc[p].batch) > 1)
  BY <1>2 DEF P!NextItem, P!IdleProc, ProcFields
<1> QED
  BY <1>1, <1>2

LEMMA PageStepKeepsPage ==
  ASSUME PageInv,
         \/ P!Toggle \/ P!PersistMeta \/ P!ClearFiles \/ P!Flushed \/ P!Rotate \/ P!Adopt
         \/ \E url \in Urls : P!SeeScript(url)
         \/ \E url \in Inline : \E hash \in Served[url] : P!SeeInline(url, hash)
         \/ \E then \in {"flush", "rotate"} : P!Leave(then)
  PROVE  PageInv'
<1> USE DEF PageInv, PageShapes, SessionsKnown
<1>0. Handed' = Handed
  BY SameHanded DEF P!queued, P!Toggle, P!PersistMeta, P!ClearFiles, P!Flushed, P!Rotate,
     P!Adopt, P!SeeScript, P!SeeInline, P!Leave
<1>1. CASE P!Toggle
  BY <1>1, SetCapturingShape, <1>0, QuietKeepsPage DEF P!Toggle
<1>2. CASE P!PersistMeta
  <2>1. /\ DOMAIN mem' = MemFields /\ mem'.sid = mem.sid
        /\ mem'.queue = mem.queue /\ mem'.timer = mem.timer
    BY <1>2 DEF P!PersistMeta, MemFields
  <2>2. /\ DOMAIN stored' = StoredFields /\ stored'.sid = stored.sid
        /\ stored'.dedup = stored.dedup
    BY <1>2 DEF P!PersistMeta, StoredFields
  <2> QED
    BY <1>2, <2>1, <2>2, <1>0, QuietKeepsPage DEF P!PersistMeta
<1>3. CASE P!ClearFiles
  <2>1. DOMAIN stored' = StoredFields /\ stored'.sid = stored.sid /\ stored'.dedup = {}
    BY <1>3 DEF P!ClearFiles, StoredFields
  <2> QED
    BY <1>3, <2>1, EmptyShape, <1>0, QuietKeepsPage DEF P!ClearFiles
<1>4. CASE P!Flushed
  BY <1>4, <1>0, QuietKeepsPage DEF P!Flushed
<1>5. CASE P!Rotate
  <2>1. /\ DOMAIN stored' = StoredFields /\ stored'.sid = stored.sid + 1
        /\ stored'.dedup = stored.dedup
    BY <1>5 DEF P!Rotate, StoredFields
  <2> QED
    BY <1>5, <2>1, <1>0, QuietKeepsPage DEF P!Rotate
<1>6. CASE P!Adopt
  <2> DEFINE fresh == P!Empty(stored.sid, mem.capturing)
  <2>1. DOMAIN fresh = MemFields /\ fresh.sid = stored.sid
    BY EmptyShape
  <2>2. mem' = [fresh EXCEPT !.queue = mem.queue, !.timer = mem.timer]
    BY <1>6 DEF P!Adopt
  <2> HIDE DEF fresh
  <2>3. /\ DOMAIN mem' = MemFields /\ mem'.sid = stored.sid
        /\ mem'.queue = mem.queue /\ mem'.timer = mem.timer
    BY <2>1, <2>2 DEF MemFields
  <2>4. DOMAIN stored' = StoredFields /\ stored'.sid = stored.sid /\ stored'.dedup = {}
    BY <1>6 DEF P!Adopt, StoredFields
  <2> QED
    BY <1>6, <2>3, <2>4, <1>0, QuietKeepsPage DEF P!Adopt
<1>7. ASSUME NEW url \in Urls, P!SeeScript(url) PROVE PageInv'
  BY <1>7, PushShape, <1>0, QuietKeepsPage DEF P!SeeScript
<1>8. ASSUME NEW url \in Inline, NEW hash \in Served[url], P!SeeInline(url, hash) PROVE PageInv'
  <2> DEFINE pushed == P!Push(<<[url |-> url, body |-> hash]>>)
  <2>1. DOMAIN pushed = MemFields /\ pushed.sid = mem.sid /\ pushed.timer
    BY PushShape
  <2>2. mem' = [pushed EXCEPT !.inline = @ + 1]
    BY <1>8 DEF P!SeeInline
  <2> HIDE DEF pushed
  <2>3. DOMAIN mem' = MemFields /\ mem'.sid = mem.sid /\ mem'.timer
    BY <2>1, <2>2 DEF MemFields
  <2> QED
    BY <1>8, <2>3, <1>0, QuietKeepsPage DEF P!SeeInline
<1>9. ASSUME NEW then \in {"flush", "rotate"}, P!Leave(then) PROVE PageInv'
  <2>1. DOMAIN mem' = MemFields /\ mem'.sid = mem.sid /\ mem'.queue = << >>
    BY <1>9 DEF P!Leave, MemFields
  <2> QED
    BY <1>9, <2>1, <1>0, QuietKeepsPage DEF P!Leave
<1> QED
  BY <1>1, <1>2, <1>3, <1>4, <1>5, <1>6, <1>7, <1>8, <1>9

LEMMA TakeBatchKeepsPage ==
  ASSUME P!CaptureConstants, PageInv, NEW p \in Processors, P!TakeBatch(p)
  PROVE  PageInv'
<1> DEFINE mine == [P!IdleProc EXCEPT
             !.pc = IF mem.queue = << >> THEN "idle" ELSE "fetch",
             !.batch = SubSeq(mem.queue, 1, P!Taken)]
<1>1. /\ DOMAIN mine = ProcFields
      /\ mine.pc = IF mem.queue = << >> THEN "idle" ELSE "fetch"
  BY DEF P!IdleProc, ProcFields
<1>2. proc' = [proc EXCEPT ![p] = mine]
  BY DEF P!TakeBatch
<1> HIDE DEF mine
<1>3. /\ DOMAIN mem' = MemFields /\ mem'.sid = mem.sid
      /\ mem'.queue = SubSeq(mem.queue, P!Taken + 1, Len(mem.queue))
  BY DEF P!TakeBatch, PageInv, PageShapes, MemFields
<1>4. mem.queue = << >> => mem'.queue = << >>
  <2> SUFFICES ASSUME mem.queue = << >> PROVE mem'.queue = << >>
    OBVIOUS
  <2>1. P!Taken = 0
    BY DEF P!Taken, P!CaptureConstants
  <2> QED
    BY <1>3, <2>1
<1>5. Stamped(mine) /\ Outboxed(mine, Handed')
  BY <1>1 DEF Stamped, Outboxed
<1> QED
  BY <1>1, <1>2, <1>3, <1>4, <1>5, SameHanded, WorkKeepsPage DEF P!TakeBatch, P!queued, PageInv, PageShapes

LEMMA FetchKeepsPage ==
  ASSUME PageInv, NEW p \in Processors,
         (\E hash \in Hashes : P!FetchContent(p, hash)) \/ P!FetchFails(p) \/ P!SkipSeen(p)
  PROVE  PageInv'
<1> USE DEF PageInv, PageShapes
<1> DEFINE after == P!NextItem(p, mem.queue)
<1>1. /\ DOMAIN after = ProcFields /\ Stamped(after) /\ Outboxed(after, Handed')
      /\ after.pc # "idle" \/ mem.queue = << >>
  BY NextItemShape DEF Stamped, Outboxed
<1> HIDE DEF after
<1>2. ASSUME Handed' = Handed, UNCHANGED <<mem, stored, turn>>, proc' = [proc EXCEPT ![p] = after]
      PROVE  PageInv'
  BY <1>1, <1>2, WorkKeepsPage
<1>3. ASSUME NEW hash \in Hashes, P!FetchContent(p, hash) PROVE PageInv'
  <2>1. turn' = turn /\ Handed' = Handed
    BY <1>3, SameHanded DEF P!FetchContent, P!queued
  <2>2. /\ DOMAIN mem' = MemFields /\ DOMAIN stored' = StoredFields
        /\ mem'.sid = mem.sid /\ mem'.queue = mem.queue
        /\ stored'.sid = stored.sid /\ stored'.dedup = stored.dedup
    <3>1. P!SetCapturing(FALSE) \/ UNCHANGED <<mem, stored>>
      BY <1>3 DEF P!FetchContent
    <3> QED
      BY <3>1, SetCapturingShape
  <2>3. CASE proc' = [proc EXCEPT ![p] = after]
    BY <1>1, <2>1, <2>2, <2>3, WorkKeepsPage
  <2>4. CASE proc' = [proc EXCEPT ![p].pc = "hash", ![p].hash = hash]
    <3> DEFINE mine == [proc[p] EXCEPT !.pc = "hash", !.hash = hash]
    <3>1. DOMAIN mine = ProcFields /\ mine.pc = "hash"
      BY DEF ProcFields
    <3>2. proc' = [proc EXCEPT ![p] = mine]
      BY <2>4
    <3> HIDE DEF mine
    <3>3. Stamped(mine) /\ Outboxed(mine, Handed')
      BY <3>1 DEF Stamped, Outboxed
    <3> QED
      BY <2>1, <2>2, <3>1, <3>2, <3>3, WorkKeepsPage
  <2> QED
    BY <1>3, <2>3, <2>4 DEF P!FetchContent, after
<1> QED
  BY <1>2, <1>3, SameHanded DEF P!FetchFails, P!SkipSeen, P!queued, after

LEMMA KeepFileKeepsPage ==
  ASSUME PageInv, NEW p \in Processors, P!KeepFile(p)
  PROVE  PageInv'
<1> USE DEF PageInv, PageShapes
<1> DEFINE mine == [proc[p] EXCEPT !.pc = "queue", !.sid = mem.sid]
<1>1. DOMAIN mine = ProcFields /\ mine.pc = "queue" /\ mine.sid = mem.sid
  BY DEF ProcFields
<1>2. proc' = [proc EXCEPT ![p] = mine]
  BY DEF P!KeepFile
<1> HIDE DEF mine
<1>3. Stamped(mine) /\ Outboxed(mine, Handed')
  BY <1>1 DEF Stamped, Outboxed, SessionsKnown
<1>4. DOMAIN mem' = MemFields /\ mem'.sid = mem.sid
  BY DEF P!KeepFile, MemFields
<1>5. /\ DOMAIN stored' = StoredFields /\ stored'.sid = stored.sid
      /\ stored'.dedup \subseteq stored.dedup
  BY DEF P!KeepFile, P!StillMarked, StoredFields
<1>6. turn' = turn /\ Handed' = Handed
  BY SameHanded DEF P!KeepFile
<1> QED
  BY <1>1, <1>2, <1>3, <1>4, <1>5, <1>6, WorkKeepsPage

LEMMA StoreKeepsPage ==
  ASSUME PageInv, NEW p \in Processors, P!PutOutbox(p) \/ P!PutDedup(p)
  PROVE  PageInv'
<1> USE DEF PageInv, PageShapes
<1> DEFINE mine(pc) == [proc[p] EXCEPT !.pc = pc]
<1>1. \A pc : /\ DOMAIN mine(pc) = ProcFields /\ mine(pc).pc = pc
              /\ mine(pc).sid = proc[p].sid /\ mine(pc).hash = proc[p].hash
  BY DEF ProcFields
<1>2. CASE P!PutOutbox(p)
  <2>1. proc' = [proc EXCEPT ![p] = mine("mark")]
    BY <1>2 DEF P!PutOutbox
  <2> HIDE DEF mine
  <2>2. /\ proc[p].pc = "queue" /\ Handed' = Handed \cup {<<proc[p].sid, proc[p].hash>>}
        /\ UNCHANGED <<mem, stored, turn>>
    BY <1>2 DEF P!PutOutbox, Handed
  <2>3. Stamped(mine("mark")) /\ Outboxed(mine("mark"), Handed')
    BY <1>1, <2>2 DEF Stamped, Outboxed
  <2> QED
    BY <1>1, <2>1, <2>2, <2>3, WorkKeepsPage
<1>3. CASE P!PutDedup(p)
  <2>1. proc' = [proc EXCEPT ![p] = mine("count")]
    BY <1>3 DEF P!PutDedup
  <2> HIDE DEF mine
  <2>2. proc[p].pc = "mark" /\ Handed' = Handed /\ UNCHANGED <<mem, turn>>
    BY <1>3, SameHanded DEF P!PutDedup
  <2>3. Stamped(mine("count")) /\ Outboxed(mine("count"), Handed')
    BY <1>1, <2>2 DEF Stamped, Outboxed
  <2>4. /\ DOMAIN stored' = StoredFields /\ stored'.sid = stored.sid
        /\ stored'.dedup \subseteq stored.dedup \cup {proc[p].hash}
    BY <1>3 DEF P!PutDedup, StoredFields
  <2>5. Queued(proc[p].hash, Handed')
    BY <2>2 DEF Stamped, Outboxed, Queued
  <2> QED
    BY <1>1, <2>1, <2>2, <2>3, <2>4, <2>5, WorkKeepsPage
<1> QED
  BY <1>2, <1>3

LEMMA CountKeepsPage ==
  ASSUME PageInv, NEW p \in Processors, P!CountAndFollow(p)
  PROVE  PageInv'
<1> USE DEF PageInv, PageShapes
<1>1. PICK pushed : /\ mem' = [mem EXCEPT !.bytes = @ + Size[proc[p].hash], !.metaDue = TRUE,
                                          !.queue = pushed]
                    /\ proc' = [proc EXCEPT ![p] = P!NextItem(p, pushed)]
                    /\ Handed' = Handed /\ UNCHANGED <<stored, turn>>
  BY SameHanded DEF P!CountAndFollow, P!queued
<1>2. DOMAIN mem' = MemFields /\ mem'.sid = mem.sid /\ mem'.queue = pushed
  BY <1>1 DEF MemFields
<1> DEFINE after == P!NextItem(p, pushed)
<1>3. /\ DOMAIN after = ProcFields /\ Stamped(after) /\ Outboxed(after, Handed')
      /\ after.pc # "idle" \/ pushed = << >>
  BY NextItemShape DEF Stamped, Outboxed
<1> HIDE DEF after
<1>4. proc' = [proc EXCEPT ![p] = after]
  BY <1>1 DEF after
<1> QED
  BY <1>1, <1>2, <1>3, <1>4, WorkKeepsPage

LEMMA RespawnKeepsPage ==
  ASSUME PageInv, P!Respawn
  PROVE  PageInv'
<1> DEFINE fresh == P!Empty(stored.sid, stored.capturing)
<1>1. DOMAIN fresh = MemFields /\ fresh.sid = stored.sid /\ fresh.queue = << >>
  BY EmptyShape
<1>2. mem' = [fresh EXCEPT !.hashes = stored.dedup, !.files = stored.meta,
                           !.bytes = P!BytesOf(stored.meta)]
  BY DEF P!Respawn
<1> HIDE DEF fresh
<1>3. DOMAIN mem' = MemFields /\ mem'.sid = stored.sid /\ mem'.queue = << >>
  BY <1>1, <1>2 DEF MemFields
<1>4. /\ proc' = [p \in Processors |-> P!IdleProc] /\ turn' = "idle"
      /\ stored' = stored /\ Handed' = Handed
  BY DEF P!Respawn, Handed
<1>5. \A p \in Processors : Stamped(proc'[p]) /\ Outboxed(proc'[p], Handed')
  BY <1>4, IdleProcShape DEF Stamped, Outboxed
<1>6. PageShapes'
  BY <1>3, <1>4, IdleProcShape DEF PageInv, PageShapes
<1>7. SessionsKnown' /\ P!NothingForgotten'
  BY <1>3, <1>4 DEF PageInv, SessionsKnown, P!NothingForgotten
<1> QED
  BY <1>4, <1>5, <1>6, <1>7 DEF PageInv

LEMMA PageInvInit == P!CaptureConstants /\ P!Init => PageInv
<1> SUFFICES ASSUME P!CaptureConstants, P!Init PROVE PageInv
  OBVIOUS
<1>1. DOMAIN mem = MemFields /\ mem.sid = 1 /\ mem.queue = << >>
  BY EmptyShape DEF P!Init
<1>2. DOMAIN stored = StoredFields /\ stored.sid = 1 /\ stored.dedup = {}
  BY DEF P!Init, StoredFields
<1>3. proc = [p \in Processors |-> P!IdleProc] /\ turn = "idle" /\ 1 \in Sessions
  BY DEF P!Init, P!CaptureConstants
<1>4. \A p \in Processors : Stamped(proc[p]) /\ Outboxed(proc[p], Handed)
  BY <1>3, IdleProcShape DEF Stamped, Outboxed
<1>5. PageShapes
  BY <1>1, <1>2, <1>3, IdleProcShape DEF PageShapes
<1>6. SessionsKnown /\ P!NothingForgotten
  BY <1>1, <1>2, <1>3 DEF SessionsKnown, P!NothingForgotten
<1> QED
  BY <1>2, <1>4, <1>5, <1>6 DEF PageInv

LEMMA PageInvNext == P!CaptureConstants /\ PageInv /\ [P!Next]_pageVars => PageInv'
<1> SUFFICES ASSUME P!CaptureConstants, PageInv, [P!Next]_pageVars PROVE PageInv'
  OBVIOUS
<1>1. ASSUME NEW p \in Processors,
             \/ P!TakeBatch(p) \/ (\E hash \in Hashes : P!FetchContent(p, hash))
             \/ P!FetchFails(p) \/ P!SkipSeen(p) \/ P!KeepFile(p)
             \/ P!PutOutbox(p) \/ P!PutDedup(p) \/ P!CountAndFollow(p)
      PROVE  PageInv'
  BY <1>1, TakeBatchKeepsPage, FetchKeepsPage, KeepFileKeepsPage, StoreKeepsPage, CountKeepsPage
<1>2. CASE UNCHANGED pageVars
  BY <1>2, SameHanded, QuietKeepsPage DEF pageVars, PageInv, PageShapes, SessionsKnown
<1> QED
  BY <1>1, <1>2, PageStepKeepsPage, RespawnKeepsPage DEF P!Next

LEMMA PageInductive == P!Init /\ [][P!Next]_pageVars => []PageInv
<1>1. P!CaptureConstants
  BY RecordsAssumption DEF RecordsAssumption
<1> QED
  BY <1>1, PageInvInit, PageInvNext, PTL

LEMMA PageKeeps == PageInv => P!SeenIsKept
  BY DEF PageInv, Queued, Handed, P!SeenIsKept, P!SeenMeansQueued
-----------------------------------------------------------------------------
(* PageObservations: one sync is at work at a time, what it saw is what there
   is, and what the last of them wants is what the settings want: whatever
   changed since waits to be stored or to be synced.                        *)
HookHosts == {{}} \cup {s.hosts : s \in Settings}
Sync == [pc : {"none", "read", "write"}, wants : HookHosts, sees : HookHosts]

Wanted == O!Patterns(settings)
InStep == O!Idle /\ (failed \/ hook = Wanted)
Underway == \E a \in Syncs : sync[a].pc # "none" /\ sync[a].wants = Wanted

HookTypes ==
  /\ settings \in Settings /\ kept \in Settings
  /\ updates \in Seq(Settings)
  /\ hook \in HookHosts /\ waiting \in Nat
  /\ sync \in [Syncs -> Sync]

HookInv ==
  /\ HookTypes
  /\ \A a, b \in Syncs : sync[a].pc # "none" /\ sync[b].pc # "none" => a = b
  /\ \A a \in Syncs : sync[a].pc = "write" => sync[a].sees = hook
  /\ updates = << >> /\ waiting = 0 => InStep \/ Underway

LEMMA PatternsAreHosts ==
  ASSUME NEW s \in Settings
  PROVE  O!Patterns(s) \in HookHosts
  BY DEF O!Patterns, HookHosts

LEMMA NoSyncType == O!NoSync \in Sync /\ O!NoSync.pc = "none"
  BY DEF O!NoSync, Sync, HookHosts

(* A change of the settings is on its way to be stored. *)
LEMMA ChangeKeepsHook ==
  ASSUME HookInv, NEW s \in Settings, settings' = s, updates' = Append(updates, s),
         UNCHANGED <<kept, hook, waiting, sync, failed>>
  PROVE  HookInv'
<1>1. updates' \in Seq(Settings) /\ updates' # << >>
  BY DEF HookInv, HookTypes
<1>2. HookTypes'
  BY <1>1 DEF HookInv, HookTypes
<1> QED
  BY <1>1, <1>2 DEF HookInv

LEMMA StoredKeepsHook ==
  ASSUME HookInv, O!Stored
  PROVE  HookInv'
<1>1. /\ Head(updates) \in Settings /\ Tail(updates) \in Seq(Settings)
      /\ waiting + 1 \in Nat /\ waiting + 1 # 0
  BY DEF HookInv, HookTypes, O!Stored
<1>2. HookTypes'
  BY <1>1 DEF HookInv, HookTypes, O!Stored
<1> QED
  BY <1>1, <1>2 DEF HookInv, O!Stored

LEMMA StartSyncKeepsHook ==
  ASSUME HookInv, NEW a \in Syncs, O!StartSync(a)
  PROVE  HookInv'
<1> DEFINE mine == [pc |-> "read", wants |-> Wanted, sees |-> {}]
<1>1. mine \in Sync /\ mine.pc = "read" /\ mine.wants = Wanted
  BY PatternsAreHosts DEF HookInv, HookTypes, Wanted, Sync, HookHosts
<1>2. sync' = [sync EXCEPT ![a] = mine]
  BY DEF O!StartSync, Wanted
<1> HIDE DEF mine
<1>3. /\ O!Idle /\ waiting > 0 /\ waiting' = waiting - 1
      /\ UNCHANGED <<settings, kept, updates, hook, failed>>
  BY DEF O!StartSync, O!MyTurn
<1>4. sync'[a] = mine /\ \A b \in Syncs : b # a => sync'[b].pc = "none"
  BY <1>2, <1>3 DEF HookInv, HookTypes, O!Idle
<1>5. HookTypes'
  BY <1>1, <1>2, <1>3 DEF HookInv, HookTypes
<1>6. Wanted' = Wanted
  BY <1>3 DEF Wanted, O!Patterns
<1>7. Underway'
  BY <1>1, <1>4, <1>6 DEF Underway
<1> QED
  BY <1>1, <1>4, <1>5, <1>7 DEF HookInv

LEMMA ReadHookKeepsHook ==
  ASSUME HookInv, NEW a \in Syncs, O!ReadHook(a)
  PROVE  HookInv'
<1>1. /\ sync[a].pc = "read" /\ sync[a] \in Sync /\ hook \in HookHosts
      /\ UNCHANGED <<settings, kept, updates, hook, waiting>>
  BY DEF O!ReadHook, HookInv, HookTypes
<1>2. Wanted' = Wanted
  BY <1>1 DEF Wanted, O!Patterns
<1>3. CASE hook = sync[a].wants
  <2>1. sync' = [sync EXCEPT ![a] = O!NoSync]
    BY <1>3 DEF O!ReadHook
  <2>2. HookTypes'
    BY <1>1, <2>1, NoSyncType DEF HookInv, HookTypes
  <2>3. O!Idle'
    BY <1>1, <2>1, NoSyncType DEF HookInv, HookTypes, O!Idle
  <2>4. updates = << >> /\ waiting = 0 => hook = Wanted
    BY <1>1, <1>3 DEF HookInv, InStep, Underway, O!Idle
  <2> QED
    BY <1>1, <1>2, <2>2, <2>3, <2>4 DEF HookInv, InStep, O!Idle
<1>4. CASE hook # sync[a].wants
  <2> DEFINE mine == [sync[a] EXCEPT !.pc = "write", !.sees = hook]
  <2>1. /\ mine \in Sync /\ mine.pc = "write" /\ mine.wants = sync[a].wants
        /\ mine.sees = hook
    BY <1>1 DEF Sync
  <2>2. sync' = [sync EXCEPT ![a] = mine]
    BY <1>4 DEF O!ReadHook
  <2> HIDE DEF mine
  <2>3. sync'[a] = mine /\ \A b \in Syncs : b # a => sync'[b] = sync[b]
    BY <2>2 DEF HookInv, HookTypes
  <2>4. HookTypes'
    BY <1>1, <2>1, <2>2 DEF HookInv, HookTypes
  <2>5. updates = << >> /\ waiting = 0 => Underway
    BY <1>1 DEF HookInv, InStep, O!Idle
  <2>6. Underway => Underway'
    BY <1>1, <1>2, <2>1, <2>3 DEF HookInv, Underway
  <2> QED
    BY <1>1, <2>1, <2>3, <2>4, <2>5, <2>6 DEF HookInv
<1> QED
  BY <1>3, <1>4

(* A sync that is over, by its write or by the browser's refusal. *)
LEMMA EndSyncKeepsHook ==
  ASSUME HookInv, NEW a \in Syncs, sync[a].pc # "none",
         sync' = [sync EXCEPT ![a] = O!NoSync],
         hook' \in HookHosts, failed' \/ hook' = sync[a].wants,
         UNCHANGED <<settings, kept, updates, waiting>>
  PROVE  HookInv'
<1>1. HookTypes'
  BY NoSyncType DEF HookInv, HookTypes
<1>2. O!Idle'
  BY NoSyncType DEF HookInv, HookTypes, O!Idle
<1>3. Wanted' = Wanted
  BY DEF Wanted, O!Patterns
<1>4. updates = << >> /\ waiting = 0 => sync[a].wants = Wanted
  BY DEF HookInv, InStep, Underway, O!Idle
<1> QED
  BY <1>1, <1>2, <1>3, <1>4 DEF HookInv, InStep, O!Idle

LEMMA RespawnKeepsHook ==
  ASSUME HookInv, O!Respawn
  PROVE  HookInv'
<1>1. HookTypes' /\ waiting' # 0
  BY NoSyncType DEF HookInv, HookTypes, O!Respawn
<1>2. \A a \in Syncs : sync'[a].pc = "none"
  BY NoSyncType DEF O!Respawn
<1> QED
  BY <1>1, <1>2 DEF HookInv

LEMMA HookInvInit == O!Init => HookInv
<1> SUFFICES ASSUME O!Init PROVE HookInv
  OBVIOUS
<1>1. HookTypes /\ waiting # 0
  BY NoSyncType DEF O!Init, HookTypes, HookHosts
<1>2. \A a \in Syncs : sync[a].pc = "none"
  BY NoSyncType DEF O!Init
<1> QED
  BY <1>1, <1>2 DEF HookInv

LEMMA HookInvNext == HookInv /\ [O!Next]_observationsVars => HookInv'
<1> SUFFICES ASSUME HookInv, [O!Next]_observationsVars PROVE HookInv'
  OBVIOUS
<1>1. ASSUME NEW s \in Settings, O!UpdateSettings(s) \/ O!NewSession(s) PROVE HookInv'
  BY <1>1, ChangeKeepsHook DEF O!UpdateSettings, O!NewSession, O!hookVars
<1>2. ASSUME NEW a \in Syncs, O!StartSync(a) \/ O!ReadHook(a) PROVE HookInv'
  BY <1>2, StartSyncKeepsHook, ReadHookKeepsHook
<1>3. ASSUME NEW a \in Syncs, O!WriteHook(a) PROVE HookInv'
  <2>1. sync[a].sees = hook /\ sync[a].wants \in HookHosts
    BY <1>3 DEF HookInv, HookTypes, Sync, O!WriteHook
  <2>2. hook' = sync[a].wants
    BY <1>3, <2>1 DEF O!WriteHook
  <2> QED
    BY <1>3, <2>1, <2>2, EndSyncKeepsHook DEF O!WriteHook
<1>4. ASSUME NEW a \in Syncs, O!SyncFails(a) PROVE HookInv'
  <2>1. hook' \in HookHosts
    BY <1>4 DEF HookInv, HookTypes, O!SyncFails
  <2> QED
    BY <1>4, <2>1, EndSyncKeepsHook DEF O!SyncFails
<1>5. CASE O!Stored \/ O!Respawn
  BY <1>5, StoredKeepsHook, RespawnKeepsHook
<1>6. ASSUME UNCHANGED <<settings, kept, updates, hook, waiting, sync, failed>> PROVE HookInv'
  BY <1>6 DEF HookInv, HookTypes, InStep, Underway, Wanted, O!Idle, O!Patterns
<1>7. ASSUME NEW r \in Requests,
             O!SendRequest(r) \/ O!RecordObservation(r) \/ O!HandleResponseBody(r)
      PROVE  HookInv'
  BY <1>6, <1>7 DEF O!SendRequest, O!RecordObservation, O!HandleResponseBody, O!hookVars
<1>8. CASE O!StopCapture \/ O!Save \/ UNCHANGED observationsVars
  BY <1>6, <1>8 DEF O!StopCapture, O!Save, observationsVars, O!hookVars
<1> QED
  BY <1>1, <1>2, <1>3, <1>4, <1>5, <1>7, <1>8 DEF O!Next

LEMMA HookInductive == O!Init /\ [][O!Next]_observationsVars => []HookInv
  BY HookInvInit, HookInvNext, PTL

LEMMA HookFollows == HookInv => O!HookFollowsScope
  BY DEF HookInv, InStep, Underway, O!Idle, O!HookFollowsScope, Wanted
-----------------------------------------------------------------------------
(* SecretReveal: a sighting that has a place is found again at that place of
   the text that was scanned, however that text was decoded.                *)

(* What a recursive function over a sequence needs is proved of each of its
   prefixes, for the least that lacked it would have what the one before has. *)
LEMMA LeastPrefix ==
  ASSUME NEW n \in Nat, NEW Bad \in SUBSET (1 .. n), Bad # {}
  PROVE  \E m \in Bad : m = 1 \/ (m > 1 /\ m - 1 \in (1 .. n) \ Bad)
<1>1. Bad \subseteq Nat
  OBVIOUS
<1>2. PICK m \in Bad : \A k \in Bad : ~(<<k, m>> \in OpToRel(<, Nat))
  BY <1>1, WFMin, NatLessThanWellFounded, Zenon
<1>3. \A k \in Bad : ~(k < m)
  BY <1>1, <1>2 DEF OpToRel
<1>4. m \in 1 .. n /\ (m # 1 => m - 1 \in 1 .. n /\ m > 1)
  OBVIOUS
<1>5. m # 1 => m - 1 \notin Bad
  BY <1>3, <1>4
<1> QED
  BY <1>4, <1>5

Flattening(seqs, n, f) ==
  \A i \in 1 .. n : f[i] = IF i = 1 THEN seqs[i] ELSE f[i - 1] \o seqs[i]

LEMMA FlattensPrefixes ==
  ASSUME NEW S, NEW seqs \in Seq(Seq(S))
  PROVE  \A n \in 1 .. Len(seqs) : \E f \in [1 .. n -> Seq(S)] : Flattening(seqs, n, f)
<1> DEFINE Bad == {n \in 1 .. Len(seqs) : ~\E f \in [1 .. n -> Seq(S)] : Flattening(seqs, n, f)}
<1> SUFFICES ASSUME Bad # {} PROVE FALSE
  OBVIOUS
<1>0. Bad \in SUBSET (1 .. Len(seqs)) /\ Len(seqs) \in Nat
  OBVIOUS
<1>5. \A n \in 1 .. Len(seqs) :
        n \in Bad <=> ~\E f \in [1 .. n -> Seq(S)] : Flattening(seqs, n, f)
  OBVIOUS
<1> HIDE DEF Bad
<1>1. PICK m \in Bad : m = 1 \/ (m > 1 /\ m - 1 \in (1 .. Len(seqs)) \ Bad)
  BY <1>0, LeastPrefix
<1>2. m \in 1 .. Len(seqs) /\ seqs[m] \in Seq(S)
  BY <1>0
<1>3. CASE m = 1
  <2> DEFINE f == [i \in 1 .. 1 |-> seqs[1]]
  <2>1. f \in [1 .. m -> Seq(S)] /\ Flattening(seqs, m, f)
    BY <1>2, <1>3 DEF Flattening
  <2> QED
    BY <1>2, <1>5, <2>1
<1>4. CASE m > 1 /\ m - 1 \in (1 .. Len(seqs)) \ Bad
  <2>1. PICK g \in [1 .. m - 1 -> Seq(S)] : Flattening(seqs, m - 1, g)
    BY <1>4, <1>5
  <2> DEFINE f == [i \in 1 .. m |-> IF i = m THEN g[m - 1] \o seqs[m] ELSE g[i]]
  <2>2. g[m - 1] \o seqs[m] \in Seq(S)
    BY <1>2, <1>4
  <2>3. f \in [1 .. m -> Seq(S)]
    BY <1>2, <1>4, <2>2
  <2>4. \A i \in 1 .. m : i # m => f[i] = g[i] /\ (i > 1 => f[i - 1] = g[i - 1])
    BY <1>2
  <2>5. f[m] = f[m - 1] \o seqs[m]
    <3>1. m - 1 \in 1 .. m /\ m - 1 # m /\ m \in 1 .. m
      BY <1>2, <1>4
    <3> QED
      BY <3>1
  <2> HIDE DEF f
  <2>6. Flattening(seqs, m, f)
    <3> SUFFICES ASSUME NEW i \in 1 .. m
                 PROVE  f[i] = IF i = 1 THEN seqs[i] ELSE f[i - 1] \o seqs[i]
      BY DEF Flattening
    <3>1. CASE i = m
      <4>1. f[i] = f[i - 1] \o seqs[i]
        BY <2>5, <3>1
      <4>2. i # 1
        BY <1>2, <1>4, <3>1
      <4> QED
        BY <4>1, <4>2
    <3>2. CASE i # m
      <4>1. i \in 1 .. m - 1
        BY <1>2, <3>2
      <4>2. g[i] = IF i = 1 THEN seqs[i] ELSE g[i - 1] \o seqs[i]
        BY <2>1, <4>1 DEF Flattening
      <4>3. f[i] = g[i] /\ (i # 1 => f[i - 1] = g[i - 1])
        BY <2>4, <3>2, <4>1, <1>2
      <4> QED
        BY <4>2, <4>3
    <3> QED
      BY <3>1, <3>2
  <2> QED
    BY <1>2, <1>5, <2>3, <2>6
<1> QED
  BY <1>1, <1>3, <1>4

(* Sequences put one after the other are a sequence. *)
LEMMA FlattenIsSeq ==
  ASSUME NEW S, NEW seqs \in Seq(Seq(S))
  PROVE  R!FlattenSeq(seqs) \in Seq(S)
<1>1. CASE Len(seqs) = 0
  <2>1. seqs = << >>
    BY <1>1
  <2> QED
    BY <1>1, <2>1 DEF R!FlattenSeq
<1>2. CASE Len(seqs) # 0
  <2> DEFINE n == Len(seqs)
             Step(f) == [i \in 1 .. n |-> IF i = 1 THEN seqs[i] ELSE f[i - 1] \o seqs[i]]
             flatten == CHOOSE f : f = Step(f)
  <2>0. n \in Nat /\ n \in 1 .. n
    BY <1>2
  <2>1. PICK g \in [1 .. n -> Seq(S)] : Flattening(seqs, n, g)
    BY <2>0, FlattensPrefixes
  <2>2. g = Step(g)
    BY <2>1 DEF Flattening
  <2>3. flatten = Step(flatten)
    BY <2>2
  <2>4. R!FlattenSeq(seqs) = flatten[n]
    BY <1>2 DEF R!FlattenSeq
  <2> HIDE DEF flatten
  <2>5. \A i \in 1 .. n : flatten[i] = IF i = 1 THEN seqs[i] ELSE flatten[i - 1] \o seqs[i]
    BY <2>3
  <2> DEFINE Bad == {i \in 1 .. n : flatten[i] \notin Seq(S)}
  <2>6. Bad = {}
    <3> SUFFICES ASSUME Bad # {} PROVE FALSE
      OBVIOUS
    <3>1. PICK m \in Bad : m = 1 \/ (m > 1 /\ m - 1 \in (1 .. n) \ Bad)
      BY <2>0, LeastPrefix
    <3>2. m \in 1 .. n /\ seqs[m] \in Seq(S)
      OBVIOUS
    <3>3. CASE m = 1
      BY <2>5, <3>2, <3>3
    <3>4. CASE m > 1 /\ m - 1 \in (1 .. n) \ Bad
      <4>1. flatten[m - 1] \in Seq(S) /\ flatten[m] = flatten[m - 1] \o seqs[m]
        BY <2>5, <3>2, <3>4
      <4>2. flatten[m] \in Seq(S)
        BY <3>2, <4>1
      <4> QED
        BY <4>2
    <3> QED
      BY <3>1, <3>3, <3>4
  <2> QED
    BY <2>0, <2>4, <2>6
<1> QED
  BY <1>1, <1>2

Bytes == R!Characters \cup {"r1", "r2", "r3", "newline"}

LEMMA DecodedIsSeq ==
  ASSUME NEW raw \in Seq(R!Characters)
  PROVE  R!Decoded(raw) \in Seq(Bytes)
<1> DEFINE seqs == [i \in DOMAIN raw |-> IF raw[i] = "bad" THEN <<"r1", "r2", "r3">> ELSE <<raw[i]>>]
<1>1. \A i \in 1 .. Len(raw) : raw[i] \in Bytes
  BY DEF Bytes
<1>2. <<"r1", "r2", "r3">> \in Seq(Bytes)
  BY DEF Bytes
<1> HIDE DEF Bytes
<1>3. \A i \in 1 .. Len(raw) : seqs[i] \in Seq(Bytes)
  BY <1>1, <1>2
<1>4. seqs \in [1 .. Len(raw) -> Seq(Bytes)]
  <2>1. DOMAIN seqs = 1 .. Len(raw)
    OBVIOUS
  <2> HIDE DEF seqs
  <2>2. seqs = [i \in 1 .. Len(raw) |-> seqs[i]]
    BY <2>1 DEF seqs
  <2> QED
    BY <1>3, <2>2
<1>5. seqs \in Seq(Seq(Bytes))
  BY <1>4, IsASeq
<1> QED
  BY <1>5, FlattenIsSeq DEF R!Decoded

LEMMA BeautifiedIsSeq ==
  ASSUME NEW text \in Seq(Bytes)
  PROVE  R!Beautified(text) \in Seq(Bytes)
<1> DEFINE seqs == [i \in DOMAIN text |-> IF text[i] = ";" THEN <<";", "newline">> ELSE <<text[i]>>]
<1>1. ";" \in Bytes /\ "newline" \in Bytes
  BY DEF Bytes, R!Characters
<1>2. \A x, y \in Bytes : <<x, y>> \in Seq(Bytes) /\ <<x>> \in Seq(Bytes)
  OBVIOUS
<1>3. \A i \in 1 .. Len(text) : text[i] \in Bytes
  OBVIOUS
<1> DEFINE of(c) == IF c = ";" THEN <<";", "newline">> ELSE <<c>>
<1>4. \A c \in Bytes : of(c) \in Seq(Bytes)
  BY <1>1, <1>2
<1>5. seqs = [i \in 1 .. Len(text) |-> of(text[i])]
  OBVIOUS
<1> HIDE DEF of
<1>6. seqs \in [1 .. Len(text) -> Seq(Bytes)]
  BY <1>3, <1>4, <1>5
<1> HIDE DEF seqs
<1>7. seqs \in Seq(Seq(Bytes))
  BY <1>6, IsASeq
<1>8. R!FlattenSeq(seqs) \in Seq(Bytes)
  BY <1>7, FlattenIsSeq
<1> QED
  BY <1>8 DEF seqs, R!Beautified

FoundIn(r, text) ==
  r.start > 0 =>
    /\ r.start + r.size - 1 <= Len(text)
    /\ R!SecretValue(SubSeq(text, r.start, r.start + r.size - 1)) = r.value

ScannedIn(r, text, asset, path) ==
  r.asset = asset /\ r.path = path /\ FoundIn(r, text)

(* What a scan records with a place is there, in the text it scanned. *)
LEMMA RecordedIsFound ==
  ASSUME NEW text \in Seq(Bytes), NEW asset, NEW path,
         NEW r \in R!RecordSecrets(text, asset, path)
  PROVE  ScannedIn(r, text, asset, path) /\ r.start \in Nat
<1>1. PICK p \in R!Sightings(text) : r = R!Sighting(text, p, asset, path)
  BY DEF R!RecordSecrets
<1>0. PICK start \in {0} \cup R!Copies(text, R!Snippet(text, p)) :
        r = [asset |-> asset, path |-> path, line |-> p,
             value |-> R!SecretValue(R!Snippet(text, p)),
             start |-> start, size |-> Len(R!Snippet(text, p))]
  BY <1>1 DEF R!Sighting, R!Place
<1> DEFINE snippet == R!Snippet(text, p)
<1>2. Len(snippet) \in {1, 2}
  BY DEF R!Snippet
<1>3. Len(text) \in Nat
  OBVIOUS
<1> HIDE DEF snippet
<1>4. /\ r.asset = asset /\ r.path = path /\ r.start = start
      /\ r.size = Len(snippet) /\ r.value = R!SecretValue(snippet)
  BY <1>0 DEF snippet
<1>5. CASE start = 0
  BY <1>4, <1>5 DEF ScannedIn, FoundIn
<1>6. CASE start \in R!Copies(text, snippet)
  <2>1. /\ start \in 1 .. Len(text) - Len(snippet) + 1
        /\ SubSeq(text, start, start + Len(snippet) - 1) = snippet
    BY <1>6 DEF R!Copies
  <2>2. start \in Nat /\ start + Len(snippet) - 1 <= Len(text)
    BY <1>2, <1>3, <2>1
  <2> QED
    BY <1>4, <2>1, <2>2 DEF ScannedIn, FoundIn
<1> QED
  BY <1>0, <1>5, <1>6 DEF snippet

(* The two texts of an asset that a reveal may read, or a scan have read. *)
CodeOf(a) == R!Decoded(assets[a].code)
OriginalOf(a, f) == R!Beautified(R!Decoded(assets[a].files[f]))

Traced(r) ==
  /\ r.asset \in DOMAIN assets /\ r.start \in Nat
  /\ \/ r.path = "input.js" /\ FoundIn(r, CodeOf(r.asset))
     \/ r.path \in DOMAIN assets[r.asset].files /\ FoundIn(r, OriginalOf(r.asset, r.path))

(* A text is scanned as a whole: with a sighting, all of its text are recorded. *)
WholeScan(r, recorded) ==
  \E text \in R!TextsOf(r) :
    /\ r \in R!RecordSecrets(text, r.asset, r.path)
    /\ R!RecordSecrets(text, r.asset, r.path) \subseteq recorded

CallOK ==
  /\ "stage" \in DOMAIN call
  /\ call.stage = "derive" => call.row \in sightings /\ call.row.start > 0
  /\ R!FoundIsRevealed

RevealInv ==
  /\ assets \in Revealed
  /\ mishaps \in Nat /\ (gone # {} => mishaps > 0)
  /\ \A r \in sightings : Traced(r) /\ WholeScan(r, sightings)
  /\ CallOK

LEMMA TextsAreSeqs ==
  ASSUME R!RevealConstants, assets \in Revealed, NEW a \in DOMAIN assets
  PROVE  /\ CodeOf(a) \in Seq(Bytes)
         /\ \A f \in DOMAIN assets[a].files : OriginalOf(a, f) \in Seq(Bytes)
<1>1. /\ assets[a].code \in Seq(R!Characters)
      /\ \A f \in DOMAIN assets[a].files : assets[a].files[f] \in Seq(R!Characters)
  BY DEF R!RevealConstants
<1> QED
  BY <1>1, DecodedIsSeq, BeautifiedIsSeq DEF CodeOf, OriginalOf

(* What a reveal cuts is the secret, where the text it reads is the one that
   was scanned; where it is not, the original is one that no stored map holds
   or that has the name of the code.                                        *)
LEMMA CutIsTheSecret ==
  ASSUME R!RevealConstants, assets \in Revealed, NEW r, Traced(r), r.start > 0,
         ~R!SameSecret(r)
  PROVE  /\ r.path \in DOMAIN assets[r.asset].files
         /\ assets[r.asset].map = "inline" \/ r.path = "input.js"
<1> DEFINE read == R!ByteSpace(r)
<1>1. r.asset \in DOMAIN assets
  BY DEF Traced
<1>2. ~FoundIn(r, read)
  <2> HIDE DEF read
  <2> SUFFICES ASSUME FoundIn(r, read) PROVE FALSE
    OBVIOUS
  <2>1. R!Sliced(r) = SubSeq(read, r.start, r.start + r.size - 1)
    BY DEF FoundIn, R!Sliced, read
  <2> QED
    BY <2>1 DEF FoundIn, R!SameSecret
<1>3. CASE r.path = "input.js"
  <2>1. read = CodeOf(r.asset)
    BY <1>3 DEF R!ByteSpace, R!IsRecovered, CodeOf
  <2> QED
    BY <1>2, <1>3, <2>1 DEF Traced
<1>4. CASE r.path # "input.js"
  <2>1. r.path \in DOMAIN assets[r.asset].files /\ FoundIn(r, OriginalOf(r.asset, r.path))
    BY <1>4 DEF Traced
  <2>2. assets[r.asset].map # "stored"
    <3> SUFFICES ASSUME assets[r.asset].map = "stored" PROVE FALSE
      OBVIOUS
    <3>1. read = OriginalOf(r.asset, r.path)
      BY <1>4 DEF R!ByteSpace, R!IsRecovered, OriginalOf
    <3> QED
      BY <1>2, <2>1, <3>1
  <2>3. /\ assets[r.asset].map \in {"none", "inline", "stored"}
        /\ assets[r.asset].map = "none" => DOMAIN assets[r.asset].files = {}
    BY <1>1 DEF R!RevealConstants
  <2> QED
    BY <2>1, <2>2, <2>3
<1> QED
  BY <1>3, <1>4

LEMMA AnalyzeKeepsReveal ==
  ASSUME R!RevealConstants, RevealInv, NEW a \in DOMAIN assets, R!Analyze(a)
  PROVE  RevealInv'
<1>1. UNCHANGED <<assets, gone, call, mishaps>> /\ sightings \subseteq sightings'
  BY DEF R!Analyze
<1>2. ASSUME NEW r \in sightings' PROVE Traced(r)
  <2>1. \/ r \in sightings
        \/ r \in R!RecordSecrets(CodeOf(a), a, "input.js")
        \/ \E f \in DOMAIN assets[a].files : r \in R!RecordSecrets(OriginalOf(a, f), a, f)
    BY DEF R!Analyze, CodeOf, OriginalOf
  <2>2. CASE r \in R!RecordSecrets(CodeOf(a), a, "input.js")
    BY <2>2, RecordedIsFound, TextsAreSeqs DEF RevealInv, Traced, ScannedIn
  <2>3. ASSUME NEW f \in DOMAIN assets[a].files, r \in R!RecordSecrets(OriginalOf(a, f), a, f)
        PROVE  Traced(r)
    BY <2>3, RecordedIsFound, TextsAreSeqs DEF RevealInv, Traced, ScannedIn
  <2> QED
    BY <2>1, <2>2, <2>3 DEF RevealInv
<1>3. \A r \in sightings' : Traced(r)'
  BY <1>1, <1>2 DEF Traced, CodeOf, OriginalOf
<1>4. CallOK'
  BY <1>1 DEF RevealInv, CallOK, R!FoundIsRevealed, R!Unplaceable, R!TextsOf
<1>5. ASSUME NEW r \in sightings' PROVE WholeScan(r, sightings')
  <2>1. /\ R!RecordSecrets(CodeOf(a), a, "input.js") \subseteq sightings'
        /\ \A f \in DOMAIN assets[a].files : R!RecordSecrets(OriginalOf(a, f), a, f) \subseteq sightings'
    BY DEF R!Analyze, CodeOf, OriginalOf
  <2>2. \/ r \in sightings
        \/ r \in R!RecordSecrets(CodeOf(a), a, "input.js")
        \/ \E f \in DOMAIN assets[a].files : r \in R!RecordSecrets(OriginalOf(a, f), a, f)
    BY DEF R!Analyze, CodeOf, OriginalOf
  <2>3. CASE r \in sightings
    BY <1>1, <2>3 DEF RevealInv, WholeScan
  <2>4. CASE r \in R!RecordSecrets(CodeOf(a), a, "input.js")
    <3>1. r.asset = a /\ r.path = "input.js"
      BY <2>4, RecordedIsFound, TextsAreSeqs DEF RevealInv, ScannedIn
    <3>2. CodeOf(a) \in R!TextsOf(r)
      BY <3>1 DEF R!TextsOf, CodeOf
    <3> QED
      BY <2>1, <2>4, <3>1, <3>2 DEF WholeScan
  <2>5. ASSUME NEW f \in DOMAIN assets[a].files, r \in R!RecordSecrets(OriginalOf(a, f), a, f)
        PROVE  WholeScan(r, sightings')
    <3>1. r.asset = a /\ r.path = f
      BY <2>5, RecordedIsFound, TextsAreSeqs DEF RevealInv, ScannedIn
    <3>2. OriginalOf(a, f) \in R!TextsOf(r)
      BY <3>1 DEF R!TextsOf, OriginalOf
    <3> QED
      BY <2>1, <2>5, <3>1, <3>2 DEF WholeScan
  <2> QED
    BY <2>2, <2>3, <2>4, <2>5
<1>6. \A r \in sightings' : WholeScan(r, sightings)'
  BY <1>1, <1>5 DEF WholeScan, R!TextsOf
<1> QED
  BY <1>1, <1>3, <1>4, <1>6 DEF RevealInv

(* Any other step leaves what was recorded as it is. *)
LEMMA RestKeepsReveal ==
  ASSUME RevealInv, UNCHANGED <<assets, sightings>>,
         mishaps' \in Nat, mishaps <= mishaps', gone' # {} => gone # {} \/ mishaps' > 0,
         CallOK'
  PROVE  RevealInv'
<1>1. \A r \in sightings : Traced(r)'
  BY DEF RevealInv, Traced, CodeOf, OriginalOf
<1>2. \A r \in sightings : WholeScan(r, sightings)'
  BY DEF RevealInv, WholeScan, R!TextsOf
<1> QED
  BY <1>1, <1>2 DEF RevealInv

LEMMA LeastOf ==
  ASSUME NEW Some \in SUBSET Nat, Some # {}
  PROVE  \E m \in Some : \A k \in Some : m <= k
<1>1. PICK m \in Some : \A k \in Some : ~(<<k, m>> \in OpToRel(<, Nat))
  BY WFMin, NatLessThanWellFounded, Zenon
<1>2. \A k \in Some : ~(k < m)
  BY <1>1 DEF OpToRel
<1>3. \A k \in Some : k \in Nat
  OBVIOUS
<1> QED
  BY <1>2, <1>3

LEMMA ShortCuts ==
  ASSUME NEW text \in Seq(Bytes), NEW p \in 1 .. Len(text)
  PROVE  /\ SubSeq(text, p, p) = <<text[p]>>
         /\ p > 1 => SubSeq(text, p - 1, p) = <<text[p - 1], text[p]>>
<1>1. Len(text) \in Nat
  OBVIOUS
<1>2. SubSeq(text, p, p) = <<text[p]>>
  <2>1. SubSeq(text, p, p) = [i \in 1 .. 1 |-> text[p]]
    BY <1>1
  <2> QED
    BY <2>1
<1>3. ASSUME p > 1 PROVE SubSeq(text, p - 1, p) = <<text[p - 1], text[p]>>
  <2>1. SubSeq(text, p - 1, p) = [i \in 1 .. 2 |-> IF i = 1 THEN text[p - 1] ELSE text[p]]
    BY <1>1, <1>3
  <2>2. \A x, y : [i \in 1 .. 2 |-> IF i = 1 THEN x ELSE y] = <<x, y>>
    OBVIOUS
  <2> QED
    BY <2>1, <2>2
<1> QED
  BY <1>2, <1>3

LEMMA RevealCounts == \A S : R!Cardinality(S) = Cardinality(S)
BY DEF R!Cardinality, Cardinality

PlacedIn(text, asset, path, value) ==
  \E r \in R!RecordSecrets(text, asset, path) : r.value = value /\ r.path = path /\ r.start > 0

(* The first sighting of a snippet the text holds is placed at its first copy. *)
LEMMA FirstIsPlaced ==
  ASSUME NEW text \in Seq(Bytes), NEW asset, NEW path,
         NEW p \in R!Sightings(text), R!Copies(text, R!Snippet(text, p)) # {}
  PROVE  PlacedIn(text, asset, path, R!SecretValue(R!Snippet(text, p)))
<1> DEFINE snippet == R!Snippet(text, p)
           same == {q \in R!Sightings(text) : R!Snippet(text, q) = snippet}
           copies == R!Copies(text, snippet)
<1>1. same \subseteq Nat /\ p \in same
  BY DEF R!Sightings
<1>2. copies \subseteq Nat \ {0} /\ copies # {}
  <2> DEFINE from == Len(text) - Len(snippet) + 1
  <2>1. copies \subseteq 1 .. from
    BY DEF R!Copies
  <2>2. Len(snippet) \in {1, 2}
    BY DEF R!Snippet
  <2>3. from \in Int
    BY <2>2
  <2> HIDE DEF from
  <2> QED
    BY <2>1, <2>3
<1>3. PICK q \in same : \A x \in same : q <= x
  <2> HIDE DEF same
  <2> QED
    BY <1>1, LeastOf
<1>4. PICK s \in copies : \A x \in copies : s <= x
  <2> HIDE DEF copies
  <2>1. copies \in SUBSET Nat
    BY <1>2
  <2> QED
    BY <1>2, <2>1, LeastOf
<1>5. q \in R!Sightings(text) /\ R!Snippet(text, q) = snippet /\ q \in Nat
  BY <1>1
<1>6. {x \in R!Sightings(text) : x <= q /\ R!Snippet(text, x) = R!Snippet(text, q)} = {q}
  <2>1. \A x \in R!Sightings(text) : R!Snippet(text, x) = snippet => q <= x /\ x \in Nat
    BY <1>1, <1>3
  <2> HIDE DEF snippet
  <2>2. \A x \in R!Sightings(text) : x <= q /\ R!Snippet(text, x) = snippet => x = q
    BY <1>5, <2>1
  <2>3. q <= q
    BY <1>5
  <2> QED
    BY <1>5, <2>2, <2>3
<1>7. {x \in copies : x <= s} = {s}
  <2> HIDE DEF copies
  <2>1. \A x \in copies : x \in Nat /\ s <= x
    BY <1>2, <1>4
  <2>2. s \in Nat /\ \A x \in copies : x <= s => x = s
    BY <1>4, <2>1
  <2>3. s <= s
    BY <2>2
  <2> QED
    BY <1>4, <2>2, <2>3
<1> HIDE DEF same
<1>8. s \in R!Place(text, q) /\ R!Place(text, q) \subseteq copies
  <2>1. Cardinality({q}) = 1 /\ Cardinality({s}) = 1
    BY FS_Singleton
  <2>2. R!Nth(text, q) = 1
    BY <1>6, <2>1, RevealCounts, Zenon DEF R!Nth
  <2>3. R!Place(text, q) = {c \in copies : 1 = Cardinality({x \in copies : x <= c})}
    <3>1. /\ R!Copies(text, R!Snippet(text, q)) = copies
          /\ R!Place(text, q) = {c \in R!Copies(text, R!Snippet(text, q)) :
                R!Nth(text, q) = R!Cardinality({x \in R!Copies(text, R!Snippet(text, q)) : x <= c})}
      BY <1>5, Zenon DEF R!Place
    <3> HIDE DEF copies
    <3>2. R!Place(text, q) = {c \in copies : 1 = R!Cardinality({x \in copies : x <= c})}
      BY <2>2, <3>1
    <3> QED
      BY <3>2, RevealCounts
  <2> HIDE DEF copies
  <2> QED
    BY <1>4, <1>7, <2>1, <2>3
<1> HIDE DEF copies, snippet
<1>9. (CHOOSE c \in R!Place(text, q) : TRUE) \in Nat \ {0}
  BY <1>2, <1>8
<1> DEFINE sight == R!Sighting(text, q, asset, path)
<1>10. /\ sight.start = CHOOSE c \in R!Place(text, q) : TRUE
       /\ sight.value = R!SecretValue(snippet) /\ sight.path = path
  BY <1>5, <1>8 DEF R!Sighting
<1>11. sight \in R!RecordSecrets(text, asset, path)
  BY <1>5 DEF R!RecordSecrets
<1> HIDE DEF sight
<1>12. sight.start > 0
  BY <1>9, <1>10
<1> QED
  BY <1>10, <1>11, <1>12 DEF snippet, PlacedIn

(* So a finding none of whose sightings has a place is one no text holds. *)
LEMMA NoPlaceNoCopy ==
  ASSUME R!RevealConstants, RevealInv, NEW finding, R!Located(finding) = {},
         NEW r \in sightings, <<r.value, r.path>> = finding
  PROVE  R!Unplaceable(r)
<1>1. PICK text \in R!TextsOf(r) :
        /\ r \in R!RecordSecrets(text, r.asset, r.path)
        /\ R!RecordSecrets(text, r.asset, r.path) \subseteq sightings
  BY DEF RevealInv, WholeScan
<1>2. text \in Seq(Bytes)
  <2>1. r.asset \in DOMAIN assets /\ assets \in Revealed
    BY DEF RevealInv, Traced
  <2>2. text = CodeOf(r.asset) \/ (r.path \in DOMAIN assets[r.asset].files /\ text = OriginalOf(r.asset, r.path))
    BY DEF R!TextsOf, CodeOf, OriginalOf
  <2> QED
    BY <2>1, <2>2, TextsAreSeqs
<1>0. PICK p \in R!Sightings(text) : r = R!Sighting(text, p, r.asset, r.path)
  BY <1>1 DEF R!RecordSecrets
<1>3. /\ p \in DOMAIN text /\ text[p] \in {"key", "encoded"}
      /\ r.line = p /\ r.value = R!SecretValue(R!Snippet(text, p))
  <2>1. r.line = p /\ r.value = R!SecretValue(R!Snippet(text, p))
    BY <1>0 DEF R!Sighting
  <2> QED
    BY <2>1 DEF R!Sightings
<1>4. R!Copies(text, R!Snippet(text, p)) = {}
  <2> SUFFICES ASSUME R!Copies(text, R!Snippet(text, p)) # {} PROVE FALSE
    OBVIOUS
  <2>1. PlacedIn(text, r.asset, r.path, R!SecretValue(R!Snippet(text, p)))
    BY <1>0, <1>2, FirstIsPlaced, Zenon
  <2>2. PICK q \in R!RecordSecrets(text, r.asset, r.path) : q.value = r.value /\ q.path = r.path /\ q.start > 0
    BY <1>3, <2>1 DEF PlacedIn
  <2> QED
    BY <1>1, <2>2 DEF R!Located
<1>5. text[p] = "encoded"
  <2> SUFFICES ASSUME text[p] = "key" PROVE FALSE
    BY <1>3
  <2>0. p \in 1 .. Len(text) /\ Len(text) \in Nat
    BY <1>2, <1>3
  <2>1. CASE p > 1 /\ text[p - 1] = "quote"
    <3>1. R!Snippet(text, p) = <<"quote", "key">>
      BY <2>1 DEF R!Snippet
    <3>2. SubSeq(text, p - 1, p) = <<"quote", "key">>
      BY <1>2, <2>0, <2>1, ShortCuts
    <3>3. p - 1 \in R!Copies(text, <<"quote", "key">>)
      BY <2>0, <2>1, <3>2 DEF R!Copies
    <3> QED
      BY <1>4, <3>1, <3>3
  <2>2. CASE ~(p > 1 /\ text[p - 1] = "quote")
    <3>1. R!Snippet(text, p) = <<"key">>
      BY <2>2 DEF R!Snippet
    <3>2. SubSeq(text, p, p) = <<"key">>
      BY <1>2, <2>0, ShortCuts
    <3>3. p \in R!Copies(text, <<"key">>)
      BY <2>0, <3>2 DEF R!Copies
    <3> QED
      BY <1>4, <3>1, <3>3
  <2> QED
    BY <2>1, <2>2
<1> QED
  BY <1>3, <1>4, <1>5 DEF R!Unplaceable

LEMMA ConcludedShape ==
  ASSUME NEW outcome, R!Concluded(outcome)
  PROVE  /\ "stage" \in DOMAIN call'
         /\ call'.stage = "audit" /\ call'.rows = {call.row} /\ call'.outcome = outcome
         /\ outcome = "revealed" => call'.shown = R!Sliced(call.row)
  BY DEF R!Concluded

LEMMA RevealStepKeepsReveal ==
  ASSUME R!RevealConstants, RevealInv,
         \/ R!Derive \/ R!SourceGone \/ R!StoreFails \/ R!Audit \/ R!AuditFails \/ R!Answer
         \/ \E r \in sightings : R!LoadTarget(<<r.value, r.path>>)
         \/ \E a \in DOMAIN assets, what \in {"code", "map"} : R!Lost(<<what, a>>)
         \/ UNCHANGED revealVars
  PROVE  RevealInv'
<1> USE DEF RevealInv
<1>1. CASE R!Derive
  <2>1. /\ call.stage = "derive" /\ UNCHANGED <<assets, sightings, gone, mishaps>>
        /\ call.row \in sightings /\ Traced(call.row) /\ call.row.start > 0
    BY <1>1 DEF R!Derive, CallOK
  <2> DEFINE outcome == IF R!SameSecret(call.row) THEN "revealed" ELSE "integrity"
  <2>2. R!Concluded(outcome)
    BY <1>1 DEF R!Derive
  <2>3. /\ "stage" \in DOMAIN call' /\ call'.stage = "audit" /\ call'.rows = {call.row} /\ call'.outcome = outcome
        /\ outcome = "revealed" => call'.shown = R!Sliced(call.row)
    BY <2>2, ConcludedShape
  <2>4. outcome = "revealed" => R!SecretValue(call'.shown) = call.row.value
    BY <2>3 DEF R!SameSecret
  <2>5. outcome = "integrity" =>
          /\ call.row.path \in DOMAIN assets[call.row.asset].files
          /\ assets[call.row.asset].map = "inline" \/ call.row.path = "input.js"
    BY <2>1, CutIsTheSecret
  <2>6. outcome # "source_gone" /\ outcome # "no_offsets"
    OBVIOUS
  <2> HIDE DEF outcome
  <2>7. CallOK'
    BY <2>1, <2>3, <2>4, <2>5, <2>6 DEF CallOK, R!FoundIsRevealed
  <2> QED
    BY <2>1, <2>7, RestKeepsReveal
<1>2. CASE R!SourceGone
  <2>1. /\ UNCHANGED <<assets, sightings, gone, mishaps>> /\ gone # {}
        /\ R!Concluded("source_gone")
    BY <1>2 DEF R!SourceGone
  <2>2. CallOK'
    BY <2>1, ConcludedShape DEF CallOK, R!FoundIsRevealed
  <2> QED
    BY <2>1, <2>2, RestKeepsReveal
<1>3. CASE R!StoreFails
  <2>1. /\ UNCHANGED <<assets, sightings, gone>> /\ mishaps' = mishaps + 1
        /\ R!Concluded("source_gone") \/ R!Concluded("error")
    BY <1>3 DEF R!StoreFails
  <2>2. CallOK'
    BY <2>1, ConcludedShape DEF CallOK, R!FoundIsRevealed
  <2> QED
    BY <2>1, <2>2, RestKeepsReveal
<1>4. CASE R!Audit \/ R!AuditFails \/ R!Answer
  <2>1. /\ UNCHANGED <<assets, sightings, gone>> /\ mishaps' \in {mishaps, mishaps + 1}
        /\ "stage" \in DOMAIN call' /\ call'.stage \in {"answer", "idle"}
    <3>1. UNCHANGED <<assets, sightings, gone>> /\ mishaps' \in {mishaps, mishaps + 1}
      BY <1>4 DEF R!Audit, R!AuditFails, R!Answer
    <3>2. "stage" \in DOMAIN call
      BY DEF CallOK
    <3>3. CASE R!Audit
      BY <3>1, <3>2, <3>3 DEF R!Audit
    <3>4. CASE R!AuditFails
      <4> DEFINE answer == [call EXCEPT !.stage = "answer"]
                 unrecorded == [answer EXCEPT !.outcome = "unrecorded"]
      <4>1. "stage" \in DOMAIN answer /\ answer.stage = "answer"
        BY <3>2
      <4>2. call' = [unrecorded EXCEPT !.shown = << >>]
        BY <3>4 DEF R!AuditFails
      <4> HIDE DEF answer
      <4>3. "stage" \in DOMAIN unrecorded /\ unrecorded.stage = "answer"
        BY <4>1
      <4> HIDE DEF unrecorded
      <4> QED
        BY <3>1, <4>2, <4>3
    <3>5. CASE R!Answer
      BY <3>1, <3>5 DEF R!Answer
    <3> QED
      BY <1>4, <3>3, <3>4, <3>5
  <2>2. CallOK'
    BY <2>1 DEF CallOK, R!FoundIsRevealed
  <2> QED
    BY <2>1, <2>2, RestKeepsReveal
<1>5. ASSUME NEW finding, R!LoadTarget(finding) PROVE RevealInv'
  <2>1. UNCHANGED <<assets, sightings, gone, mishaps>>
    BY <1>5 DEF R!LoadTarget
  <2>2. \/ /\ "stage" \in DOMAIN call' /\ call'.stage = "audit" /\ call'.outcome = "no_offsets"
           /\ R!Located(finding) = {}
           /\ call'.rows = {r \in sightings : <<r.value, r.path>> = finding}
        \/ "stage" \in DOMAIN call' /\ call'.stage = "derive" /\ call'.row \in sightings /\ call'.row.start > 0
    BY <1>5 DEF R!LoadTarget, R!Located
  <2>4. R!Located(finding) = {} =>
          \A r \in {x \in sightings : <<x.value, x.path>> = finding} : R!Unplaceable(r)
    BY NoPlaceNoCopy
  <2>5. R!Located(finding) = {} =>
          \A r \in {x \in sightings : <<x.value, x.path>> = finding} : R!Unplaceable(r)'
    BY <2>1, <2>4 DEF R!Unplaceable, R!TextsOf
  <2>3. CallOK'
    BY <2>1, <2>2, <2>5 DEF CallOK, R!FoundIsRevealed
  <2> QED
    BY <2>1, <2>3, RestKeepsReveal
<1>6. ASSUME NEW object, R!Lost(object) PROVE RevealInv'
  <2>1. UNCHANGED <<assets, sightings, call>> /\ mishaps' = mishaps + 1
    BY <1>6 DEF R!Lost
  <2>2. CallOK'
    BY <2>1 DEF CallOK, R!FoundIsRevealed, R!Unplaceable, R!TextsOf
  <2> QED
    BY <2>1, <2>2, RestKeepsReveal
<1>7. CASE UNCHANGED revealVars
  <2>1. CallOK'
    BY <1>7 DEF revealVars, CallOK, R!FoundIsRevealed, R!Unplaceable, R!TextsOf
  <2> QED
    BY <1>7, <2>1, RestKeepsReveal DEF revealVars
<1> QED
  BY <1>1, <1>2, <1>3, <1>4, <1>5, <1>6, <1>7

LEMMA RevealInvInit == R!Init => RevealInv
<1> SUFFICES ASSUME R!Init PROVE RevealInv
  OBVIOUS
<1>1. "stage" \in DOMAIN call /\ call.stage = "idle"
  BY DEF R!Init
<1> QED
  BY <1>1 DEF R!Init, RevealInv, CallOK, R!FoundIsRevealed

LEMMA RevealInductive == R!Init /\ [][R!Next]_revealVars => []RevealInv
<1>1. R!RevealConstants
  BY RecordsAssumption DEF RecordsAssumption
<1>2. RevealInv /\ [R!Next]_revealVars => RevealInv'
  BY <1>1, AnalyzeKeepsReveal, RevealStepKeepsReveal DEF R!Next
<1> QED
  BY <1>2, RevealInvInit, PTL

LEMMA RevealsTheFound == RevealInv => R!FoundIsRevealed
  BY DEF RevealInv, CallOK
-----------------------------------------------------------------------------
(* RouteHarvest: what is taken is the outermost, of any nodes that nest or are
   apart.                                                                   *)

(* In a finite set with a total order each number of predecessors below its size
   is that of one element.                                                  *)
Below(S, rel, x) == {y \in S : <<y, x>> \in rel}

LEMMA PlacesAreTaken ==
  ASSUME NEW S, IsFiniteSet(S), NEW rel,
         \A x \in S : <<x, x>> \notin rel,
         \A x, y, z \in S : <<x, y>> \in rel /\ <<y, z>> \in rel => <<x, z>> \in rel,
         \A x, y \in S : x # y => <<x, y>> \in rel \/ <<y, x>> \in rel
  PROVE  /\ Cardinality(S) \in Nat
         /\ \A i \in 1 .. Cardinality(S) : \E x \in S : Cardinality(Below(S, rel, x)) = i - 1
         /\ \A x \in S : \E i \in 1 .. Cardinality(S) : Cardinality(Below(S, rel, x)) = i - 1
         /\ \A x, y \in S :
              <<x, y>> \in rel => Cardinality(Below(S, rel, x)) < Cardinality(Below(S, rel, y))
         /\ \A x \in S : Cardinality(Below(S, rel, x)) \in Nat
<1> DEFINE n == Cardinality(S)
           Under(x) == Below(S, rel, x)
           rank == [x \in S |-> Cardinality(Under(x)) + 1]
<1>1. n \in Nat
  BY FS_CardinalityType
<1>2. \A x \in S : /\ IsFiniteSet(Under(x))
                   /\ Cardinality(Under(x)) \in Nat
                   /\ Cardinality(Under(x)) < n
  <2> TAKE x \in S
  <2>1. Under(x) \in SUBSET S /\ Under(x) # S
    BY DEF Below
  <2> HIDE DEF Under
  <2>2. IsFiniteSet(Under(x)) /\ Cardinality(Under(x)) <= n /\ Cardinality(Under(x)) # n
    BY <2>1, FS_Subset
  <2>3. Cardinality(Under(x)) \in Nat
    BY <2>2, FS_CardinalityType
  <2> QED
    BY <1>1, <2>2, <2>3
<1>3. ASSUME NEW x \in S, NEW y \in S, <<x, y>> \in rel
      PROVE  Cardinality(Under(x)) < Cardinality(Under(y))
  <2>1. Under(x) \in SUBSET Under(y)
    BY <1>3 DEF Below
  <2>2. x \in Under(y) /\ x \notin Under(x)
    BY <1>3 DEF Below
  <2> HIDE DEF Under
  <2>3. IsFiniteSet(Under(y))
    BY <1>2
  <2>4. Cardinality(Under(x)) <= Cardinality(Under(y))
    BY <2>1, <2>3, FS_Subset
  <2>5. Cardinality(Under(y)) = Cardinality(Under(x)) => Under(y) = Under(x)
    BY <2>1, <2>3, FS_Subset
  <2>6. Cardinality(Under(y)) # Cardinality(Under(x))
    BY <2>2, <2>5
  <2> QED
    BY <1>2, <2>4, <2>6
<1>4. \A x \in S : rank[x] = Cardinality(Under(x)) + 1
  OBVIOUS
<1> HIDE DEF Under
<1>5. rank \in [S -> 1 .. n]
  <2>1. \A x \in S : Cardinality(Under(x)) + 1 \in 1 .. n
    BY <1>1, <1>2
  <2> QED
    BY <2>1
<1> HIDE DEF rank
<1>6. \A x, y \in S : x # y => rank[x] # rank[y]
  <2> SUFFICES ASSUME NEW x \in S, NEW y \in S, x # y PROVE rank[x] # rank[y]
    OBVIOUS
  <2>1. <<x, y>> \in rel \/ <<y, x>> \in rel
    OBVIOUS
  <2>2. Cardinality(Under(x)) \in Nat /\ Cardinality(Under(y)) \in Nat
    BY <1>2
  <2>3. Cardinality(Under(x)) < Cardinality(Under(y)) \/ Cardinality(Under(y)) < Cardinality(Under(x))
    BY <1>3, <2>1
  <2> QED
    BY <1>4, <2>2, <2>3
<1>7. rank \in Injection(S, 1 .. n)
  BY <1>5, <1>6 DEF Injection, IsInjective
<1>8. IsFiniteSet(1 .. n) /\ Cardinality(1 .. n) = n
  <2>1. 1 \in Int /\ n \in Int
    BY <1>1
  <2> HIDE DEF n
  <2>2. IsFiniteSet(1 .. n) /\ Cardinality(1 .. n) = IF 1 > n THEN 0 ELSE n - 1 + 1
    BY <2>1, FS_Interval
  <2> QED
    BY <1>1, <2>2
<1>9. rank \in Surjection(S, 1 .. n)
  BY <1>7, <1>8, FS_Injection
<1>10. \A i \in 1 .. n : \E x \in S : rank[x] = i
  BY <1>9 DEF Surjection
<1>11. \A i \in 1 .. n : \E x \in S : Cardinality(Under(x)) = i - 1
  <2> SUFFICES ASSUME NEW i \in 1 .. n PROVE \E x \in S : Cardinality(Under(x)) = i - 1
    OBVIOUS
  <2>1. PICK x \in S : rank[x] = i
    BY <1>10
  <2>2. Cardinality(Under(x)) \in Nat /\ i = Cardinality(Under(x)) + 1
    BY <1>2, <1>4, <2>1
  <2>3. Cardinality(Under(x)) = i - 1
    BY <2>2
  <2> QED
    BY <2>3
<1>12. \A x \in S : \E i \in 1 .. n : Cardinality(Under(x)) = i - 1
  <2> TAKE x \in S
  <2>1. Cardinality(Under(x)) \in Nat /\ Cardinality(Under(x)) < n
    BY <1>2
  <2>2. Cardinality(Under(x)) + 1 \in 1 .. n
    BY <1>1, <2>1
  <2>3. Cardinality(Under(x)) = (Cardinality(Under(x)) + 1) - 1
    BY <2>1
  <2> QED
    BY <2>2, <2>3
<1> QED
  BY <1>1, <1>2, <1>3, <1>11, <1>12 DEF Under

LEMMA FunctionIsSeq ==
  ASSUME NEW S, NEW m \in Nat, NEW f \in [1 .. m -> S]
  PROVE  f \in Seq(S) /\ Len(f) = m
OBVIOUS

Orders(S, q, rel) ==
  /\ q \in Seq(S)
  /\ \A x \in S : \E i \in 1 .. Len(q) : q[i] = x
  /\ \A i, j \in 1 .. Len(q) : i < j => <<q[i], q[j]>> \in rel

LEMMA PlacedInOrder ==
  ASSUME NEW S, IsFiniteSet(S), NEW rel, NEW q \in [1 .. Cardinality(S) -> S],
         \A i \in 1 .. Cardinality(S) : Cardinality(Below(S, rel, q[i])) = i - 1,
         \A x \in S : <<x, x>> \notin rel,
         \A x, y, z \in S : <<x, y>> \in rel /\ <<y, z>> \in rel => <<x, z>> \in rel,
         \A x, y \in S : x # y => <<x, y>> \in rel \/ <<y, x>> \in rel
  PROVE  Orders(S, q, rel)
<1> DEFINE n == Cardinality(S)
           count(x) == Cardinality(Below(S, rel, x))
<1>0. /\ Cardinality(S) \in Nat
      /\ \A i \in 1 .. Cardinality(S) : \E x \in S : Cardinality(Below(S, rel, x)) = i - 1
      /\ \A x \in S : \E i \in 1 .. Cardinality(S) : Cardinality(Below(S, rel, x)) = i - 1
      /\ \A x, y \in S :
           <<x, y>> \in rel => Cardinality(Below(S, rel, x)) < Cardinality(Below(S, rel, y))
      /\ \A x \in S : Cardinality(Below(S, rel, x)) \in Nat
  BY PlacesAreTaken, Zenon
<1>1. /\ n \in Nat
      /\ \A i \in 1 .. n : \E x \in S : count(x) = i - 1
      /\ \A x \in S : \E i \in 1 .. n : count(x) = i - 1
      /\ \A x, y \in S : <<x, y>> \in rel => count(x) < count(y)
      /\ \A x \in S : count(x) \in Nat
  BY <1>0
<1> HIDE DEF count
<1>2. \A i \in 1 .. n : q[i] \in S /\ count(q[i]) = i - 1
  BY DEF count
<1>3. q \in [1 .. n -> S]
  OBVIOUS
<1>4. q \in Seq(S) /\ Len(q) = n
  BY <1>1, <1>3, FunctionIsSeq
<1>5. \A x, y \in S : count(x) = count(y) => x = y
  <2> SUFFICES ASSUME NEW x \in S, NEW y \in S, x # y PROVE count(x) # count(y)
    OBVIOUS
  <2>1. count(x) \in Nat /\ count(y) \in Nat
    BY <1>1
  <2>2. <<x, y>> \in rel \/ <<y, x>> \in rel
    OBVIOUS
  <2>3. <<x, y>> \in rel => count(x) < count(y)
    BY <1>1
  <2>4. <<y, x>> \in rel => count(y) < count(x)
    BY <1>1
  <2> QED
    BY <2>1, <2>2, <2>3, <2>4
<1>6. \A x \in S : \E i \in 1 .. n : q[i] = x
  <2> TAKE x \in S
  <2>1. PICK i \in 1 .. n : count(x) = i - 1
    BY <1>1
  <2>2. q[i] \in S /\ count(q[i]) = count(x)
    BY <1>2, <2>1
  <2> QED
    BY <1>5, <2>1, <2>2
<1>7. ASSUME NEW i \in 1 .. n, NEW j \in 1 .. n, i < j PROVE <<q[i], q[j]>> \in rel
  <2>1. q[i] \in S /\ q[j] \in S /\ count(q[i]) = i - 1 /\ count(q[j]) = j - 1
    BY <1>2
  <2>2. i \in Int /\ j \in Int
    OBVIOUS
  <2>5. ~(count(q[j]) < count(q[i]))
    BY <1>7, <2>1, <2>2
  <2>6. count(q[i]) # count(q[j])
    BY <1>7, <2>1, <2>2
  <2>3. q[i] # q[j] /\ ~(count(q[j]) < count(q[i]))
    BY <2>5, <2>6, Zenon
  <2>4. <<q[j], q[i]>> \notin rel
    BY <1>1, <2>1, <2>3
  <2> QED
    BY <2>1, <2>3, <2>4
<1> QED
  BY <1>4, <1>6, <1>7 DEF Orders

LEMMA HarvestCounts == \A S : H!Cardinality(S) = Cardinality(S)
BY DEF H!Cardinality, Cardinality

Walked(S) == {p \in S \X S : H!Before(p[1], p[2])}
Listed(S) == {p \in S \X S : H!Earlier(p[1], p[2])}

LEMMA PreorderOrders ==
  ASSUME NEW S, S \subseteq Nat \X Nat, IsFiniteSet(S)
  PROVE  Orders(S, H!Preorder(S), Walked(S))
<1> DEFINE n == Cardinality(S)
           rel == Walked(S)
<1>1. \A x, y \in S : <<x, y>> \in rel <=> H!Before(x, y)
  BY DEF Walked
<1>2. \A x \in S : x[1] \in Nat /\ x[2] \in Nat /\ x = <<x[1], x[2]>>
  OBVIOUS
<1> HIDE DEF rel
<1>3. /\ \A x \in S : <<x, x>> \notin rel
      /\ \A x, y, z \in S : <<x, y>> \in rel /\ <<y, z>> \in rel => <<x, z>> \in rel
      /\ \A x, y \in S : x # y => <<x, y>> \in rel \/ <<y, x>> \in rel
  <2>1. \A x \in S : <<x, x>> \notin rel
    BY <1>1, <1>2 DEF H!Before
  <2>2. \A x, y, z \in S : <<x, y>> \in rel /\ <<y, z>> \in rel => <<x, z>> \in rel
    BY <1>1, <1>2 DEF H!Before
  <2>3. ASSUME NEW x \in S, NEW y \in S, x # y PROVE <<x, y>> \in rel \/ <<y, x>> \in rel
    <3>1. x[1] # y[1] \/ x[2] # y[2]
      BY <1>2, <2>3
    <3> QED
      BY <1>1, <1>2, <3>1 DEF H!Before
  <2> QED
    BY <2>1, <2>2, <2>3
<1>4. \A x \in S : {t \in S : H!Before(t, x)} = Below(S, rel, x)
  BY <1>1 DEF Below
<1>5. \A i \in 1 .. n : \E x \in S : Cardinality(Below(S, rel, x)) = i - 1
  BY <1>3, PlacesAreTaken, Zenon
<1>6. \A i \in 1 .. n : \E x \in S : Cardinality({t \in S : H!Before(t, x)}) = i - 1
  BY <1>4, <1>5
<1> DEFINE q == [i \in 1 .. H!Cardinality(S) |->
                CHOOSE x \in S : H!Cardinality({t \in S : H!Before(t, x)}) = i - 1]
<1>13. H!Cardinality(S) = n
  BY HarvestCounts
<1>14. \A x \in S : H!Cardinality({t \in S : H!Before(t, x)}) = Cardinality({t \in S : H!Before(t, x)})
  BY HarvestCounts
<1>7. \A i \in 1 .. n : q[i] \in S /\ Cardinality({t \in S : H!Before(t, q[i])}) = i - 1
  BY <1>6, <1>13, <1>14
<1>8. q \in [1 .. n -> S]
  BY <1>7, <1>13
<1>9. H!Preorder(S) = q
  BY DEF H!Preorder, H!Sorted
<1> HIDE DEF q
<1>10. \A i \in 1 .. n : Cardinality(Below(S, rel, q[i])) = i - 1
  BY <1>4, <1>7
<1>11. Orders(S, q, rel)
  BY <1>3, <1>8, <1>10, PlacedInOrder
<1> QED
  BY <1>9, <1>11 DEF rel

LEMMA EarlierOrders ==
  ASSUME NEW S, S \subseteq Nat \X Nat, IsFiniteSet(S)
  PROVE  Orders(S, H!Sorted(S, H!Earlier), Listed(S))
<1> DEFINE n == Cardinality(S)
           rel == Listed(S)
<1>1. \A x, y \in S : <<x, y>> \in rel <=> H!Earlier(x, y)
  BY DEF Listed
<1>2. \A x \in S : x[1] \in Nat /\ x[2] \in Nat /\ x = <<x[1], x[2]>>
  OBVIOUS
<1> HIDE DEF rel
<1>3. /\ \A x \in S : <<x, x>> \notin rel
      /\ \A x, y, z \in S : <<x, y>> \in rel /\ <<y, z>> \in rel => <<x, z>> \in rel
      /\ \A x, y \in S : x # y => <<x, y>> \in rel \/ <<y, x>> \in rel
  <2>1. \A x \in S : <<x, x>> \notin rel
    BY <1>1, <1>2 DEF H!Earlier
  <2>2. \A x, y, z \in S : <<x, y>> \in rel /\ <<y, z>> \in rel => <<x, z>> \in rel
    BY <1>1, <1>2 DEF H!Earlier
  <2>3. ASSUME NEW x \in S, NEW y \in S, x # y PROVE <<x, y>> \in rel \/ <<y, x>> \in rel
    <3>1. x[1] # y[1] \/ x[2] # y[2]
      BY <1>2, <2>3
    <3> QED
      BY <1>1, <1>2, <3>1 DEF H!Earlier
  <2> QED
    BY <2>1, <2>2, <2>3
<1>4. \A x \in S : {t \in S : H!Earlier(t, x)} = Below(S, rel, x)
  BY <1>1 DEF Below
<1>5. \A i \in 1 .. n : \E x \in S : Cardinality(Below(S, rel, x)) = i - 1
  BY <1>3, PlacesAreTaken, Zenon
<1>6. \A i \in 1 .. n : \E x \in S : Cardinality({t \in S : H!Earlier(t, x)}) = i - 1
  BY <1>4, <1>5
<1> DEFINE q == [i \in 1 .. H!Cardinality(S) |->
                CHOOSE x \in S : H!Cardinality({t \in S : H!Earlier(t, x)}) = i - 1]
<1>13. H!Cardinality(S) = n
  BY HarvestCounts
<1>14. \A x \in S : H!Cardinality({t \in S : H!Earlier(t, x)}) = Cardinality({t \in S : H!Earlier(t, x)})
  BY HarvestCounts
<1>7. \A i \in 1 .. n : q[i] \in S /\ Cardinality({t \in S : H!Earlier(t, q[i])}) = i - 1
  BY <1>6, <1>13, <1>14
<1>8. q \in [1 .. n -> S]
  BY <1>7, <1>13
<1>9. H!Sorted(S, H!Earlier) = q
  BY DEF H!Sorted
<1> HIDE DEF q
<1>10. \A i \in 1 .. n : Cardinality(Below(S, rel, q[i])) = i - 1
  BY <1>4, <1>7
<1>11. Orders(S, q, rel)
  BY <1>3, <1>8, <1>10, PlacedInOrder
<1> QED
  BY <1>9, <1>11 DEF rel

(* Spans that nest or are apart. *)
Spans(S) ==
  /\ S \subseteq Nat \X Nat /\ IsFiniteSet(S)
  /\ \A s \in S : s[1] < s[2]
  /\ \A s, r \in S : H!Within(s, r) \/ H!Within(r, s) \/ s[2] < r[1] \/ r[2] < s[1]

(* What the first k of the sorted spans merge to: some of them, apart, around
   all of them.                                                             *)
MergeOf(S, q, k, m) ==
  /\ m \in Seq(S)
  /\ \A i, j \in 1 .. Len(m) : i < j => m[i][2] < m[j][1]
  /\ \A i \in 1 .. k : \E j \in 1 .. Len(m) : H!Within(q[i], m[j])
  /\ \A j \in 1 .. Len(m) : \E i \in 1 .. k : m[j] = q[i]

LEMMA ReplaceOne ==
  ASSUME NEW S, NEW m \in Seq(S), NEW i \in 1 .. Len(m), NEW s \in S
  PROVE  LET a == [m EXCEPT ![i] = s]
         IN  /\ a \in Seq(S) /\ Len(a) = Len(m) /\ a[i] = s
             /\ \A j \in 1 .. Len(m) : j # i => a[j] = m[j]
OBVIOUS

LEMMA ExtendMerges ==
  ASSUME NEW S, Spans(S), NEW q, Orders(S, q, Listed(S)),
         NEW k \in 1 .. Len(q), NEW m, MergeOf(S, q, k - 1, m)
  PROVE  MergeOf(S, q, k, H!Extend(m, q[k]))
<1> DEFINE s == q[k]
           n == Len(m)
           l == m[n]
<1>1. \A x \in S : x[1] \in Nat /\ x[2] \in Nat /\ x = <<x[1], x[2]>> /\ x[1] < x[2]
  BY DEF Spans
<1>11. q \in Seq(S) /\ m \in Seq(S)
  BY DEF Orders, MergeOf
<1>12. Len(q) \in Nat /\ k \in Nat /\ k - 1 \in Nat /\ k <= Len(q) /\ n \in Nat
  BY <1>11
<1>13. \A i \in 1 .. Len(q) : q[i] \in S
  BY <1>11
<1>14. \A j \in 1 .. n : m[j] \in S
  BY <1>11
<1>2. s \in S
  BY <1>13
<1>3. \A i \in 1 .. k - 1 : i \in 1 .. Len(q) /\ i < k /\ H!Earlier(q[i], s)
  <2> SUFFICES ASSUME NEW i \in 1 .. k - 1
               PROVE  i \in 1 .. Len(q) /\ i < k /\ H!Earlier(q[i], s)
    OBVIOUS
  <2>1. i \in 1 .. Len(q) /\ i < k
    BY <1>12
  <2>2. <<q[i], s>> \in Listed(S)
    BY <2>1 DEF Orders
  <2> QED
    BY <2>1, <2>2 DEF Listed
<1>4. \A j \in 1 .. n : H!Earlier(m[j], s)
  BY <1>3 DEF MergeOf
<1>5. \A i, j \in 1 .. n : i < j => m[i][2] < m[j][1]
  BY DEF MergeOf
<1>6. \A i \in 1 .. k - 1 : \E j \in 1 .. n : H!Within(q[i], m[j])
  BY DEF MergeOf
<1>7. \A j \in 1 .. n : \E i \in 1 .. k - 1 : m[j] = q[i]
  BY DEF MergeOf
<1>8. \A i \in 1 .. k : i \in 1 .. k - 1 \/ i = k
  BY <1>12
<1>20. 1 .. k - 1 \subseteq 1 .. k /\ k \in 1 .. k
  BY <1>12
<1> HIDE DEF s, n
<1>9. CASE m = << >> \/ ~(s[1] <= l[2])
  <2> DEFINE a == Append(m, s)
  <2>1. H!Extend(m, s) = a
    BY <1>9 DEF H!Extend, H!Last, n
  <2>2. /\ a \in Seq(S) /\ Len(a) = n + 1 /\ a[n + 1] = s
        /\ \A j \in 1 .. n : a[j] = m[j]
    BY <1>2, <1>11 DEF n
  <2> HIDE DEF a
  <2>3. \A j \in 1 .. n + 1 : j \in 1 .. n \/ j = n + 1
    BY <1>12
  <2>4. \A j \in 1 .. n : m[j][2] < s[1]
    <3> SUFFICES ASSUME NEW j \in 1 .. n PROVE m[j][2] < s[1]
      OBVIOUS
    <3>1. n \in 1 .. n /\ m # << >> /\ j \in Nat
      <4>1. m # << >>
        BY <1>11, <1>12 DEF n
      <4> QED
        BY <1>12, <4>1
    <3>5. l \in S
      BY <1>14, <3>1
    <3>2. l[2] < s[1]
      BY <1>1, <1>2, <1>9, <3>1, <3>5
    <3>3. CASE j = n
      BY <3>2, <3>3
    <3>4. CASE j < n
      <4>1. m[j][2] < l[1] /\ m[j] \in S
        BY <1>5, <1>14, <3>1, <3>4
      <4>2. l[1] \in Nat /\ l[2] \in Nat /\ l[1] < l[2] /\ s[1] \in Nat /\ m[j][2] \in Nat
        BY <1>1, <1>2, <3>5, <4>1
      <4> HIDE DEF l
      <4> QED
        BY <3>2, <4>1, <4>2
    <3> QED
      BY <1>12, <3>1, <3>3, <3>4
  <2>5. \A i, j \in 1 .. n + 1 : i < j => a[i][2] < a[j][1]
    <3> SUFFICES ASSUME NEW i \in 1 .. n + 1, NEW j \in 1 .. n + 1, i < j
                 PROVE  a[i][2] < a[j][1]
      OBVIOUS
    <3>1. i \in 1 .. n
      BY <1>12
    <3>2. CASE j \in 1 .. n
      BY <1>5, <2>2, <3>1, <3>2
    <3>3. CASE j = n + 1
      BY <2>2, <2>4, <3>1, <3>3
    <3> QED
      BY <2>3, <3>2, <3>3
  <2>6. \A i \in 1 .. k : \E j \in 1 .. n + 1 : H!Within(q[i], a[j])
    <3> TAKE i \in 1 .. k
    <3>1. CASE i \in 1 .. k - 1
      <4>1. PICK j \in 1 .. n : H!Within(q[i], m[j])
        BY <1>6, <3>1
      <4>2. j \in 1 .. n + 1 /\ a[j] = m[j]
        BY <1>12, <2>2
      <4> QED
        BY <4>1, <4>2
    <3>2. CASE i = k
      <4>1. n + 1 \in 1 .. n + 1
        BY <1>12
      <4>2. H!Within(s, s)
        BY <1>1, <1>2 DEF H!Within
      <4> QED
        BY <2>2, <3>2, <4>1, <4>2 DEF s
    <3> QED
      BY <1>8, <3>1, <3>2
  <2>7. \A j \in 1 .. n + 1 : \E i \in 1 .. k : a[j] = q[i]
    <3> TAKE j \in 1 .. n + 1
    <3>1. CASE j \in 1 .. n
      BY <1>7, <1>20, <2>2, <3>1
    <3>2. CASE j = n + 1
      BY <1>20, <2>2, <3>2 DEF s
    <3> QED
      BY <2>3, <3>1, <3>2
  <2>8. MergeOf(S, q, k, a)
    BY <2>2, <2>5, <2>6, <2>7 DEF MergeOf
  <2> QED
    BY <2>1, <2>8 DEF s
<1>10. CASE m # << >> /\ s[1] <= l[2]
  <2> DEFINE v == IF l[2] > s[2] THEN l[2] ELSE s[2]
             a == [m EXCEPT ![n] = <<l[1], v>>]
  <2>7. n \in 1 .. n
    <3>1. n # 0
      BY <1>10, <1>11 DEF n
    <3> QED
      BY <1>12, <3>1
  <2>1. n \in 1 .. n /\ l \in S /\ l = <<l[1], l[2]>>
    BY <1>1, <1>14, <2>7
  <2>8. /\ l[1] \in Nat /\ l[2] \in Nat /\ l[1] < l[2]
        /\ s[1] \in Nat /\ s[2] \in Nat /\ s[1] < s[2] /\ s = <<s[1], s[2]>>
    BY <1>1, <1>2, <2>1
  <2>2. H!Extend(m, s) = a
    <3>1. [l EXCEPT ![2] = v] = <<l[1], v>>
      BY <2>1
    <3>2. H!Extend(m, s) = [m EXCEPT ![n] = [l EXCEPT ![2] = v]]
      BY <1>10 DEF H!Extend, H!Last, n
    <3> QED
      BY <3>1, <3>2
  <2>3. l[1] < s[1] \/ (l[1] = s[1] /\ l[2] < s[2])
    BY <1>4, <2>1 DEF H!Earlier
  <2>4. CASE H!Within(s, l)
    <3>1. v = l[2]
      BY <2>8, <2>4 DEF H!Within
    <3>2. <<l[1], v>> = l
      BY <2>1, <3>1
    <3>3. a = m
      <4>1. m = [j \in 1 .. Len(m) |-> m[j]]
        BY <1>11
      <4>2. a = [m EXCEPT ![n] = m[n]]
        BY <3>2
      <4> QED
        BY <4>1, <4>2
    <3>4. \A i \in 1 .. k : \E j \in 1 .. n : H!Within(q[i], m[j])
      BY <1>6, <1>8, <2>1, <2>4 DEF s
    <3>5. \A j \in 1 .. n : \E i \in 1 .. k : m[j] = q[i]
      BY <1>7, <1>20
    <3>6. MergeOf(S, q, k, m)
      BY <1>5, <1>11, <3>4, <3>5 DEF MergeOf, n
    <3> QED
      BY <2>2, <3>3, <3>6 DEF s
  <2>5. CASE H!Within(l, s)
    <3>1. v = s[2] /\ l[1] = s[1]
      BY <2>8, <2>3, <2>5 DEF H!Within
    <3>2. <<l[1], v>> = s
      BY <2>8, <3>1
    <3>3. /\ a \in Seq(S) /\ Len(a) = n /\ a[n] = s
          /\ \A j \in 1 .. n : j # n => a[j] = m[j]
      <4>1. a = [m EXCEPT ![n] = s]
        BY <3>2
      <4>2. n \in 1 .. Len(m) /\ n = Len(m)
        BY <2>1 DEF n
      <4> HIDE DEF a
      <4> QED
        BY <1>2, <1>11, <4>1, <4>2, ReplaceOne
    <3> HIDE DEF a, v, l
    <3>4. \A i, j \in 1 .. n : i < j => a[i][2] < a[j][1]
      <4> SUFFICES ASSUME NEW i \in 1 .. n, NEW j \in 1 .. n, i < j
                   PROVE  a[i][2] < a[j][1]
        OBVIOUS
      <4>4. i # n
        BY <1>12
      <4>1. i # n /\ a[i] = m[i] /\ m[i][2] < m[j][1]
        BY <1>5, <3>3, <4>4
      <4>2. CASE j = n
        BY <3>1, <3>3, <4>1, <4>2 DEF l
      <4>3. CASE j # n
        BY <3>3, <4>1, <4>3
      <4> QED
        BY <4>2, <4>3
    <3>5. \A i \in 1 .. k : \E j \in 1 .. n : H!Within(q[i], a[j])
      <4> TAKE i \in 1 .. k
      <4>1. CASE i \in 1 .. k - 1
        <5>1. PICK j \in 1 .. n : H!Within(q[i], m[j])
          BY <1>6, <4>1
        <5>2. CASE j = n
          <6>1. q[i] \in S
            BY <1>3, <1>13, <4>1
          <6>3. q[i][1] \in Nat /\ q[i][2] \in Nat
            BY <1>1, <6>1
          <6>4. H!Within(q[i], l)
            BY <5>1, <5>2 DEF l
          <6>2. H!Within(q[i], s)
            BY <2>5, <2>8, <6>3, <6>4 DEF H!Within
          <6> QED
            BY <2>1, <3>3, <6>2
        <5>3. CASE j # n
          BY <3>3, <5>1, <5>3
        <5> QED
          BY <5>2, <5>3
      <4>2. CASE i = k
        <5>1. H!Within(s, s)
          BY <1>1, <1>2 DEF H!Within
        <5> QED
          BY <2>1, <3>3, <4>2, <5>1 DEF s
      <4> QED
        BY <1>8, <4>1, <4>2
    <3>6. \A j \in 1 .. n : \E i \in 1 .. k : a[j] = q[i]
      <4> TAKE j \in 1 .. n
      <4>1. CASE j = n
        BY <1>20, <3>3, <4>1 DEF s
      <4>2. CASE j # n
        BY <1>7, <1>20, <3>3, <4>2
      <4> QED
        BY <4>1, <4>2
    <3>7. MergeOf(S, q, k, a)
      BY <3>3, <3>4, <3>5, <3>6 DEF MergeOf
    <3> QED
      BY <2>2, <3>7 DEF s
  <2>6. ~(s[2] < l[1]) /\ ~(l[2] < s[1])
    BY <1>10, <2>3, <2>8
  <2> QED
    BY <1>2, <2>1, <2>4, <2>5, <2>6 DEF Spans
<1> QED
  BY <1>9, <1>10

Merging(q, k, f) ==
  /\ f[0] = << >>
  /\ \A i \in 1 .. k : f[i] = H!Extend(f[i - 1], q[i])

LEMMA MergesPrefixes ==
  ASSUME NEW S, Spans(S), NEW q, Orders(S, q, Listed(S))
  PROVE  \A k \in 0 .. Len(q) :
           \E f \in [0 .. k -> Seq(S)] : Merging(q, k, f) /\ MergeOf(S, q, k, f[k])
<1> DEFINE Made(k) ==
             \E f \in [0 .. k -> Seq(S)] : Merging(q, k, f) /\ MergeOf(S, q, k, f[k])
           Bad == {k \in 1 .. Len(q) : ~Made(k)}
<1>1. q \in Seq(S) /\ Len(q) \in Nat
  BY DEF Orders
<1>2. Made(0)
  <2> DEFINE f == [i \in 0 .. 0 |-> << >>]
  <2>1. << >> \in Seq(S) /\ Len(<< >>) = 0
    OBVIOUS
  <2>2. f \in [0 .. 0 -> Seq(S)] /\ f[0] = << >>
    BY <2>1
  <2>3. Merging(q, 0, f)
    BY <2>2 DEF Merging
  <2>4. MergeOf(S, q, 0, << >>)
    BY <2>1 DEF MergeOf
  <2> QED
    BY <2>2, <2>3, <2>4
<1>3. Bad = {}
  <2> SUFFICES ASSUME Bad # {} PROVE FALSE
    OBVIOUS
  <2>1. Bad \in SUBSET (1 .. Len(q)) /\ \A k \in 1 .. Len(q) : k \in Bad <=> ~Made(k)
    OBVIOUS
  <2> HIDE DEF Bad, Made
  <2>2. PICK k \in Bad : k = 1 \/ (k > 1 /\ k - 1 \in (1 .. Len(q)) \ Bad)
    BY <1>1, <2>1, LeastPrefix
  <2>3. k \in 1 .. Len(q) /\ ~Made(k)
    BY <2>1
  <2>4. Made(k - 1)
    BY <1>2, <2>1, <2>2
  <2>5. PICK g \in [0 .. k - 1 -> Seq(S)] :
          Merging(q, k - 1, g) /\ MergeOf(S, q, k - 1, g[k - 1])
    BY <2>4 DEF Made
  <2>6. k \in Nat /\ k - 1 \in Nat /\ k - 1 \in 0 .. k - 1 /\ k # 0
    BY <1>1, <2>3
  <2> DEFINE last == H!Extend(g[k - 1], q[k])
             f == [i \in 0 .. k |-> IF i = k THEN last ELSE g[i]]
  <2>7. MergeOf(S, q, k, last)
    BY <2>3, <2>5, ExtendMerges
  <2> HIDE DEF last
  <2>8. last \in Seq(S)
    BY <2>7 DEF MergeOf
  <2>9. \A i \in 0 .. k : i = k \/ i \in 0 .. k - 1
    BY <2>6
  <2>10. f \in [0 .. k -> Seq(S)]
    BY <2>8, <2>9
  <2>11. f[k] = last /\ \A i \in 0 .. k - 1 : f[i] = g[i]
    BY <2>6
  <2> HIDE DEF f
  <2>12. Merging(q, k, f)
    <3>1. f[0] = << >>
      BY <2>5, <2>6, <2>11 DEF Merging
    <3>2. ASSUME NEW i \in 1 .. k PROVE f[i] = H!Extend(f[i - 1], q[i])
      <4>1. CASE i = k
        BY <2>6, <2>11, <4>1 DEF last
      <4>2. CASE i # k
        <5>1. i \in 1 .. k - 1 /\ i \in 0 .. k - 1 /\ i - 1 \in 0 .. k - 1
          BY <2>6, <4>2
        <5>2. g[i] = H!Extend(g[i - 1], q[i])
          BY <2>5, <5>1 DEF Merging
        <5> QED
          BY <2>11, <5>1, <5>2
      <4> QED
        BY <4>1, <4>2
    <3> QED
      BY <3>1, <3>2 DEF Merging
  <2>13. Made(k)
    BY <2>7, <2>10, <2>11, <2>12 DEF Made
  <2> QED
    BY <2>3, <2>13
<1>4. \A k \in 1 .. Len(q) : Made(k)
  BY <1>3
<1> HIDE DEF Made
<1>5. \A k \in 0 .. Len(q) : k = 0 \/ k \in 1 .. Len(q)
  BY <1>1
<1>6. \A k \in 0 .. Len(q) : Made(k)
  BY <1>2, <1>4, <1>5
<1> QED
  BY <1>6 DEF Made

(* The merged spans are spans of the set, in order and apart, around all. *)
LEMMA MergedSpans ==
  ASSUME NEW S, Spans(S)
  PROVE  /\ H!MergeSpans(S) \in Seq(S)
         /\ \A i, j \in 1 .. Len(H!MergeSpans(S)) :
              i < j => H!MergeSpans(S)[i][2] < H!MergeSpans(S)[j][1]
         /\ \A s \in S : \E j \in 1 .. Len(H!MergeSpans(S)) : H!Within(s, H!MergeSpans(S)[j])
<1> DEFINE q == H!Sorted(S, H!Earlier)
           n == Len(q)
           Step(f) == [k \in 0 .. n |-> IF k = 0 THEN << >> ELSE H!Extend(f[k - 1], q[k])]
           merged == CHOOSE f : f = Step(f)
<1>1. Orders(S, q, Listed(S))
  BY EarlierOrders DEF Spans
<1>2. H!MergeSpans(S) = merged[n]
  BY DEF H!MergeSpans
<1> HIDE DEF q
<1>3. q \in Seq(S) /\ n \in Nat
  BY <1>1 DEF Orders
<1> HIDE DEF n
<1>4. n \in 0 .. n
  BY <1>3
<1>5. PICK g \in [0 .. n -> Seq(S)] : Merging(q, n, g) /\ MergeOf(S, q, n, g[n])
  BY <1>1, <1>4, MergesPrefixes DEF n
<1>6. g = Step(g)
  <2>1. \A k \in 0 .. n : g[k] = IF k = 0 THEN << >> ELSE H!Extend(g[k - 1], q[k])
    BY <1>3, <1>5 DEF Merging
  <2> QED
    BY <2>1
<1>7. merged = Step(merged)
  BY <1>6
<1> HIDE DEF merged
<1>8. \A k \in 0 .. n : merged[k] = IF k = 0 THEN << >> ELSE H!Extend(merged[k - 1], q[k])
  BY <1>7
<1> DEFINE Bad == {k \in 1 .. n : ~MergeOf(S, q, k, merged[k])}
<1>9. MergeOf(S, q, 0, merged[0])
  <2>1. merged[0] = << >>
    BY <1>3, <1>8
  <2>2. << >> \in Seq(S) /\ Len(<< >>) = 0
    OBVIOUS
  <2> QED
    BY <2>1, <2>2 DEF MergeOf
<1>10. Bad = {}
  <2> SUFFICES ASSUME Bad # {} PROVE FALSE
    OBVIOUS
  <2>1. /\ Bad \in SUBSET (1 .. n)
        /\ \A k \in 1 .. n : k \in Bad <=> ~MergeOf(S, q, k, merged[k])
    OBVIOUS
  <2> HIDE DEF Bad
  <2>2. PICK k \in Bad : k = 1 \/ (k > 1 /\ k - 1 \in (1 .. n) \ Bad)
    BY <1>3, <2>1, LeastPrefix
  <2>3. k \in 1 .. n /\ ~MergeOf(S, q, k, merged[k])
    BY <2>1
  <2>4. MergeOf(S, q, k - 1, merged[k - 1])
    BY <1>9, <2>1, <2>2
  <2>5. merged[k] = H!Extend(merged[k - 1], q[k])
    BY <1>3, <1>8, <2>3
  <2>6. MergeOf(S, q, k, merged[k])
    BY <1>1, <2>3, <2>4, <2>5, ExtendMerges DEF n
  <2> QED
    BY <2>3, <2>6
<1>11. MergeOf(S, q, n, merged[n])
  <2>1. n = 0 \/ n \in 1 .. n
    BY <1>3
  <2>2. n \in 1 .. n => MergeOf(S, q, n, merged[n])
    BY <1>10
  <2> HIDE DEF Bad
  <2> QED
    BY <1>9, <2>1, <2>2
<1> DEFINE c == merged[n]
<1>12. H!MergeSpans(S) = c
  BY <1>2
<1> HIDE DEF c
<1>13. MergeOf(S, q, n, c)
  BY <1>11 DEF c
<1>14. \A s \in S : \E j \in 1 .. Len(c) : H!Within(s, c[j])
  <2> TAKE s \in S
  <2>1. PICK i \in 1 .. n : q[i] = s
    BY <1>1 DEF Orders, n
  <2> QED
    BY <1>13, <2>1 DEF MergeOf
<1> QED
  BY <1>12, <1>13, <1>14 DEF MergeOf

-----------------------------------------------------------------------------
(* What a walk keeps: the spans in order, the merged spans around what the
   first pass recorded, and of what it has passed a pointer and an end.     *)
WalkInv ==
  /\ tree \in Trees
  /\ order \in Seq(DOMAIN tree)
  /\ \A i, j \in 1 .. Len(order) : i < j => H!Before(order[i], order[j])
  /\ claimed \in Seq(H!Recorded(tree))
  /\ \A i, j \in 1 .. Len(claimed) : i < j => claimed[i][2] < claimed[j][1]
  /\ \A s \in H!Recorded(tree) : \E j \in 1 .. Len(claimed) : H!Within(s, claimed[j])
  /\ H!Range(order) = {order[i] : i \in 1 .. Len(order)}
  /\ H!Recorded(tree) \subseteq DOMAIN tree
  /\ next \in 1 .. Len(order) + 1
  /\ claimAt \in 1 .. Len(claimed) + 1
  /\ \A j \in 1 .. claimAt - 1, i \in next .. Len(order) : claimed[j][2] < order[i][1]
  /\ lastEnd \in Int
  /\ \A i \in 1 .. next - 1 : H!Closes(order[i]) => order[i][2] <= lastEnd
  /\ lastEnd = -1 \/ \E i \in 1 .. next - 1 : H!Closes(order[i]) /\ order[i][2] = lastEnd
  /\ H!HarvestIsOutermost

LEMMA TreeSpans ==
  ASSUME NEW t \in Trees
  PROVE  Spans(DOMAIN t)
<1>1. H!HarvestConstants
  BY RecordsAssumption
<1>2. IsFiniteSet(DOMAIN t)
  <2>1. \A S : H!IsFiniteSet(S) => IsFiniteSet(S)
    BY DEF H!IsFiniteSet, IsFiniteSet
  <2> QED
    BY <1>1, <2>1 DEF H!HarvestConstants
<1> QED
  BY <1>1, <1>2 DEF H!HarvestConstants, Spans

LEMMA SubsetSpans ==
  ASSUME NEW S, Spans(S), NEW T \in SUBSET S
  PROVE  Spans(T)
<1>1. IsFiniteSet(T)
  BY FS_Subset DEF Spans
<1> QED
  BY <1>1 DEF Spans

(* The nodes that are looked at are in preorder. *)
LEMMA SeenInOrder ==
  ASSUME NEW t \in Trees
  PROVE  /\ H!Seen(t) \in Seq(DOMAIN t)
         /\ \A i, j \in 1 .. Len(H!Seen(t)) : i < j => H!Before(H!Seen(t)[i], H!Seen(t)[j])
<1> DEFINE all == H!Preorder(DOMAIN t)
           n == IF Len(all) < MaxNodes THEN Len(all) ELSE MaxNodes
<1>1. Orders(DOMAIN t, all, Walked(DOMAIN t))
  BY TreeSpans, PreorderOrders DEF Spans
<1>2. H!Seen(t) = SubSeq(all, 1, n)
  BY DEF H!Seen
<1> HIDE DEF all
<1>3. all \in Seq(DOMAIN t) /\ Len(all) \in Nat
  BY <1>1 DEF Orders
<1>4. MaxNodes \in Nat
  BY RecordsAssumption DEF H!HarvestConstants
<1>5. n \in Nat /\ n <= Len(all)
  BY <1>3, <1>4
<1> HIDE DEF n
<1> DEFINE q == SubSeq(all, 1, n)
<1>6. q \in Seq(DOMAIN t) /\ Len(q) = n /\ \A i \in 1 .. n : q[i] = all[i]
  <2>1. \A i \in 1 .. n : all[i] \in DOMAIN t
    BY <1>3, <1>5
  <2>2. q = [i \in 1 .. n |-> all[i]]
    BY <1>3, <1>5
  <2>3. q \in [1 .. n -> DOMAIN t]
    BY <2>1, <2>2
  <2> HIDE DEF q
  <2>4. q \in Seq(DOMAIN t) /\ Len(q) = n
    BY <1>5, <2>3, FunctionIsSeq
  <2> QED
    BY <2>2, <2>4
<1> HIDE DEF q
<1>7. \A i, j \in 1 .. n : i < j => H!Before(q[i], q[j])
  <2> SUFFICES ASSUME NEW i \in 1 .. n, NEW j \in 1 .. n, i < j
               PROVE  H!Before(q[i], q[j])
    OBVIOUS
  <2>1. i \in 1 .. Len(all) /\ j \in 1 .. Len(all)
    BY <1>3, <1>5
  <2>2. <<all[i], all[j]>> \in Walked(DOMAIN t)
    BY <1>1, <2>1 DEF Orders
  <2> QED
    BY <1>6, <2>2 DEF Walked
<1>8. H!Seen(t) = q
  BY <1>2 DEF q
<1> QED
  BY <1>6, <1>7, <1>8

LEMMA RecordedAreNodes ==
  ASSUME NEW t \in Trees
  PROVE  H!Recorded(t) \subseteq DOMAIN t
<1>1. H!Seen(t) \in Seq(DOMAIN t)
  BY SeenInOrder
<1>2. H!Range(H!Seen(t)) \subseteq DOMAIN t
  BY <1>1 DEF H!Range
<1> QED
  BY <1>2 DEF H!Recorded

LEMMA WalkInit == H!Init => WalkInv
<1> SUFFICES ASSUME H!Init PROVE WalkInv
  OBVIOUS
<1>1. /\ tree \in Trees /\ order = H!Seen(tree) /\ claimed = H!MergeSpans(H!Recorded(tree))
      /\ next = 1 /\ claimAt = 1 /\ lastEnd = -1 /\ taken = {}
  BY DEF H!Init
<1>2. /\ order \in Seq(DOMAIN tree)
      /\ \A i, j \in 1 .. Len(order) : i < j => H!Before(order[i], order[j])
  BY <1>1, SeenInOrder
<1>3. H!Recorded(tree) \subseteq DOMAIN tree
  BY <1>1, RecordedAreNodes
<1>4. Spans(H!Recorded(tree))
  BY <1>1, <1>3, TreeSpans, SubsetSpans
<1>5. /\ claimed \in Seq(H!Recorded(tree))
      /\ \A i, j \in 1 .. Len(claimed) : i < j => claimed[i][2] < claimed[j][1]
      /\ \A s \in H!Recorded(tree) : \E j \in 1 .. Len(claimed) : H!Within(s, claimed[j])
  BY <1>1, <1>4, MergedSpans
<1>6. H!Range(order) = {order[i] : i \in 1 .. Len(order)}
  BY <1>2 DEF H!Range
<1>7. Len(order) \in Nat /\ Len(claimed) \in Nat
  BY <1>2, <1>5
<1>8. next \in 1 .. Len(order) + 1 /\ claimAt \in 1 .. Len(claimed) + 1 /\ lastEnd \in Int
  BY <1>1, <1>7
<1>9. 1 .. next - 1 = {} /\ 1 .. claimAt - 1 = {}
  BY <1>1
<1>10. H!HarvestIsOutermost
  <2>1. SubSeq(order, 1, next - 1) = << >>
    BY <1>1, <1>2
  <2>2. H!Range(<< >>) = {}
    BY DEF H!Range
  <2> QED
    BY <1>1, <2>1, <2>2 DEF H!HarvestIsOutermost
<1> QED
  BY <1>1, <1>2, <1>3, <1>5, <1>6, <1>8, <1>9, <1>10 DEF WalkInv

(* The spans of a unit, as numbers. *)
LEMMA NodeSpans ==
  ASSUME WalkInv
  PROVE  /\ \A s \in DOMAIN tree :
              s[1] \in Nat /\ s[2] \in Nat /\ s = <<s[1], s[2]>> /\ s[1] < s[2]
         /\ \A s, r \in DOMAIN tree :
              H!Within(s, r) \/ H!Within(r, s) \/ s[2] < r[1] \/ r[2] < s[1]
         /\ Len(order) \in Nat /\ Len(claimed) \in Nat
         /\ \A i \in 1 .. Len(order) : order[i] \in DOMAIN tree
         /\ \A j \in 1 .. Len(claimed) : claimed[j] \in H!Recorded(tree)
         /\ \A j \in 1 .. Len(claimed) : claimed[j] \in DOMAIN tree
<1>1. tree \in Trees /\ H!Recorded(tree) \subseteq DOMAIN tree
  BY DEF WalkInv
<1>2. Spans(DOMAIN tree)
  BY <1>1, TreeSpans
<1>3. order \in Seq(DOMAIN tree) /\ claimed \in Seq(H!Recorded(tree))
  BY DEF WalkInv
<1>4. \A s \in DOMAIN tree :
        s[1] \in Nat /\ s[2] \in Nat /\ s = <<s[1], s[2]>> /\ s[1] < s[2]
  BY <1>2 DEF Spans
<1>5. \A s, r \in DOMAIN tree :
        H!Within(s, r) \/ H!Within(r, s) \/ s[2] < r[1] \/ r[2] < s[1]
  BY <1>2 DEF Spans
<1>6. Len(order) \in Nat /\ Len(claimed) \in Nat
  BY <1>3
<1>7. \A i \in 1 .. Len(order) : order[i] \in DOMAIN tree
  BY <1>3
<1>8. \A j \in 1 .. Len(claimed) : claimed[j] \in H!Recorded(tree)
  BY <1>3
<1> QED
  BY <1>1, <1>4, <1>5, <1>6, <1>7, <1>8

LEMMA AdvanceStops ==
  ASSUME WalkInv, next <= Len(order)
  PROVE  LET k == H!Advance(order[next])
         IN  /\ k \in claimAt .. Len(claimed) + 1
             /\ \A j \in claimAt .. k - 1 : claimed[j][2] < order[next][1]
             /\ k <= Len(claimed) => claimed[k][2] >= order[next][1]
<1> DEFINE s == order[next]
           Stop(k) == k <= Len(claimed) => claimed[k][2] >= s[1]
           Stops == {k \in claimAt .. Len(claimed) + 1 : Stop(k)}
           Is(k) == /\ \A j \in claimAt .. k - 1 : claimed[j][2] < s[1]
                    /\ k <= Len(claimed) => claimed[k][2] >= s[1]
<1>1. /\ next \in 1 .. Len(order) + 1 /\ claimAt \in 1 .. Len(claimed) + 1
      /\ Len(order) \in Nat /\ Len(claimed) \in Nat
  BY NodeSpans DEF WalkInv
<1>2. next \in 1 .. Len(order)
  BY <1>1
<1>3. s \in DOMAIN tree /\ s[1] \in Nat
  BY <1>2, NodeSpans
<1>4. \A j \in 1 .. Len(claimed) : claimed[j][2] \in Nat
  BY NodeSpans
<1> HIDE DEF s
<1>5. Stops \in SUBSET Nat /\ Len(claimed) + 1 \in Stops
  BY <1>1
<1>6. PICK k \in Stops : \A j \in Stops : k <= j
  BY <1>5, LeastOf
<1>7. k \in claimAt .. Len(claimed) + 1 /\ Stop(k)
  OBVIOUS
<1>8. \A j \in claimAt .. k - 1 : claimed[j][2] < s[1]
  <2> SUFFICES ASSUME NEW j \in claimAt .. k - 1 PROVE claimed[j][2] < s[1]
    OBVIOUS
  <2>1. j \in claimAt .. Len(claimed) + 1 /\ j <= Len(claimed) /\ j \in 1 .. Len(claimed) /\ ~(k <= j)
    BY <1>1, <1>7
  <2>2. j \notin Stops
    BY <1>6, <2>1
  <2>3. ~(claimed[j][2] >= s[1])
    BY <2>1, <2>2
  <2> QED
    BY <1>3, <1>4, <2>1, <2>3
<1>9. Is(k)
  BY <1>7, <1>8
<1> DEFINE a == H!Advance(s)
<1>10. a = CHOOSE j \in claimAt .. Len(claimed) + 1 : Is(j)
  BY DEF H!Advance
<1> HIDE DEF a, Is
<1>11. a \in claimAt .. Len(claimed) + 1 /\ Is(a)
  BY <1>7, <1>9, <1>10
<1> QED
  BY <1>11 DEF a, s, Is

(* What has one merged span in sight knows whether it is inside a recorded one. *)
LEMMA ClaimedIsInside ==
  ASSUME WalkInv, next <= Len(order)
  PROVE  H!Claimed(order[next]) <=> \E t \in H!Recorded(tree) : H!Within(order[next], t)
<1> DEFINE s == order[next]
           k == H!Advance(s)
<1>1. /\ next \in 1 .. Len(order) + 1 /\ claimAt \in 1 .. Len(claimed) + 1
      /\ Len(order) \in Nat /\ Len(claimed) \in Nat
  BY NodeSpans DEF WalkInv
<1>2. next \in 1 .. Len(order)
  BY <1>1
<1>3. s \in DOMAIN tree /\ s[1] \in Nat /\ s[2] \in Nat /\ s[1] < s[2]
  BY <1>2, NodeSpans
<1>4. \A j \in 1 .. Len(claimed) :
        claimed[j] \in H!Recorded(tree) /\ claimed[j][1] \in Nat /\ claimed[j][2] \in Nat
  BY NodeSpans
<1>5. /\ k \in claimAt .. Len(claimed) + 1
      /\ \A j \in claimAt .. k - 1 : claimed[j][2] < s[1]
      /\ k <= Len(claimed) => claimed[k][2] >= s[1]
  BY AdvanceStops
<1>6. \A j \in 1 .. claimAt - 1 : claimed[j][2] < s[1]
  <2>1. next \in next .. Len(order)
    BY <1>1
  <2> QED
    BY <2>1 DEF WalkInv
<1>7. \A i, j \in 1 .. Len(claimed) : i < j => claimed[i][2] < claimed[j][1]
  BY DEF WalkInv
<1>8. \A r \in H!Recorded(tree) : \E j \in 1 .. Len(claimed) : H!Within(r, claimed[j])
  BY DEF WalkInv
<1>9. \A r \in H!Recorded(tree) : r[1] \in Nat /\ r[2] \in Nat
  BY NodeSpans DEF WalkInv
<1>10. H!Claimed(s) <=> k <= Len(claimed) /\ H!Within(s, claimed[k])
  BY DEF H!Claimed
<1> HIDE DEF s, k
<1>11. ASSUME H!Claimed(s) PROVE \E t \in H!Recorded(tree) : H!Within(s, t)
  <2>1. k \in 1 .. Len(claimed)
    BY <1>1, <1>5, <1>10, <1>11
  <2> QED
    BY <1>4, <1>10, <1>11, <2>1
<1>12. ASSUME NEW t \in H!Recorded(tree), H!Within(s, t) PROVE H!Claimed(s)
  <2>1. PICK j \in 1 .. Len(claimed) : H!Within(t, claimed[j])
    BY <1>8
  <2>2. H!Within(s, claimed[j])
    BY <1>3, <1>4, <1>9, <1>12, <2>1 DEF H!Within
  <2>3. s[1] < claimed[j][2] /\ claimed[j][1] <= s[1]
    BY <1>3, <1>4, <2>2 DEF H!Within
  <2>4. ~(claimed[j][2] < s[1]) /\ j \in Nat
    BY <1>3, <1>4, <2>3
  <2>5. ~(j <= claimAt - 1)
    <3>1. j <= claimAt - 1 => j \in 1 .. claimAt - 1
      BY <1>1
    <3> QED
      BY <1>6, <2>4, <3>1
  <2>6. ~(j <= k - 1)
    <3>1. j <= k - 1 => j \in claimAt .. k - 1
      BY <1>1, <1>5, <2>4, <2>5
    <3> QED
      BY <1>5, <2>4, <3>1
  <2>7. k <= j /\ k \in 1 .. Len(claimed)
    BY <1>1, <1>5, <2>6
  <2>8. claimed[k][2] >= s[1]
    BY <1>5, <2>7
  <2>9. ~(k < j)
    <3>1. k < j => claimed[k][2] < claimed[j][1]
      BY <1>7, <2>7
    <3> QED
      BY <1>3, <1>4, <2>3, <2>7, <2>8, <3>1
  <2>10. k = j
    BY <1>1, <1>5, <2>4, <2>7, <2>9
  <2> QED
    BY <1>10, <2>2, <2>7, <2>10
<1>13. H!Claimed(s) <=> \E t \in H!Recorded(tree) : H!Within(s, t)
  BY <1>11, <1>12
<1> QED
  BY <1>13 DEF s

(* A larger builder was passed before what it contains. *)
LEMMA OuterIsPassed ==
  ASSUME WalkInv, next <= Len(order),
         NEW t \in DOMAIN tree, t # order[next], H!Closes(t), H!Within(order[next], t)
  PROVE  order[next][2] <= t[2] /\ t[2] <= lastEnd
<1> DEFINE s == order[next]
<1>1. /\ next \in 1 .. Len(order) + 1 /\ Len(order) \in Nat /\ lastEnd \in Int
  BY NodeSpans DEF WalkInv
<1>2. next \in 1 .. Len(order)
  BY <1>1
<1>3. s \in DOMAIN tree /\ s[1] \in Nat /\ s[2] \in Nat /\ s[1] < s[2]
  BY <1>2, NodeSpans
<1>4. H!Range(order) = {order[i] : i \in 1 .. Len(order)}
  BY DEF WalkInv
<1>7. \A i \in 1 .. Len(order) :
        /\ order[i] \in DOMAIN tree
        /\ order[i][1] \in Nat /\ order[i][2] \in Nat /\ order[i][1] < order[i][2]
        /\ order[i] = <<order[i][1], order[i][2]>>
  BY NodeSpans
<1>8. \A i, j \in 1 .. Len(order) : i < j => H!Before(order[i], order[j])
  BY DEF WalkInv
<1>9. t # s /\ H!Within(s, t)
  OBVIOUS
<1> HIDE DEF s
<1>11. PICK i \in 1 .. Len(order) : t = order[i]
  BY <1>4, <1>9 DEF H!Closes, H!Eligible
<1>12. t[1] \in Nat /\ t[2] \in Nat
  BY <1>7, <1>11
<1>13. t[1] # s[1] \/ t[2] # s[2]
  <2>1. s = <<s[1], s[2]>>
    BY <1>2, <1>7 DEF s
  <2>2. t = <<t[1], t[2]>>
    BY <1>7, <1>11
  <2> QED
    BY <1>9, <2>1, <2>2
<1>14. ~H!Before(s, t)
  BY <1>3, <1>9, <1>12, <1>13 DEF H!Before, H!Within
<1>15. i \in 1 .. next - 1
  <2>1. ~(next < i)
    BY <1>2, <1>8, <1>11, <1>14 DEF s
  <2>2. next # i
    BY <1>9, <1>11 DEF s
  <2> QED
    BY <1>1, <2>1, <2>2
<1>16. t[2] <= lastEnd
  BY <1>9, <1>11, <1>15 DEF WalkInv
<1>17. s[2] <= t[2]
  BY <1>9 DEF H!Within
<1> QED
  BY <1>16, <1>17 DEF s

(* What has the end of the last builder taken knows whether it is inside any. *)
LEMMA OpenIsOutermost ==
  ASSUME WalkInv, next <= Len(order)
  PROVE  H!Open(order[next]) <=>
           /\ H!Eligible(order[next])
           /\ \A t \in DOMAIN tree \ {order[next]} : H!Closes(t) => ~H!Within(order[next], t)
<1> DEFINE s == order[next]
<1>1. /\ next \in 1 .. Len(order) + 1 /\ Len(order) \in Nat /\ lastEnd \in Int
  BY NodeSpans DEF WalkInv
<1>2. next \in 1 .. Len(order)
  BY <1>1
<1>3. s \in DOMAIN tree /\ s[1] \in Nat /\ s[2] \in Nat /\ s[1] < s[2]
  BY <1>2, NodeSpans
<1>4. H!Range(order) = {order[i] : i \in 1 .. Len(order)}
  BY DEF WalkInv
<1>5. H!Eligible(s) <=> H!Builder(s) /\ ~H!Claimed(s)
  BY <1>2, <1>4, ClaimedIsInside DEF H!Eligible
<1>6. H!Open(s) <=> H!Eligible(s) /\ s[1] >= lastEnd
  BY <1>5 DEF H!Open
<1>7. \A i \in 1 .. Len(order) :
        /\ order[i] \in DOMAIN tree
        /\ order[i][1] \in Nat /\ order[i][2] \in Nat /\ order[i][1] < order[i][2]
        /\ order[i] = <<order[i][1], order[i][2]>>
  BY NodeSpans
<1>8. \A i, j \in 1 .. Len(order) : i < j => H!Before(order[i], order[j])
  BY DEF WalkInv
<1> HIDE DEF s
<1>9. ASSUME s[1] >= lastEnd, NEW t \in DOMAIN tree, t # s, H!Closes(t), H!Within(s, t)
      PROVE  FALSE
  <2>1. s[2] <= t[2] /\ t[2] <= lastEnd /\ t[2] \in Nat
    BY <1>9, OuterIsPassed, NodeSpans DEF s
  <2> QED
    BY <1>1, <1>3, <1>9, <2>1
<1>10. ASSUME \A t \in DOMAIN tree \ {s} : H!Closes(t) => ~H!Within(s, t)
       PROVE  s[1] >= lastEnd
  <2>1. CASE lastEnd = -1
    BY <1>3, <2>1
  <2>2. CASE lastEnd # -1
    <3>1. PICK i \in 1 .. next - 1 : H!Closes(order[i]) /\ order[i][2] = lastEnd
      BY <2>2 DEF WalkInv
    <3> DEFINE t == order[i]
    <3>2. i \in 1 .. Len(order) /\ i < next
      BY <1>1, <1>2
    <3>3. H!Before(t, s)
      BY <1>2, <1>8, <3>2 DEF s
    <3>4. /\ t \in DOMAIN tree /\ t[1] \in Nat /\ t[2] \in Nat /\ t[1] < t[2]
          /\ t[2] = lastEnd /\ H!Closes(t)
      BY <1>7, <3>1, <3>2
    <3> HIDE DEF t
    <3>5. t # s
      BY <1>3, <3>3 DEF H!Before
    <3>6. ~H!Within(s, t)
      BY <1>10, <3>4, <3>5
    <3>7. ~H!Within(t, s) /\ ~(s[2] < t[1])
      BY <1>3, <3>3, <3>4 DEF H!Before, H!Within
    <3>8. t[2] < s[1]
      BY <1>3, <3>4, <3>6, <3>7, NodeSpans
    <3> QED
      BY <1>3, <3>4, <3>8
  <2> QED
    BY <2>1, <2>2
<1>11. H!Open(s) <=> /\ H!Eligible(s)
                     /\ \A t \in DOMAIN tree \ {s} : H!Closes(t) => ~H!Within(s, t)
  BY <1>6, <1>9, <1>10
<1> QED
  BY <1>11 DEF s

Passed(n) == {order[i] : i \in 1 .. n}

LEMMA PassedSoFar ==
  ASSUME WalkInv, NEW n \in 0 .. Len(order)
  PROVE  H!Range(SubSeq(order, 1, n)) = Passed(n)
<1>1. order \in Seq(DOMAIN tree) /\ Len(order) \in Nat
  BY NodeSpans DEF WalkInv
<1>2. n \in Nat /\ n <= Len(order)
  BY <1>1
<1>3. SubSeq(order, 1, n) = [i \in 1 .. n |-> order[i]]
  BY <1>1, <1>2
<1> QED
  BY <1>3 DEF H!Range, Passed

LEMMA PointsWithin ==
  ASSUME NEW n \in Nat, NEW c \in 1 .. n + 1
  PROVE  \A j \in 1 .. c - 1 : j \in 1 .. n
OBVIOUS

LEMMA WalkStep ==
  ASSUME WalkInv, NEW s \in DOMAIN tree, H!PassBy(s) \/ H!Deny(s) \/ H!Harvest(s)
  PROVE  WalkInv'
<1>1. /\ tree' = tree /\ order' = order /\ claimed' = claimed /\ next' = next + 1
      /\ next <= Len(order) /\ s = order[next]
      /\ claimAt' = claimAt \/ claimAt' = H!Advance(s)
  BY DEF H!PassBy, H!Deny, H!Harvest, H!Visit
<1>2. /\ next \in 1 .. Len(order) + 1 /\ claimAt \in 1 .. Len(claimed) + 1
      /\ Len(order) \in Nat /\ Len(claimed) \in Nat /\ lastEnd \in Int
  BY NodeSpans DEF WalkInv
<1>3. next \in 1 .. Len(order) /\ s[1] \in Nat /\ s[2] \in Nat /\ s[1] < s[2]
  BY <1>1, <1>2, NodeSpans
<1>4. \A i \in 1 .. Len(order) : order[i][1] \in Nat /\ order[i][2] \in Nat
  BY NodeSpans
<1>5. \A t : H!Closes(t)' <=> H!Closes(t)
  BY <1>1 DEF H!Closes, H!Eligible, H!Builder
<1>6. \A t : H!Outermost(t)' <=> H!Outermost(t)
  BY <1>1, <1>5 DEF H!Outermost
<1>7. H!Open(s) <=> /\ H!Eligible(s)
                    /\ \A t \in DOMAIN tree \ {s} : H!Closes(t) => ~H!Within(s, t)
  BY <1>1, OpenIsOutermost
<1>8. H!Closes(s) <=> H!Eligible(s) /\ tree[s].text \in {"denied", "route", "api"}
  BY DEF H!Closes
<1>9. H!Outermost(s) <=> H!Open(s) /\ tree[s].text \in {"denied", "route", "api"}
  BY <1>7, <1>8 DEF H!Outermost
<1>10. \A i \in 1 .. next' - 1 : i \in 1 .. next - 1 \/ i = next
  BY <1>1, <1>2
<1>11. next' \in 1 .. Len(order) + 1 /\ 1 .. next - 1 \subseteq 1 .. next' - 1 /\ next \in 1 .. next' - 1
  BY <1>1, <1>2
<1>12. claimAt' \in 1 .. Len(claimed) + 1
  <2>1. H!Advance(s) \in claimAt .. Len(claimed) + 1
    BY <1>1, AdvanceStops
  <2> QED
    BY <1>1, <1>2, <2>1
<1>21. \A j \in 1 .. claimAt' - 1 : j \in 1 .. Len(claimed)
  BY <1>2, <1>12, PointsWithin
<1>13. \A j \in 1 .. claimAt' - 1, i \in next' .. Len(order) : claimed[j][2] < order[i][1]
  <2> SUFFICES ASSUME NEW j \in 1 .. claimAt' - 1, NEW i \in next' .. Len(order)
               PROVE  claimed[j][2] < order[i][1]
    OBVIOUS
  <2>1. i \in next .. Len(order) /\ i \in 1 .. Len(order) /\ next < i
    BY <1>1, <1>2
  <2>2. CASE j \in 1 .. claimAt - 1
    BY <2>1, <2>2 DEF WalkInv
  <2>3. CASE j \notin 1 .. claimAt - 1
    <3>1. claimAt' = H!Advance(s)
      BY <1>1, <2>3
    <3>2. j \in claimAt .. H!Advance(s) - 1
      BY <1>2, <1>12, <2>3, <3>1
    <3>3. claimed[j][2] < s[1]
      BY <1>1, <3>2, AdvanceStops
    <3>4. H!Before(s, order[i])
      BY <1>1, <1>3, <2>1 DEF WalkInv
    <3>5. s[1] <= order[i][1] /\ order[i][1] \in Nat
      BY <1>3, <1>4, <2>1, <3>4 DEF H!Before
    <3>6. claimed[j][2] \in Nat
      <4>1. j \in 1 .. Len(claimed)
        BY <1>21
      <4> QED
        BY <4>1, NodeSpans
    <3> HIDE DEF WalkInv
    <3> QED
      BY <1>3, <3>3, <3>5, <3>6
  <2> QED
    BY <2>2, <2>3
<1>14. \A i \in 1 .. next - 1 : H!Closes(order[i]) => order[i][2] <= lastEnd
  BY DEF WalkInv
<1>15. taken = {t \in Passed(next - 1) : H!Outermost(t) /\ tree[t].text # "denied"}
  <2>1. next - 1 \in 0 .. Len(order)
    BY <1>2
  <2>2. H!Range(SubSeq(order, 1, next - 1)) = Passed(next - 1)
    BY <2>1, PassedSoFar
  <2> QED
    BY <2>2 DEF WalkInv, H!HarvestIsOutermost
<1>16. Passed(next) = Passed(next - 1) \cup {s}
  <2>1. 1 .. next = (1 .. next - 1) \cup {next}
    BY <1>2
  <2> QED
    BY <1>1, <2>1 DEF Passed
<1>17. ASSUME taken' = {t \in Passed(next) : H!Outermost(t) /\ tree[t].text # "denied"}
       PROVE  H!HarvestIsOutermost'
  <2>1. H!Range(SubSeq(order, 1, next)) = Passed(next)
    <3>1. next \in 0 .. Len(order)
      BY <1>1, <1>2
    <3> QED
      BY <3>1, PassedSoFar
  <2>2. next' - 1 = next
    BY <1>1, <1>2
  <2>3. H!Range(SubSeq(order, 1, next' - 1)) = Passed(next)
    BY <2>1, <2>2
  <2> QED
    BY <1>1, <1>6, <1>17, <2>3 DEF H!HarvestIsOutermost
<1>18. ASSUME /\ lastEnd' \in Int
              /\ \A i \in 1 .. next' - 1 : H!Closes(order[i]) => order[i][2] <= lastEnd'
              /\ lastEnd' = -1 \/ \E i \in 1 .. next' - 1 : H!Closes(order[i]) /\ order[i][2] = lastEnd'
              /\ H!HarvestIsOutermost'
       PROVE  WalkInv'
  BY <1>1, <1>5, <1>11, <1>12, <1>13, <1>18 DEF WalkInv
<1>19. CASE H!PassBy(s)
  <2>1. H!Open(s) => tree[s].text \in {"relative", "shapeless"}
    BY <1>19 DEF H!PassBy
  <2>2. lastEnd' = lastEnd /\ taken' = taken
    BY <1>19 DEF H!PassBy
  <2>3. ~H!Outermost(s)
    BY <1>9, <2>1
  <2>4. H!Closes(s) => s[2] <= lastEnd
    <3> SUFFICES ASSUME H!Closes(s) PROVE s[2] <= lastEnd
      OBVIOUS
    <3>1. ~H!Open(s)
      BY <1>8, <2>1
    <3>2. PICK t \in DOMAIN tree \ {s} : H!Closes(t) /\ H!Within(s, t)
      BY <1>7, <1>8, <3>1
    <3>3. s[2] <= t[2] /\ t[2] <= lastEnd /\ t[2] \in Nat
      BY <1>1, <3>2, OuterIsPassed, NodeSpans
    <3> QED
      BY <1>2, <1>3, <3>3
  <2>5. \A i \in 1 .. next' - 1 : H!Closes(order[i]) => order[i][2] <= lastEnd'
    BY <1>1, <1>10, <1>14, <2>2, <2>4
  <2>6. lastEnd' = -1 \/ \E i \in 1 .. next' - 1 : H!Closes(order[i]) /\ order[i][2] = lastEnd'
    BY <1>11, <2>2 DEF WalkInv
  <2>7. H!HarvestIsOutermost'
    BY <1>15, <1>16, <1>17, <2>2, <2>3
  <2> QED
    BY <1>2, <1>18, <2>2, <2>5, <2>6, <2>7
<1>20. CASE H!Deny(s) \/ H!Harvest(s)
  <2>1. H!Open(s) /\ lastEnd' = s[2] /\ tree[s].text \in {"denied", "route", "api"}
    BY <1>20 DEF H!Deny, H!Harvest
  <2>2. H!Closes(s) /\ H!Outermost(s)
    BY <1>9, <2>1 DEF H!Outermost
  <2>3. s[1] >= lastEnd
    BY <2>1 DEF H!Open
  <2>4. \A i \in 1 .. next' - 1 : H!Closes(order[i]) => order[i][2] <= lastEnd'
    <3> SUFFICES ASSUME NEW i \in 1 .. next' - 1, H!Closes(order[i])
                 PROVE  order[i][2] <= lastEnd'
      OBVIOUS
    <3>1. CASE i = next
      BY <1>1, <1>3, <2>1, <3>1
    <3>2. CASE i \in 1 .. next - 1
      <4>1. order[i][2] <= lastEnd
        BY <1>14, <3>2
      <4>2. i \in 1 .. Len(order)
        BY <1>2, <3>2
      <4>3. order[i][2] \in Nat
        BY <1>4, <4>2
      <4> QED
        BY <1>2, <1>3, <2>1, <2>3, <4>1, <4>3
    <3> QED
      BY <1>10, <3>1, <3>2
  <2>5. \E i \in 1 .. next' - 1 : H!Closes(order[i]) /\ order[i][2] = lastEnd'
    BY <1>1, <1>11, <2>1, <2>2
  <2>6. CASE H!Deny(s)
    <3>1. taken' = taken /\ tree[s].text = "denied"
      BY <2>6 DEF H!Deny
    <3>2. H!HarvestIsOutermost'
      BY <1>15, <1>16, <1>17, <3>1
    <3> QED
      BY <1>3, <1>18, <2>1, <2>4, <2>5, <3>2
  <2>7. CASE H!Harvest(s)
    <3>1. taken' = taken \cup {s} /\ tree[s].text # "denied"
      BY <2>7 DEF H!Harvest
    <3>2. H!HarvestIsOutermost'
      BY <1>15, <1>16, <1>17, <2>2, <3>1
    <3> QED
      BY <1>3, <1>18, <2>1, <2>4, <2>5, <3>2
  <2> QED
    BY <1>20, <2>6, <2>7
<1> QED
  BY <1>19, <1>20

LEMMA RoutesInductive == H!Init /\ [][H!Next]_routesVars => []WalkInv
<1>1. WalkInv /\ [H!Next]_routesVars => WalkInv'
  <2> SUFFICES ASSUME WalkInv, [H!Next]_routesVars PROVE WalkInv'
    OBVIOUS
  <2>1. CASE H!Next
    BY <2>1, WalkStep DEF H!Next
  <2>2. CASE UNCHANGED routesVars
    <3>1. /\ tree' = tree /\ order' = order /\ claimed' = claimed /\ next' = next
          /\ claimAt' = claimAt /\ lastEnd' = lastEnd /\ taken' = taken
      BY <2>2 DEF routesVars
    <3>2. \A t : H!Closes(t)' <=> H!Closes(t)
      BY <3>1 DEF H!Closes, H!Eligible, H!Builder
    <3>3. \A t : H!Outermost(t)' <=> H!Outermost(t)
      BY <3>1, <3>2 DEF H!Outermost
    <3>4. H!HarvestIsOutermost'
      BY <3>1, <3>3 DEF WalkInv, H!HarvestIsOutermost
    <3> QED
      BY <3>1, <3>2, <3>4 DEF WalkInv
  <2> QED
    BY <2>1, <2>2
<1> QED
  BY WalkInit, <1>1, PTL

LEMMA RoutesAreOutermost == WalkInv => H!HarvestIsOutermost
BY DEF WalkInv

-----------------------------------------------------------------------------
(* Identities: what each sighting of a call site is stored under.          *)
KeysFrom(site, version) ==
  {F!EndpointKey(site, version)} \cup {entry[1] : entry \in F!ParamRows(site, version)}

(* A site that any row names has all of its rows, and there are no others. *)
RowsFrom(recordedRows, sites, version) ==
  /\ DOMAIN recordedRows \subseteq UNION {KeysFrom(site, version) : site \in sites}
  /\ \A k \in DOMAIN recordedRows : \A site \in sites :
       site.id \in recordedRows[k].sites => KeysFrom(site, version) \subseteq DOMAIN recordedRows

NextBuild == {F!Rebuilt(site) : site \in code}

IdentityInv ==
  /\ code \in Codes /\ build \in Builds /\ oldest \in {2, 3}
  /\ RowsFrom(base, code, oldest)
  /\ RowsFrom(run, NextBuild, 3)

SiteOK(site) ==
  /\ DOMAIN site = {"id", "lane", "method", "path", "keys", "kind", "auth"}
  /\ Len(site.path) \in Nat /\ DOMAIN site.path = 1 .. Len(site.path)
  /\ \A i \in DOMAIN site.path : DOMAIN site.path[i] = {"k", "n"}

LEMMA SitesAre ==
  ASSUME code \in Codes
  PROVE  /\ \A site \in code : SiteOK(site)
         /\ \A site, other \in code : other.id = site.id => other = site
BY RecordsAssumption DEF F!IdentityConstantsOK, SiteOK

(* Each row that a sighting gives names its site, and no other.             *)
LEMMA EntriesNameTheirSite ==
  ASSUME NEW site, NEW version,
         NEW entry \in {<<F!EndpointKey(site, version), F!Sighted(site, version)>>}
                         \cup F!ParamRows(site, version)
  PROVE  entry[2].sites = {site.id}
<1>1. F!Sighted(site, version).sites = {site.id}
  BY DEF F!Sighted
<1>2. ASSUME NEW evidence PROVE F!SightedParam(site, evidence).sites = {site.id}
  BY DEF F!SightedParam
<1>3. CASE entry = <<F!EndpointKey(site, version), F!Sighted(site, version)>>
  BY <1>1, <1>3
<1>4. CASE entry \in F!ParamRows(site, version)
  <2>1. \E k, evidence : entry = <<k, F!SightedParam(site, evidence)>>
    BY <1>4 DEF F!ParamRows
  <2> QED
    BY <1>2, <2>1
<1> QED
  BY <1>3, <1>4

(* Recording a site keeps what was stored and adds the site's rows.         *)
LEMMA RecordingAdds ==
  ASSUME NEW recordedRows, NEW site, NEW version
  PROVE  /\ DOMAIN F!RecordSite(recordedRows, site, version) = DOMAIN recordedRows \cup KeysFrom(site, version)
         /\ \A k \in DOMAIN F!RecordSite(recordedRows, site, version) :
              F!RecordSite(recordedRows, site, version)[k].sites \subseteq
                {site.id} \cup (IF k \in DOMAIN recordedRows THEN recordedRows[k].sites ELSE {})
<1> DEFINE entries == {<<F!EndpointKey(site, version), F!Sighted(site, version)>>}
                        \cup F!ParamRows(site, version)
           Given(k) == (CHOOSE entry \in entries : entry[1] = k)[2]
           new == F!RecordSite(recordedRows, site, version)
<1>1. {entry[1] : entry \in entries} = KeysFrom(site, version)
  <2> DEFINE first == <<F!EndpointKey(site, version), F!Sighted(site, version)>>
  <2>1. first[1] = F!EndpointKey(site, version)
    OBVIOUS
  <2>2. entries = {first} \cup F!ParamRows(site, version)
    OBVIOUS
  <2> HIDE DEF first, entries
  <2> QED
    BY <2>1, <2>2 DEF KeysFrom
<1>2. new = [k \in DOMAIN recordedRows \cup KeysFrom(site, version) |->
         IF k \notin KeysFrom(site, version) THEN recordedRows[k]
         ELSE IF k \in DOMAIN recordedRows THEN F!Merge(recordedRows[k], Given(k)) ELSE Given(k)]
  BY <1>1 DEF F!RecordSite, F!Recorded
<1>3. ASSUME NEW k \in KeysFrom(site, version) PROVE Given(k).sites = {site.id}
  <2>1. \E entry \in entries : entry[1] = k
    BY <1>1
  <2>2. (CHOOSE entry \in entries : entry[1] = k) \in entries
    BY <2>1
  <2> QED
    BY <2>2, EntriesNameTheirSite
<1>4. ASSUME NEW old, NEW given PROVE F!Merge(old, given).sites = old.sites \cup given.sites
  BY DEF F!Merge
<1>5. ASSUME NEW k \in DOMAIN new
      PROVE  new[k].sites \subseteq {site.id} \cup (IF k \in DOMAIN recordedRows THEN recordedRows[k].sites ELSE {})
  <2> HIDE DEF Given, entries
  <2>1. CASE k \notin KeysFrom(site, version)
    BY <1>2, <2>1
  <2>2. CASE k \in KeysFrom(site, version) /\ k \in DOMAIN recordedRows
    <3>1. new[k] = F!Merge(recordedRows[k], Given(k))
      BY <1>2, <2>2
    <3>2. new[k].sites = recordedRows[k].sites \cup Given(k).sites
      BY <1>4, <3>1
    <3> QED
      BY <1>3, <2>2, <3>2
  <2>3. CASE k \in KeysFrom(site, version) /\ k \notin DOMAIN recordedRows
    BY <1>2, <1>3, <2>3
  <2> QED
    BY <2>1, <2>2, <2>3
<1> QED
  BY <1>2, <1>5

LEMMA RecordingKeepsRows ==
  ASSUME NEW recordedRows, NEW sites, NEW version, NEW site \in sites,
         RowsFrom(recordedRows, sites, version), \A other \in sites : other.id = site.id => other = site
  PROVE  RowsFrom(F!RecordSite(recordedRows, site, version), sites, version)
<1> DEFINE new == F!RecordSite(recordedRows, site, version)
<1>1. /\ DOMAIN new = DOMAIN recordedRows \cup KeysFrom(site, version)
      /\ \A k \in DOMAIN new : new[k].sites \subseteq
           {site.id} \cup (IF k \in DOMAIN recordedRows THEN recordedRows[k].sites ELSE {})
  BY RecordingAdds
<1> HIDE DEF new
<1>2. DOMAIN new \subseteq UNION {KeysFrom(s, version) : s \in sites}
  BY <1>1 DEF RowsFrom
<1>3. ASSUME NEW k \in DOMAIN new, NEW other \in sites, other.id \in new[k].sites
      PROVE  KeysFrom(other, version) \subseteq DOMAIN new
  <2>1. CASE other.id = site.id
    BY <1>1, <2>1
  <2>2. CASE other.id # site.id
    <3>1. k \in DOMAIN recordedRows /\ other.id \in recordedRows[k].sites
      BY <1>1, <1>3, <2>2
    <3> QED
      BY <1>1, <3>1 DEF RowsFrom
  <2> QED
    BY <2>1, <2>2
<1>4. RowsFrom(new, sites, version)
  BY <1>2, <1>3 DEF RowsFrom
<1> QED
  BY <1>4 DEF new

LEMMA BuildStays == code' = code /\ build' = build => NextBuild' = NextBuild
BY DEF NextBuild, F!Rebuilt, F!Renamed

LEMMA IdentityKeeps == IdentityInv /\ [F!Next]_identityVars => IdentityInv'
<1> SUFFICES ASSUME IdentityInv, [F!Next]_identityVars PROVE IdentityInv'
  OBVIOUS
<1>1. CASE UNCHANGED identityVars
  BY <1>1, BuildStays DEF IdentityInv, identityVars
<1>2. CASE F!Next
  <2>1. PICK site \in code : F!AnalyzeBase(site) \/ F!AnalyzeRun(site)
    BY <1>2 DEF F!Next
  <2>2. \A other \in code : other.id = site.id => other = site
    BY SitesAre DEF IdentityInv
  <2>3. CASE F!AnalyzeBase(site)
    <3>1. RowsFrom(base', code, oldest)
      BY <2>2, <2>3, RecordingKeepsRows DEF IdentityInv, F!AnalyzeBase
    <3> QED
      BY <2>3, <3>1, BuildStays DEF IdentityInv, F!AnalyzeBase
  <2>4. CASE F!AnalyzeRun(site)
    <3>1. ASSUME NEW s \in code PROVE F!Rebuilt(s).id = s.id
      BY SitesAre DEF IdentityInv, SiteOK, F!Rebuilt
    <3>2. F!Rebuilt(site) \in NextBuild
      BY DEF NextBuild
    <3>3. \A other \in NextBuild : other.id = F!Rebuilt(site).id => other = F!Rebuilt(site)
      BY <2>2, <3>1 DEF NextBuild
    <3>4. run' = F!RecordSite(run, F!Rebuilt(site), 3) /\ UNCHANGED <<code, build, oldest, base>>
      BY <2>4 DEF F!AnalyzeRun, F!Current
    <3>5. RowsFrom(run', NextBuild, 3)
      BY <3>2, <3>3, <3>4, RecordingKeepsRows DEF IdentityInv
    <3> QED
      BY <3>4, <3>5, BuildStays DEF IdentityInv
  <2> QED
    BY <2>1, <2>3, <2>4
<1> QED
  BY <1>1, <1>2

LEMMA IdentityInductive == F!Init /\ [][F!Next]_identityVars => []IdentityInv
<1>1. F!Init => IdentityInv
  BY DEF F!Init, F!Versions, IdentityInv, RowsFrom
<1> QED
  BY <1>1, IdentityKeeps, PTL
-----------------------------------------------------------------------------
(* A whole placeholder of a positional site is a parameter, whatever its name
   is; so the next build of the code has the same keys.                     *)
LEMMA NamesAreNoIdentity ==
  ASSUME NEW site, SiteOK(site), F!Positional(site)
  PROVE  LET other == F!Rebuilt(site) IN
         /\ F!TypeOf(other) = F!TypeOf(site) /\ other.method = site.method /\ other.keys = site.keys
         /\ F!Normalized(other) = F!Normalized(site) /\ F!Params(other) = F!Params(site)
<1> DEFINE other == F!Rebuilt(site)
           holders == site.lane = "suspected"
<1>1. /\ other.lane = site.lane /\ other.method = site.method /\ other.keys = site.keys
      /\ other.path = [i \in DOMAIN site.path |-> F!Renamed(site.path[i])]
  BY DEF F!Rebuilt, SiteOK
<1>2. ASSUME NEW i \in DOMAIN site.path
      PROVE  /\ other.path[i].k = site.path[i].k
             /\ site.path[i].k # "var" => other.path[i] = site.path[i]
  BY <1>1 DEF F!Renamed, SiteOK, F!Positional
<1>3. ASSUME NEW i \in DOMAIN site.path
      PROVE  /\ F!WholePlaceholder(other.path[i], holders) = F!WholePlaceholder(site.path[i], holders)
             /\ F!Shape(other.path[i], holders) = F!Shape(site.path[i], holders)
  BY <1>2 DEF F!WholePlaceholder, F!Shape, F!TemplateSegment
<1>4. DOMAIN other.path = DOMAIN site.path
  BY <1>1
<1> HIDE DEF other
<1>5. ASSUME NEW i \in DOMAIN site.path
      PROVE  F!PositionalSegment(other.path, holders, i) = F!PositionalSegment(site.path, holders, i)
  <2>1. \A j \in 1 .. i - 1 : j \in DOMAIN site.path
    BY DEF SiteOK
  <2>2. CASE F!WholePlaceholder(site.path[i], holders)
    BY <1>3, <2>1, <2>2 DEF F!PositionalSegment
  <2>3. CASE ~F!WholePlaceholder(site.path[i], holders)
    <3>1. other.path[i] = site.path[i]
      BY <1>2, <2>3 DEF F!WholePlaceholder
    <3> QED
      BY <1>3, <2>3, <3>1 DEF F!PositionalSegment
  <2> QED
    BY <2>2, <2>3
<1>6. ASSUME NEW i \in DOMAIN site.path, site.path[i].k = "var"
      PROVE  F!WholePlaceholder(site.path[i], holders) /\ F!PositionalSegment(site.path, holders, i)
  <2>1. PICK j \in 1 .. i - 1 :
          F!TemplateSegment(site.path[j]) \notin F!ValueTemplates /\ site.path[j].k \notin {"var", "expr", "holder"}
    BY <1>6 DEF F!Positional
  <2> QED
    BY <1>6, <2>1 DEF F!WholePlaceholder, F!PositionalSegment, F!Shape
<1>7. F!TemplatizePath(other.path, holders) = F!TemplatizePath(site.path, holders)
  <2>1. ASSUME NEW i \in DOMAIN site.path
        PROVE  F!TemplatizePath(other.path, holders)[i] = F!TemplatizePath(site.path, holders)[i]
    <3>1. CASE site.path[i].k = "var"
      BY <1>3, <1>4, <1>5, <1>6, <3>1 DEF F!TemplatizePath
    <3>2. CASE site.path[i].k # "var"
      BY <1>2, <1>3, <1>4, <1>5, <3>2 DEF F!TemplatizePath
    <3> QED
      BY <3>1, <3>2
  <2> QED
    BY <1>4, <2>1 DEF F!TemplatizePath
<1>8. F!PathParams(other.path, holders) = F!PathParams(site.path, holders)
  BY <1>4, <1>5 DEF F!PathParams
<1>9. F!HasStatic(other.path) = F!HasStatic(site.path)
  BY <1>2, <1>4 DEF F!HasStatic
<1>10. F!TypeOf(other) = F!TypeOf(site)
  BY <1>1, <1>9 DEF F!TypeOf, other
<1> QED
  BY <1>1, <1>7, <1>8, <1>10 DEF other, F!Normalized, F!Params

(* What a positional site is stored under.                                  *)
LEMMA KeysOfSite ==
  ASSUME NEW site, F!TypeOf(site) # "endpoint_unresolved"
  PROVE  /\ F!EndpointKey(site, 3) = F!Key(3, F!TypeOf(site), site.method, F!Normalized(site),
                                           F!QueryKeys(site.keys), F!Nowhere)
         /\ F!EndpointKey(site, 2) = F!Key(2, F!TypeOf(site), site.method, F!V2Path(site.path),
                                           site.keys, F!Nowhere)
         /\ KeysFrom(site, 3) = {F!EndpointKey(site, 3)} \cup
              (IF F!TypeOf(site) # "endpoint" THEN {}
               ELSE {F!Key(3, "param", site.method, F!Normalized(site), {}, F!AtQuery(name)) :
                       name \in F!QueryKeys(site.keys)}
                    \cup {F!Key(3, "param", site.method, F!Normalized(site), {}, F!AtPosition(p)) :
                            p \in {F!Position(F!Params(site), i) : i \in F!Params(site)}})
         /\ KeysFrom(site, 2) = {F!EndpointKey(site, 2)} \cup
              (IF F!TypeOf(site) # "endpoint" THEN {}
               ELSE {F!Key(2, "param", site.method, F!V2Path(site.path), {}, F!AtQuery(name)) :
                       name \in site.keys})
<1>1. /\ F!EndpointKey(site, 3) = F!Key(3, F!TypeOf(site), site.method, F!Normalized(site),
                                        F!QueryKeys(site.keys), F!Nowhere)
      /\ F!EndpointKey(site, 2) = F!Key(2, F!TypeOf(site), site.method, F!V2Path(site.path),
                                        site.keys, F!Nowhere)
  BY DEF F!EndpointKey
<1>2. F!EndpointKey(site, 3).path = F!Normalized(site) /\ F!EndpointKey(site, 2).path = F!V2Path(site.path)
  BY <1>1 DEF F!Key
<1>3. DOMAIN F!Evidence(site) = {F!Position(F!Params(site), i) : i \in F!Params(site)}
  BY DEF F!Evidence
<1>4. CASE F!TypeOf(site) # "endpoint"
  <2>1. F!ParamRows(site, 3) = {} /\ F!ParamRows(site, 2) = {}
    BY <1>4 DEF F!ParamRows
  <2> QED
    BY <1>1, <1>4, <2>1 DEF KeysFrom
<1>5. CASE F!TypeOf(site) = "endpoint"
  <2> DEFINE Row3(name) == <<F!ParamKey(site, 3, F!AtQuery(name)), F!SightedParam(site, << >>)>>
             Row2(name) == <<F!ParamKey(site, 2, F!AtQuery(name)), F!SightedParam(site, << >>)>>
             At(p) == <<F!ParamKey(site, 3, F!AtPosition(p)),
                        F!SightedParam(site, [q \in {1} |-> [names |-> F!Evidence(site)[p].names,
                                                             integer |-> FALSE]])>>
  <2>1. /\ F!ParamRows(site, 3) = {Row3(name) : name \in F!QueryKeys(site.keys)}
                                    \cup {At(p) : p \in DOMAIN F!Evidence(site)}
        /\ F!ParamRows(site, 2) = {Row2(name) : name \in site.keys} \cup {At(p) : p \in {}}
    BY <1>5 DEF F!ParamRows
  <2>2. ASSUME NEW place
        PROVE  /\ F!ParamKey(site, 3, place) = F!Key(3, "param", site.method, F!Normalized(site), {}, place)
               /\ F!ParamKey(site, 2, place) = F!Key(2, "param", site.method, F!V2Path(site.path), {}, place)
    BY <1>2 DEF F!ParamKey
  <2>3. /\ \A name : Row3(name)[1] = F!ParamKey(site, 3, F!AtQuery(name))
        /\ \A name : Row2(name)[1] = F!ParamKey(site, 2, F!AtQuery(name))
        /\ \A p : At(p)[1] = F!ParamKey(site, 3, F!AtPosition(p))
    OBVIOUS
  <2> HIDE DEF Row3, Row2, At
  <2>4. {entry[1] : entry \in F!ParamRows(site, 3)} =
          {F!ParamKey(site, 3, F!AtQuery(name)) : name \in F!QueryKeys(site.keys)}
            \cup {F!ParamKey(site, 3, F!AtPosition(p)) : p \in DOMAIN F!Evidence(site)}
    BY <2>1, <2>3
  <2>5. {entry[1] : entry \in F!ParamRows(site, 2)} =
          {F!ParamKey(site, 2, F!AtQuery(name)) : name \in site.keys}
    BY <2>1, <2>3
  <2> QED
    BY <1>1, <1>3, <1>5, <2>2, <2>4, <2>5 DEF KeysFrom
<1> QED
  BY <1>4, <1>5

(* What v2 stored, rewritten, is what is stored today but for the positions,
   which v2 had not, and the query keys it made up.                         *)
LEMMA RewrittenPath ==
  ASSUME NEW path, NEW holders \in BOOLEAN, \A i \in DOMAIN path : DOMAIN path[i] = {"k", "n"},
         Len(path) \in Nat, DOMAIN path = 1 .. Len(path)
  PROVE  F!TemplatizePath(F!V2Path(path), holders) = F!TemplatizePath(path, holders)
<1> DEFINE older == F!V2Path(path)
<1>1. DOMAIN older = DOMAIN path /\ \A i \in DOMAIN path : older[i] = F!TemplateSegment(path[i])
  BY DEF F!V2Path
<1> HIDE DEF older
<1>2. ASSUME NEW i \in DOMAIN path
      PROVE  /\ F!TemplateSegment(older[i]) = F!TemplateSegment(path[i])
             /\ F!WholePlaceholder(older[i], holders) <=> F!WholePlaceholder(path[i], holders)
             /\ F!Shape(older[i], holders) <=> F!Shape(path[i], holders)
  <2>1. CASE path[i].k = "int"
    <3>1. F!TemplateSegment(path[i]) = F!Token("id") /\ older[i] = F!Token("id")
      BY <1>1, <2>1 DEF F!TemplateSegment
    <3>2. F!TemplateSegment(older[i]) = F!Token("id")
      BY <3>1 DEF F!TemplateSegment, F!Token
    <3>3. ~F!WholePlaceholder(older[i], holders)
      <4>1. F!Token("id").k = "id"
        BY DEF F!Token
      <4>2. older[i].k = "id"
        BY <3>1, <4>1
      <4> QED
        BY <4>2 DEF F!WholePlaceholder
    <3>4. ~F!WholePlaceholder(path[i], holders)
      BY <2>1 DEF F!WholePlaceholder
    <3> QED
      BY <3>1, <3>2, <3>3, <3>4 DEF F!Shape
  <2>2. CASE path[i].k # "int"
    BY <1>1, <2>2 DEF F!TemplateSegment
  <2> QED
    BY <2>1, <2>2
<1>3. ASSUME NEW i \in DOMAIN path
      PROVE  F!PositionalSegment(older, holders, i) <=> F!PositionalSegment(path, holders, i)
  <2>1. \A j \in 1 .. i - 1 : j \in DOMAIN path
    OBVIOUS
  <2> QED
    BY <1>2, <2>1 DEF F!PositionalSegment
<1>4. F!TemplatizePath(older, holders) = F!TemplatizePath(path, holders)
  BY <1>1, <1>2, <1>3 DEF F!TemplatizePath
<1> QED
  BY <1>4 DEF older

LEMMA RewrittenKeys ==
  ASSUME NEW site, SiteOK(site), F!Positional(site)
  PROVE  /\ \A k \in KeysFrom(site, 3) : F!CurrentKey(k) = k
         /\ \A k \in KeysFrom(site, 2) :
              F!CurrentKey(k) \in KeysFrom(site, 3) \/ F!CurrentKey(k).at = F!AtQuery(F!BuiltAtRuntime)
         /\ \A k \in KeysFrom(site, 3) :
              k.at.loc = "path" \/ \E old \in KeysFrom(site, 2) : F!CurrentKey(old) = k
         /\ \E k \in KeysFrom(site, 2) : F!CurrentKey(k) # k
<1> DEFINE type == F!TypeOf(site)
           path == F!Normalized(site)
           older == F!V2Path(site.path)
<1>1. type \in {"endpoint", "endpoint_suspected"} /\ type # "endpoint_unresolved"
  BY DEF F!Positional, F!TypeOf
<1>2. (site.lane = "suspected") = (type = "endpoint_suspected")
  BY <1>1 DEF F!TypeOf
<1>3. F!TemplatizePath(older, type = "endpoint_suspected") = path
  BY <1>2, RewrittenPath DEF SiteOK, F!Normalized
<1>4. type = "endpoint" => F!TemplatizePath(older, FALSE) = path
  BY <1>2, RewrittenPath DEF SiteOK, F!Normalized
<1> HIDE DEF type, path, older
<1>5. ASSUME NEW k, k.v = 3 PROVE F!CurrentKey(k) = k
  BY <1>5 DEF F!CurrentKey, F!Current
<1>6. ASSUME NEW kind, NEW p, NEW query, NEW place
      PROVE  F!Key(3, kind, site.method, p, query, place).v = 3
  BY DEF F!Key
<1>7. F!CurrentKey(F!Key(2, type, site.method, older, site.keys, F!Nowhere))
        = F!Key(3, type, site.method, path, F!QueryKeys(site.keys), F!Nowhere)
  <2> DEFINE key == F!Key(2, type, site.method, older, site.keys, F!Nowhere)
  <2>1. /\ key.type = type /\ key.v = 2 /\ key.method = site.method
        /\ key.path = older /\ key.query = site.keys /\ key.at = F!Nowhere
    BY DEF F!Key
  <2> HIDE DEF key
  <2>2. F!CurrentKey(key) = F!RewriteV2(key)
    BY <2>1 DEF F!CurrentKey, F!Current
  <2>3. F!RewriteV2(key) = F!Key(3, type, site.method, path, F!QueryKeys(site.keys), F!Nowhere)
    BY <1>1, <1>3, <2>1 DEF F!RewriteV2, F!Current
  <2> QED
    BY <2>2, <2>3 DEF key
<1>8. ASSUME type = "endpoint", NEW name, name # F!BuiltAtRuntime
      PROVE  F!CurrentKey(F!Key(2, "param", site.method, older, {}, F!AtQuery(name)))
               = F!Key(3, "param", site.method, path, {}, F!AtQuery(name))
  <2> DEFINE place == F!AtQuery(name)
             key == F!Key(2, "param", site.method, older, {}, place)
  <2>1. place # F!AtQuery(F!BuiltAtRuntime)
    BY <1>8 DEF F!AtQuery
  <2> HIDE DEF place
  <2>2. /\ key.type = "param" /\ key.v = 2 /\ key.method = site.method
        /\ key.path = older /\ key.query = {} /\ key.at = place
    BY DEF F!Key
  <2> HIDE DEF key
  <2>3. F!CurrentKey(key) = F!RewriteV2(key)
    BY <2>2 DEF F!CurrentKey, F!Current
  <2>4. F!RewriteV2(key) = F!Key(3, "param", site.method, path, {}, place)
    BY <1>4, <1>8, <2>1, <2>2 DEF F!RewriteV2, F!Current
  <2> QED
    BY <2>3, <2>4 DEF place, key
<1>9. F!CurrentKey(F!Key(2, "param", site.method, older, {}, F!AtQuery(F!BuiltAtRuntime))).at
        = F!AtQuery(F!BuiltAtRuntime)
  BY DEF F!CurrentKey, F!RewriteV2, F!Key, F!Current
<1>10. \A name : name \in F!QueryKeys(site.keys) <=> name \in site.keys /\ name # F!BuiltAtRuntime
  BY DEF F!QueryKeys
<1>11. \A p : F!Key(3, "param", site.method, path, {}, F!AtPosition(p)).at.loc = "path"
  BY DEF F!Key, F!AtPosition
<1>12. F!Key(2, type, site.method, older, site.keys, F!Nowhere).v = 2
  BY DEF F!Key
<1>13. /\ F!EndpointKey(site, 3) = F!Key(3, type, site.method, path, F!QueryKeys(site.keys), F!Nowhere)
       /\ F!EndpointKey(site, 2) = F!Key(2, type, site.method, older, site.keys, F!Nowhere)
  BY <1>1, KeysOfSite DEF type, path, older
<1>14. KeysFrom(site, 3) = {F!EndpointKey(site, 3)} \cup
         (IF type # "endpoint" THEN {}
          ELSE {F!Key(3, "param", site.method, path, {}, F!AtQuery(name)) : name \in F!QueryKeys(site.keys)}
               \cup {F!Key(3, "param", site.method, path, {}, F!AtPosition(p)) :
                       p \in {F!Position(F!Params(site), i) : i \in F!Params(site)}})
  BY <1>1, KeysOfSite DEF type, path
<1>15. KeysFrom(site, 2) = {F!EndpointKey(site, 2)} \cup
         (IF type # "endpoint" THEN {}
          ELSE {F!Key(2, "param", site.method, older, {}, F!AtQuery(name)) : name \in site.keys})
  BY <1>1, KeysOfSite DEF type, older
<1>16. ASSUME NEW k \in KeysFrom(site, 3) PROVE F!CurrentKey(k) = k
  BY <1>5, <1>6, <1>13, <1>14
<1>17. ASSUME NEW k \in KeysFrom(site, 2)
       PROVE  F!CurrentKey(k) \in KeysFrom(site, 3) \/ F!CurrentKey(k).at = F!AtQuery(F!BuiltAtRuntime)
  <2>1. CASE k = F!EndpointKey(site, 2)
    BY <1>7, <1>13, <1>14, <2>1
  <2>2. CASE k # F!EndpointKey(site, 2)
    <3>1. type = "endpoint"
            /\ \E name \in site.keys : k = F!Key(2, "param", site.method, older, {}, F!AtQuery(name))
      BY <1>15, <2>2
    <3>2. PICK name \in site.keys : k = F!Key(2, "param", site.method, older, {}, F!AtQuery(name))
      BY <3>1
    <3>3. CASE name = F!BuiltAtRuntime
      BY <1>9, <3>2, <3>3
    <3>4. CASE name # F!BuiltAtRuntime
      <4>1. F!CurrentKey(k) = F!Key(3, "param", site.method, path, {}, F!AtQuery(name))
        BY <1>8, <3>1, <3>2, <3>4
      <4>2. name \in F!QueryKeys(site.keys)
        BY <1>10, <3>4
      <4> QED
        BY <1>14, <3>1, <4>1, <4>2
    <3> QED
      BY <3>3, <3>4
  <2> QED
    BY <2>1, <2>2
<1>18. ASSUME NEW k \in KeysFrom(site, 3)
       PROVE  k.at.loc = "path" \/ \E old \in KeysFrom(site, 2) : F!CurrentKey(old) = k
  <2>1. CASE k = F!EndpointKey(site, 3)
    BY <1>7, <1>13, <1>15, <2>1
  <2>2. CASE k # F!EndpointKey(site, 3)
    <3>1. /\ type = "endpoint"
          /\ \/ \E name \in F!QueryKeys(site.keys) :
                   k = F!Key(3, "param", site.method, path, {}, F!AtQuery(name))
             \/ \E p : k = F!Key(3, "param", site.method, path, {}, F!AtPosition(p))
      BY <1>14, <2>2
    <3>2. ASSUME NEW name \in F!QueryKeys(site.keys),
                 k = F!Key(3, "param", site.method, path, {}, F!AtQuery(name))
          PROVE  \E old \in KeysFrom(site, 2) : F!CurrentKey(old) = k
      <4>1. name \in site.keys /\ name # F!BuiltAtRuntime
        BY <1>10
      <4>2. F!Key(2, "param", site.method, older, {}, F!AtQuery(name)) \in KeysFrom(site, 2)
        BY <1>15, <3>1, <4>1
      <4> QED
        BY <1>8, <3>1, <3>2, <4>1, <4>2
    <3> QED
      BY <1>11, <3>1, <3>2
  <2> QED
    BY <2>1, <2>2
<1>19. \E k \in KeysFrom(site, 2) : F!CurrentKey(k) # k
  <2>1. F!CurrentKey(F!EndpointKey(site, 2)).v = 3 /\ F!EndpointKey(site, 2).v = 2
    BY <1>6, <1>7, <1>12, <1>13
  <2> QED
    BY <1>15, <2>1
<1> QED
  BY <1>16, <1>17, <1>18, <1>19

LEMMA SameCodeSameKeys ==
  ASSUME NEW site, SiteOK(site), F!Positional(site)
  PROVE  KeysFrom(F!Rebuilt(site), 3) = KeysFrom(site, 3)
<1>1. F!TypeOf(site) # "endpoint_unresolved" /\ F!TypeOf(F!Rebuilt(site)) # "endpoint_unresolved"
  BY NamesAreNoIdentity DEF F!Positional
<1> QED
  BY <1>1, KeysOfSite, NamesAreNoIdentity

(* A run that names a site has all of its keys.                             *)
LEMMA AllKeys ==
  ASSUME NEW recordedRows, NEW sites, NEW version, RowsFrom(recordedRows, sites, version),
         NEW site \in sites, site.id \in F!SitesOf(recordedRows)
  PROVE  KeysFrom(site, version) \subseteq DOMAIN recordedRows
BY DEF RowsFrom, F!SitesOf

LEMMA NoDiff == IdentityInv => F!SameCodeNoDiff
<1> SUFFICES ASSUME IdentityInv, F!AllOf(base), F!AllOf(run), \A site \in code : F!Positional(site)
             PROVE  /\ F!NewFindings = {}
                    /\ \A k \in F!GoneFindings : k.at = F!AtQuery(F!BuiltAtRuntime)
  BY DEF F!SameCodeNoDiff
<1>1. \A site \in code : SiteOK(site)
  BY SitesAre DEF IdentityInv
<1>2. DOMAIN base = UNION {KeysFrom(site, oldest) : site \in code}
  <2>1. \A site \in code : site.id \in F!SitesOf(base)
    BY DEF F!AllOf
  <2>2. RowsFrom(base, code, oldest)
    BY DEF IdentityInv
  <2>3. \A site \in code : KeysFrom(site, oldest) \subseteq DOMAIN base
    BY <2>1, <2>2, AllKeys
  <2> QED
    BY <2>2, <2>3 DEF RowsFrom
<1>3. DOMAIN run = UNION {KeysFrom(site, 3) : site \in code}
  <2>1. \A site \in code : F!Rebuilt(site).id = site.id
    BY <1>1 DEF SiteOK, F!Rebuilt
  <2>2. \A site \in NextBuild : site.id \in F!SitesOf(run)
    BY <2>1 DEF NextBuild, F!AllOf
  <2>3. RowsFrom(run, NextBuild, 3)
    BY DEF IdentityInv
  <2>4. \A site \in NextBuild : KeysFrom(site, 3) \subseteq DOMAIN run
    BY <2>2, <2>3, AllKeys
  <2>5. DOMAIN run \subseteq UNION {KeysFrom(site, 3) : site \in NextBuild}
    BY <2>3 DEF RowsFrom
  <2> QED
    BY <1>1, <2>4, <2>5, SameCodeSameKeys DEF NextBuild
<1>4. F!KeysOf(run) = DOMAIN run
  BY <1>1, <1>3, RewrittenKeys DEF F!KeysOf
<1>5. CASE oldest = 3
  <2>1. F!KeysOf(base) = DOMAIN base
    BY <1>1, <1>2, <1>5, RewrittenKeys DEF F!KeysOf
  <2> QED
    BY <1>2, <1>3, <1>4, <1>5, <2>1 DEF F!NewFindings, F!GoneFindings
<1>6. CASE oldest = 2
  <2>1. ASSUME NEW k \in F!KeysOf(run) PROVE k.at.loc = "path" \/ k \in F!KeysOf(base)
    <3>1. PICK site \in code : k \in KeysFrom(site, 3)
      BY <1>3, <1>4
    <3>2. k.at.loc = "path" \/ \E old \in KeysFrom(site, 2) : F!CurrentKey(old) = k
      BY <1>1, <3>1, RewrittenKeys
    <3> QED
      BY <1>2, <1>6, <3>2 DEF F!KeysOf
  <2>2. F!KeysOf(run) # {} => F!BaseUpgraded
    <3>1. ASSUME NEW site \in code PROVE \E k \in DOMAIN base : F!CurrentKey(k) # k
      BY <1>1, <1>2, <1>6, RewrittenKeys
    <3> QED
      BY <1>3, <1>4, <3>1 DEF F!BaseUpgraded
  <2>3. ASSUME NEW k \in F!KeysOf(base)
        PROVE  k \in F!KeysOf(run) \/ k.at = F!AtQuery(F!BuiltAtRuntime)
    <3>1. PICK old \in DOMAIN base : k = F!CurrentKey(old)
      BY DEF F!KeysOf
    <3>2. PICK site \in code : old \in KeysFrom(site, 2)
      BY <1>2, <1>6
    <3> QED
      BY <1>1, <1>3, <1>4, <3>1, <3>2, RewrittenKeys
  <2> QED
    BY <2>1, <2>2, <2>3 DEF F!NewFindings, F!GoneFindings, F!Carried
<1> QED
  BY <1>5, <1>6 DEF IdentityInv

-----------------------------------------------------------------------------
(* A step of the composition is one of each part, or leaves that part alone. *)
LEMMA SessionsAlone == [AnyNext]_allVars => [Next]_srvars
<1>1. ASSUME AnyNext PROVE Next \/ UNCHANGED srvars
  BY <1>1 DEF AnyNext, OnlySessionRuns, OnlyFindingIdentity, OnlyPageCapture,
     OnlyPageObservations, OnlyCrossModule, OnlyRouteHarvest, OnlySecretReveal,
     Next
<1> QED
  BY <1>1 DEF allVars

LEMMA PageAlone == [AnyNext]_allVars => [P!Next]_pageVars
<1>1. ASSUME AnyNext PROVE P!Next \/ UNCHANGED pageVars
  BY <1>1 DEF AnyNext, OnlySessionRuns, OnlyFindingIdentity, OnlyPageCapture,
     OnlyPageObservations, OnlyCrossModule, OnlyRouteHarvest, OnlySecretReveal,
     P!Next
<1> QED
  BY <1>1 DEF allVars

LEMMA HookAlone == [AnyNext]_allVars => [O!Next]_observationsVars
<1>1. ASSUME AnyNext PROVE O!Next \/ UNCHANGED observationsVars
  BY <1>1 DEF AnyNext, OnlySessionRuns, OnlyFindingIdentity, OnlyPageCapture,
     OnlyPageObservations, OnlyCrossModule, OnlyRouteHarvest, OnlySecretReveal,
     O!Next
<1> QED
  BY <1>1 DEF allVars

LEMMA RevealAlone == [AnyNext]_allVars => [R!Next]_revealVars
<1>1. ASSUME AnyNext PROVE R!Next \/ UNCHANGED revealVars
  BY <1>1 DEF AnyNext, OnlySessionRuns, OnlyFindingIdentity, OnlyPageCapture,
     OnlyPageObservations, OnlyCrossModule, OnlyRouteHarvest, OnlySecretReveal,
     R!Next
<1> QED
  BY <1>1 DEF allVars

LEMMA RoutesAlone == [AnyNext]_allVars => [H!Next]_routesVars
<1>1. ASSUME AnyNext PROVE H!Next \/ UNCHANGED routesVars
  BY <1>1 DEF AnyNext, OnlySessionRuns, OnlyFindingIdentity, OnlyPageCapture,
     OnlyPageObservations, OnlyCrossModule, OnlyRouteHarvest, OnlySecretReveal,
     H!Next
<1> QED
  BY <1>1 DEF allVars

LEMMA IdentityAlone == [AnyNext]_allVars => [F!Next]_identityVars
<1>1. ASSUME AnyNext PROVE F!Next \/ UNCHANGED identityVars
  BY <1>1 DEF AnyNext, OnlySessionRuns, OnlyFindingIdentity, OnlyPageCapture,
     OnlyPageObservations, OnlyCrossModule, OnlyRouteHarvest, OnlySecretReveal,
     F!Next
<1> QED
  BY <1>1 DEF allVars

\* Whatever is edited, run again or redirected, the fetcher connects only where
\* the authorization of the run's session named, and only to an address that is
\* public; a crawler or a browser, which connects where a page takes it, is out
\* only for such a target, and a script it finds elsewhere is not kept
\* (_resolve_rerun_session, validate_target, _fetch_hops, _revalidate).
THEOREM ScopeIsHeld == (Spec => []OnlyDeclared) /\ (AnySpec => []OnlyDeclared)
<1>1. AnyInit => Init
  BY DEF AnyInit
<1> QED
  BY <1>1, ScopeInductive, SessionsAlone, PTL DEF Spec, AnySpec

\* A committed row never points to bytes that are not there: bytes go in before
\* the row that names them, and out after it (start_run_with_input,
\* delete_session), whatever dies and whoever else is at work.
THEOREM RowsHaveTheirBytes == (Spec => []NoDangling) /\ (AnySpec => []NoDangling)
<1>1. AnyInit => Init
  BY DEF AnyInit
<1> QED
  BY <1>1, BytesInductive, SessionsAlone, PTL DEF Spec, AnySpec

\* When a deletion is over, what bytes are left of its runs are those of a sweep
\* that failed or was interrupted, of a run made after the runs were collected,
\* or of a run somebody was still storing for (delete_session).
THEOREM PurgeLeavesNothing == (Spec => []PurgeComplete) /\ (AnySpec => []PurgeComplete)
<1>1. AnyInit => Init
  BY DEF AnyInit
<1> QED
  BY <1>1, PurgeInductive, SessionsAlone, PTL DEF Spec, AnySpec

\* However the runs of the queue overlap, whatever the user clears or rotates and
\* whenever the worker is torn down, a content the store says was seen was put
\* in the outbox of some session, or its put failed and it was then in memory, to
\* be lost only by a teardown; and what waits in the queue has a timer or a run
\* that will look at it again (processFile, enqueue, processQueue, startNew).
THEOREM WhatIsSeenIsQueued ==
  (P!Spec => []P!SeenIsKept) /\ (AnySpec => []SeenIsKept)
<1>1. P!Init /\ [][P!Next]_pageVars => []P!SeenIsKept
  BY PageInductive, PageKeeps, PTL
<1>2. [P!Next]_(P!pvars) => [P!Next]_pageVars
  BY DEF P!pvars, pageVars
<1>3. P!Spec => []P!SeenIsKept
  BY <1>1, <1>2, PTL DEF P!Spec
<1>4. AnyInit => P!Init
  BY DEF AnyInit
<1>5. P!SeenIsKept => SeenIsKept
  BY DEF SeenIsKept
<1>6. AnySpec => []SeenIsKept
  BY <1>1, <1>4, <1>5, PageAlone, PTL DEF AnySpec
<1> QED
  BY <1>3, <1>6

\* However changes of the settings, new sessions, teardowns and the syncs they
\* ask for interleave, once nothing is on its way the hook is registered on the
\* hosts of the settings, unless the browser refused the last sync
\* (syncResponseBodyHook, applyResponseBodyHook).
THEOREM HookIsInScope ==
  (O!Spec => []O!HookFollowsScope) /\ (AnySpec => []HookFollowsScope)
<1>1. O!Init /\ [][O!Next]_observationsVars => []O!HookFollowsScope
  BY HookInductive, HookFollows, PTL
<1>2. [O!Next]_(O!ovars) => [O!Next]_observationsVars
  BY DEF O!ovars, observationsVars
<1>3. O!Spec => []O!HookFollowsScope
  BY <1>1, <1>2, PTL DEF O!Spec
<1>4. AnyInit => O!Init
  BY DEF AnyInit
<1>5. O!HookFollowsScope => HookFollowsScope
  BY DEF HookFollowsScope
<1>6. AnySpec => []HookFollowsScope
  BY <1>1, <1>4, <1>5, HookAlone, PTL DEF AnySpec
<1> QED
  BY <1>3, <1>6

\* Of any code and originals, what a reveal cuts out of the text it rebuilds is
\* the secret the scan found there; a refusal for its integrity concerns an
\* original that no stored map holds, and one for a missing source a fault
\* (probe/reveal.py against the scan of findings/analyze.py).
THEOREM RevealShowsTheFound ==
  (R!RevealSpec => []R!FoundIsRevealed) /\ (AnySpec => []FoundIsRevealed)
<1>1. R!Init /\ [][R!Next]_revealVars => []R!FoundIsRevealed
  BY RevealInductive, RevealsTheFound, PTL
<1>2. [R!Next]_(R!rvars) => [R!Next]_revealVars
  BY DEF R!rvars, revealVars
<1>3. R!RevealSpec => []R!FoundIsRevealed
  BY <1>1, <1>2, PTL DEF R!RevealSpec
<1>4. AnyInit => R!Init
  BY DEF AnyInit
<1>5. R!FoundIsRevealed => FoundIsRevealed
  BY DEF FoundIsRevealed
<1>6. AnySpec => []FoundIsRevealed
  BY <1>1, <1>4, <1>5, RevealAlone, PTL DEF AnySpec
<1> QED
  BY <1>3, <1>6

\* Of any unit whose nodes nest or are apart, the URLs harvested are the builders
\* outside each recorded sink that are part of no larger builder, although the
\* walk keeps no more than a pointer and an end (_harvest_routes).
THEOREM HarvestIsTheOutermost ==
  (H!Spec => []H!HarvestIsOutermost) /\ (AnySpec => []HarvestIsOutermost)
<1>1. H!Init /\ [][H!Next]_routesVars => []H!HarvestIsOutermost
  BY RoutesInductive, RoutesAreOutermost, PTL
<1>2. [H!Next]_(H!hvars) => [H!Next]_routesVars
  BY DEF H!hvars, routesVars
<1>3. H!Spec => []H!HarvestIsOutermost
  BY <1>1, <1>2, PTL DEF H!Spec
<1>4. AnyInit => H!Init
  BY DEF AnyInit
<1>5. H!HarvestIsOutermost => HarvestIsOutermost
  BY DEF HarvestIsOutermost
<1>6. AnySpec => []HarvestIsOutermost
  BY <1>1, <1>4, <1>5, RoutesAlone, PTL DEF AnySpec
<1> QED
  BY <1>3, <1>6

\* Of any code and any build that renames what it will, what was analyzed twice
\* shows nothing new and, but for the query keys v2 made up, nothing gone, when
\* no substitution is part of a value: under one identity or under two, in any
\* order and with any retries (normalize.py, rewrite_v2_value, diff_runs).
THEOREM SameCodeShowsNoDiff ==
  (F!Spec => []F!SameCodeNoDiff) /\ (AnySpec => []SameCodeNoDiff)
<1>1. F!Init /\ [][F!Next]_identityVars => []F!SameCodeNoDiff
  BY IdentityInductive, NoDiff, PTL
<1>2. [F!Next]_(F!ivars) => [F!Next]_identityVars
  BY DEF F!ivars, identityVars
<1>3. F!Spec => []F!SameCodeNoDiff
  BY <1>1, <1>2, PTL DEF F!Spec
<1>4. AnyInit => F!Init
  BY DEF AnyInit
<1>5. F!SameCodeNoDiff => SameCodeNoDiff
  BY DEF SameCodeNoDiff
<1>6. AnySpec => []SameCodeNoDiff
  BY <1>1, <1>4, <1>5, IdentityAlone, PTL DEF AnySpec
<1> QED
  BY <1>3, <1>6
================================================================================
