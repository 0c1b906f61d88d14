---------------------------- MODULE ServicesProofs ----------------------------
(***************************************************************************)
(* The services of the composition Services, one after the other, and then *)
(* every behaviour of it: the bound on guesses of the login limit, the one *)
(* generation at work of the threat model, the finished list of the source *)
(* index and the events a page has of its run.  Each has an inductive      *)
(* invariant of its own; none assumes a bound of the runs.                 *)
(***************************************************************************)
EXTENDS Services, FiniteSetTheorems, SequenceTheorems, WellFoundedInduction, TLAPS

Pcs == {"idle", "verify", "record", "clear"}

\* Counters count, and a request at work has a username.
LimitTypeOK ==
  /\ count \in [Users -> Nat]
  /\ guesses \in [Users -> Nat]
  /\ outages \in Nat
  /\ login \in [Callers -> [pc : Pcs, user : Users \cup {"nobody"}]]
  /\ \A c \in Callers : login[c].pc # "idle" => login[c].user \in Users

\* The requests for a username that are about to do something.
At(pc, u) == {c \in Callers : login[c].pc = pc /\ login[c].user = u}

\* What was tried is counted, about to be, or was lost to a failing call.
Accounted ==
  \A u \in Users : guesses[u] <= count[u] + Cardinality(At("record", u)) + outages

\* What was tried and what may still be is within the bound.
WithinBound ==
  \A u \in Users : MaxAttempts > 0 =>
    guesses[u] + Cardinality(At("verify", u))
      <= MaxAttempts + Cardinality(Callers) - 1 + outages

LimitInv == LimitTypeOK /\ Accounted /\ WithinBound
-----------------------------------------------------------------------------
(* Requests at two places are no more than there are requests. *)
LEMMA Apart ==
  ASSUME IsFiniteSet(Callers), NEW R \in SUBSET Callers, NEW V \in SUBSET Callers,
         R \cap V = {}
  PROVE  /\ Cardinality(R) \in Nat /\ Cardinality(V) \in Nat /\ Cardinality(Callers) \in Nat
         /\ Cardinality(R) + Cardinality(V) <= Cardinality(Callers)
<1>1. IsFiniteSet(R) /\ IsFiniteSet(V)
  BY FS_Subset
<1>2. Cardinality(R \cup V) <= Cardinality(Callers)
  BY FS_Subset
<1>3. Cardinality(R \cup V) = Cardinality(R) + Cardinality(V) - Cardinality(R \cap V)
  BY <1>1, FS_Union
<1>4. Cardinality(R \cap V) = 0
  BY FS_EmptySet
<1>5. Cardinality(R) \in Nat /\ Cardinality(V) \in Nat /\ Cardinality(Callers) \in Nat
  BY <1>1, FS_CardinalityType
<1> QED
  BY <1>2, <1>3, <1>4, <1>5

LEMMA AtFinite ==
  ASSUME IsFiniteSet(Callers), NEW u
  PROVE  /\ Cardinality(At("record", u)) \in Nat
         /\ Cardinality(At("verify", u)) \in Nat
         /\ Cardinality(Callers) \in Nat
         /\ Cardinality(At("record", u)) + Cardinality(At("verify", u)) <= Cardinality(Callers)
<1>1. /\ At("record", u) \in SUBSET Callers /\ At("verify", u) \in SUBSET Callers
      /\ At("record", u) \cap At("verify", u) = {}
  BY DEF At
<1> QED
  BY <1>1, Apart

(* A request that comes to a place raises the number there by one, one that
   leaves it lowers the number by one.                                     *)
LEMMA Comes ==
  ASSUME IsFiniteSet(Callers), NEW S \in SUBSET Callers, NEW c \in Callers
  PROVE  /\ c \notin S => Cardinality(S \cup {c}) = Cardinality(S) + 1
         /\ c \in S => Cardinality(S \ {c}) = Cardinality(S) - 1
BY FS_Subset, FS_AddElement, FS_RemoveElement

(* Where the requests are after one of them has moved. *)
LEMMA Moves ==
  ASSUME NEW c \in Callers, \A d \in Callers \ {c} : login'[d] = login[d], NEW pc, NEW u
  PROVE  /\ login'[c].pc = pc /\ login'[c].user = u => At(pc, u)' = At(pc, u) \cup {c}
         /\ login'[c].pc # pc \/ login'[c].user # u => At(pc, u)' = At(pc, u) \ {c}
BY DEF At
-----------------------------------------------------------------------------
(* Each request keeps the invariant. *)
LEMMA CheckKeeps ==
  ASSUME ConstantsOK, IsFiniteSet(Callers), LimitInv, NEW c \in Callers, NEW u \in Users,
         CheckLimit(c, u)
  PROVE  LimitInv'
<1> DEFINE r == [pc |-> "verify", user |-> u]
<1> USE DEF LimitInv
<1>1. CASE UNCHANGED login
  <2>1. count' = count /\ guesses' = guesses /\ outages' \in Nat /\ outages' >= outages
    BY DEF CheckLimit, RedisFails, LimitTypeOK
  <2>2. \A pc, v : At(pc, v)' = At(pc, v)
    BY <1>1 DEF At
  <2>3. \A v \in Users : guesses[v] \in Nat /\ count[v] \in Nat
    BY DEF LimitTypeOK
  <2> QED
    BY <1>1, <2>1, <2>2, <2>3, AtFinite DEF LimitTypeOK, Accounted, WithinBound, ConstantsOK
<1>2. CASE login' = [login EXCEPT ![c] = r]
  <2>1. count' = count /\ guesses' = guesses /\ outages' \in Nat /\ outages' >= outages
    BY DEF CheckLimit, RedisFails, LimitTypeOK
  <2>2. LimitTypeOK'
    BY <1>2, <2>1 DEF LimitTypeOK, Pcs
  <2>3. c \notin At("verify", u) /\ c \notin At("record", u)
    BY DEF CheckLimit, At
  <2>4. /\ login'[c].pc = "verify" /\ login'[c].user = u
        /\ \A d \in Callers \ {c} : login'[d] = login[d]
    BY <1>2 DEF LimitTypeOK
  <2>5. \A v : At("record", v)' = At("record", v)
    <3> TAKE v
    <3>1. At("record", v)' = At("record", v) \ {c}
      BY <2>4, Moves
    <3> QED
      BY <3>1 DEF At, CheckLimit
  <2>6. \A v : v # u => At("verify", v)' = At("verify", v)
    <3> SUFFICES ASSUME NEW v, v # u PROVE At("verify", v)' = At("verify", v)
      OBVIOUS
    <3>1. At("verify", v)' = At("verify", v) \ {c}
      BY <2>4, Moves
    <3> QED
      BY <3>1 DEF At, CheckLimit
  <2>7. Cardinality(At("verify", u)') = Cardinality(At("verify", u)) + 1
    <3>1. At("verify", u)' = At("verify", u) \cup {c}
      BY <2>4, Moves
    <3> QED
      BY <2>3, <3>1, Comes DEF At
  <2>8. Accounted'
    BY <2>1, <2>5, AtFinite DEF Accounted, LimitTypeOK
  <2>9. WithinBound'
    <3> SUFFICES ASSUME NEW v \in Users, MaxAttempts > 0
                 PROVE  guesses'[v] + Cardinality(At("verify", v)')
                          <= MaxAttempts + Cardinality(Callers) - 1 + outages'
      BY DEF WithinBound
    <3>1. guesses[v] \in Nat /\ count[v] \in Nat /\ MaxAttempts \in Int
      BY DEF LimitTypeOK, ConstantsOK
    <3>2. CASE v # u
      BY <2>1, <2>6, <3>1, <3>2, AtFinite DEF WithinBound, LimitTypeOK
    <3>3. CASE v = u /\ RedisFails
      BY <2>1, <2>7, <3>1, <3>3, AtFinite DEF WithinBound, LimitTypeOK, RedisFails
    <3>4. CASE v = u /\ ~RedisFails
      <4>1. outages' = outages /\ (HoldsOff(count[u], MaxAttempts) => login' = login)
        BY <3>4 DEF CheckLimit
      <4>2. login' # login
        BY <1>2 DEF CheckLimit, LimitTypeOK
      <4>3. count[u] <= MaxAttempts - 1
        BY <4>1, <4>2, <3>1, <3>4 DEF HoldsOff
      <4>4. guesses[u] <= count[u] + Cardinality(At("record", u)) + outages
        BY DEF Accounted
      <4>5. /\ Cardinality(At("record", u)) \in Nat /\ Cardinality(At("verify", u)) \in Nat
            /\ Cardinality(Callers) \in Nat
            /\ Cardinality(At("verify", u)') + Cardinality(At("record", u)) <= Cardinality(Callers)
        <5>1. /\ At("record", u)' \in SUBSET Callers /\ At("verify", u)' \in SUBSET Callers
              /\ At("record", u)' \cap At("verify", u)' = {}
          BY DEF At
        <5>2. Cardinality(At("record", u)') + Cardinality(At("verify", u)') <= Cardinality(Callers)
          BY <5>1, Apart
        <5> QED
          BY <5>2, <2>5, <2>7, AtFinite
      <4> QED
        BY <2>1, <2>7, <3>1, <3>4, <4>1, <4>3, <4>4, <4>5 DEF LimitTypeOK
    <3> QED
      BY <3>2, <3>3, <3>4
  <2> QED
    BY <2>2, <2>8, <2>9
<1> QED
  BY <1>1, <1>2 DEF CheckLimit

LEMMA VerifyKeeps ==
  ASSUME ConstantsOK, IsFiniteSet(Callers), LimitInv, NEW c \in Callers, VerifyPassword(c)
  PROVE  LimitInv'
<1> DEFINE w == login[c].user
<1> USE DEF LimitInv
<1>1. count' = count /\ outages' = outages /\ w \in Users
  BY DEF VerifyPassword, LimitTypeOK
<1>2. /\ login'[c].user = w /\ login'[c].pc \in {"clear", "record"}
      /\ \A d \in Callers \ {c} : login'[d] = login[d]
      /\ login' \in [Callers -> [pc : Pcs, user : Users \cup {"nobody"}]]
      /\ \A u \in Users : guesses'[u] = IF login'[c].pc = "record" /\ u = w THEN guesses[u] + 1
                                        ELSE guesses[u]
      /\ guesses' \in [Users -> Nat]
  BY DEF VerifyPassword, LimitTypeOK, Pcs
<1>3. LimitTypeOK'
  BY <1>1, <1>2 DEF LimitTypeOK
<1>4. \A u \in Users : Cardinality(At("verify", u)') = IF u = w THEN Cardinality(At("verify", u)) - 1
                                                       ELSE Cardinality(At("verify", u))
  <2> TAKE u \in Users
  <2>1. At("verify", u)' = At("verify", u) \ {c}
    BY <1>2, Moves
  <2>2. c \in At("verify", u) <=> u = w
    BY DEF At, VerifyPassword
  <2>3. CASE u = w
    BY <2>1, <2>2, <2>3, Comes DEF At
  <2>4. CASE u # w
    BY <2>1, <2>2, <2>4
  <2> QED
    BY <2>3, <2>4
<1>5. \A u \in Users : Cardinality(At("record", u)') = IF login'[c].pc = "record" /\ u = w
                                                       THEN Cardinality(At("record", u)) + 1
                                                       ELSE Cardinality(At("record", u))
  <2> TAKE u \in Users
  <2>1. c \notin At("record", u)
    BY DEF At, VerifyPassword
  <2>2. CASE login'[c].pc = "record" /\ u = w
    <3>1. At("record", u)' = At("record", u) \cup {c}
      BY <1>2, <2>2, Moves
    <3> QED
      BY <2>1, <2>2, <3>1, Comes DEF At
  <2>3. CASE ~(login'[c].pc = "record" /\ u = w)
    <3>1. At("record", u)' = At("record", u) \ {c}
      BY <1>2, <2>3, Moves
    <3> QED
      BY <2>1, <2>3, <3>1
  <2> QED
    BY <2>2, <2>3
<1>6. \A u \in Users : guesses[u] \in Nat /\ count[u] \in Nat
  BY DEF LimitTypeOK
<1> HIDE DEF w
<1>7. Accounted'
  BY <1>1, <1>2, <1>5, <1>6, AtFinite DEF Accounted, LimitTypeOK
<1>8. WithinBound'
  BY <1>1, <1>2, <1>4, <1>6, AtFinite DEF WithinBound, LimitTypeOK, ConstantsOK
<1> QED
  BY <1>3, <1>7, <1>8

LEMMA RecordKeeps ==
  ASSUME ConstantsOK, IsFiniteSet(Callers), LimitInv, NEW c \in Callers, RecordFailure(c)
  PROVE  LimitInv'
<1> DEFINE w == login[c].user
<1> USE DEF LimitInv
<1>1. guesses' = guesses /\ outages' \in Nat /\ w \in Users
  BY DEF RecordFailure, RedisFails, LimitTypeOK
<1>2. /\ login'[c] = Nobody
      /\ \A d \in Callers \ {c} : login'[d] = login[d]
      /\ login' \in [Callers -> [pc : Pcs, user : Users \cup {"nobody"}]]
      /\ count' \in [Users -> Nat]
      /\ \A u \in Users : count'[u] + outages' >= count[u] + outages + (IF u = w THEN 1 ELSE 0)
      /\ outages' >= outages
  BY DEF RecordFailure, RedisFails, LimitTypeOK, Pcs, Nobody
<1>3. LimitTypeOK'
  BY <1>1, <1>2 DEF LimitTypeOK, Nobody
<1>4. \A u \in Users : Cardinality(At("verify", u)') = Cardinality(At("verify", u))
  <2> TAKE u \in Users
  <2>1. At("verify", u)' = At("verify", u) \ {c}
    BY <1>2, Moves DEF Nobody
  <2> QED
    BY <2>1 DEF At, RecordFailure
<1>5. \A u \in Users : Cardinality(At("record", u)') = IF u = w THEN Cardinality(At("record", u)) - 1
                                                       ELSE Cardinality(At("record", u))
  <2> TAKE u \in Users
  <2>1. At("record", u)' = At("record", u) \ {c}
    BY <1>2, Moves DEF Nobody
  <2>2. c \in At("record", u) <=> u = w
    BY DEF At, RecordFailure
  <2>3. CASE u = w
    BY <2>1, <2>2, <2>3, Comes DEF At
  <2>4. CASE u # w
    BY <2>1, <2>2, <2>4
  <2> QED
    BY <2>3, <2>4
<1>6. \A u \in Users : guesses[u] \in Nat /\ count[u] \in Nat /\ count'[u] \in Nat
  BY <1>2 DEF LimitTypeOK
<1> HIDE DEF w
<1>7. Accounted'
  BY <1>1, <1>2, <1>5, <1>6, AtFinite DEF Accounted, LimitTypeOK
<1>8. WithinBound'
  BY <1>1, <1>2, <1>4, <1>6, AtFinite DEF WithinBound, LimitTypeOK, ConstantsOK
<1> QED
  BY <1>3, <1>7, <1>8

(* The steps that take away from what was tried: nobody comes to a place. *)
LEMMA ForgettingKeeps ==
  ASSUME ConstantsOK, IsFiniteSet(Callers), LimitInv, LimitTypeOK',
         outages' >= outages,
         \A u \in Users : \/ guesses'[u] = 0
                          \/ guesses'[u] = guesses[u] /\ count'[u] = count[u],
         \A u \in Users : At("verify", u)' = At("verify", u) /\ At("record", u)' = At("record", u)
  PROVE  LimitInv'
<1>1. \A u \in Users : guesses[u] \in Nat /\ count[u] \in Nat /\ count'[u] \in Nat /\ outages \in Nat /\ outages' \in Nat
  BY DEF LimitInv, LimitTypeOK
<1>2. Accounted'
  BY <1>1, AtFinite DEF Accounted, LimitInv
<1>3. WithinBound'
  BY <1>1, AtFinite DEF WithinBound, LimitInv, ConstantsOK
<1> QED
  BY <1>2, <1>3 DEF LimitInv
-----------------------------------------------------------------------------
(* Nothing is counted at first, and every step keeps the invariant. *)
LEMMA LimitInductive ==
  ASSUME ConstantsOK, IsFiniteSet(Callers)
  PROVE  Init /\ [][Next]_lvars => []LimitInv
<1>1. Init => LimitInv
  <2> SUFFICES ASSUME Init PROVE LimitInv
    OBVIOUS
  <2>1. LimitTypeOK
    BY DEF Init, LimitTypeOK, Pcs, Nobody
  <2>2. \A u : At("record", u) = {} /\ At("verify", u) = {}
    BY DEF Init, At, Nobody
  <2>3. \A u : Cardinality(At("record", u)) = 0 /\ Cardinality(At("verify", u)) = 0
    BY <2>2, FS_EmptySet
  <2>4. Cardinality(Callers) \in Nat
    BY FS_CardinalityType
  <2> QED
    BY <2>1, <2>3, <2>4 DEF Init, LimitInv, Accounted, WithinBound, ConstantsOK
<1>2. LimitInv /\ [Next]_lvars => LimitInv'
  <2> SUFFICES ASSUME LimitInv, [Next]_lvars PROVE LimitInv'
    OBVIOUS
  <2>1. ASSUME NEW c \in Callers, NEW u \in Users, CheckLimit(c, u) PROVE LimitInv'
    BY <2>1, CheckKeeps
  <2>2. ASSUME NEW c \in Callers, VerifyPassword(c) PROVE LimitInv'
    BY <2>2, VerifyKeeps
  <2>3. ASSUME NEW c \in Callers, RecordFailure(c) PROVE LimitInv'
    BY <2>3, RecordKeeps
  <2>4. ASSUME NEW c \in Callers, ClearFailures(c) PROVE LimitInv'
    <3>1. LimitTypeOK' /\ outages' >= outages
      BY <2>4 DEF ClearFailures, RedisFails, LimitInv, LimitTypeOK, Nobody, Pcs
    <3>2. \A u \in Users : guesses'[u] = 0 \/ (guesses'[u] = guesses[u] /\ count'[u] = count[u])
      BY <2>4 DEF ClearFailures, RedisFails, LimitInv, LimitTypeOK
    <3>3. \A u \in Users : At("verify", u)' = At("verify", u) /\ At("record", u)' = At("record", u)
      BY <2>4 DEF ClearFailures, At, LimitInv, LimitTypeOK, Nobody
    <3> QED
      BY <3>1, <3>2, <3>3, ForgettingKeeps
  <2>5. ASSUME NEW u \in Users, UserWindowPasses(u) PROVE LimitInv'
    <3>1. LimitTypeOK' /\ outages' >= outages
      BY <2>5 DEF UserWindowPasses, LimitInv, LimitTypeOK
    <3>2. \A v \in Users : guesses'[v] = 0 \/ (guesses'[v] = guesses[v] /\ count'[v] = count[v])
      BY <2>5 DEF UserWindowPasses, LimitInv, LimitTypeOK
    <3>3. \A v \in Users : At("verify", v)' = At("verify", v) /\ At("record", v)' = At("record", v)
      BY <2>5 DEF UserWindowPasses, At
    <3> QED
      BY <3>1, <3>2, <3>3, ForgettingKeeps
  <2>6. CASE WindowOfAllPasses \/ UNCHANGED lvars
    <3>1. LimitTypeOK' /\ outages' >= outages
      BY <2>6 DEF WindowOfAllPasses, lvars, LimitInv, LimitTypeOK
    <3>2. \A v \in Users : guesses'[v] = guesses[v] /\ count'[v] = count[v]
      BY <2>6 DEF WindowOfAllPasses, lvars
    <3>3. \A v \in Users : At("verify", v)' = At("verify", v) /\ At("record", v)' = At("record", v)
      BY <2>6 DEF WindowOfAllPasses, lvars, At
    <3> QED
      BY <3>1, <3>2, <3>3, ForgettingKeeps
  <2> QED
    BY <2>1, <2>2, <2>3, <2>4, <2>5, <2>6 DEF Next
<1> QED
  BY <1>1, <1>2, PTL

LEMMA GuessesAreBounded ==
  ASSUME ConstantsOK, IsFiniteSet(Callers)
  PROVE  LimitInv => GuessesBounded
<1> SUFFICES ASSUME LimitInv, NEW u \in Users, MaxAttempts > 0
             PROVE  guesses[u] <= MaxAttempts + Cardinality(Callers) - 1 + outages
  BY DEF GuessesBounded
<1>1. guesses[u] \in Nat /\ outages \in Nat /\ MaxAttempts \in Int
  BY DEF LimitInv, LimitTypeOK, ConstantsOK
<1> QED
  BY <1>1, AtFinite DEF LimitInv, WithinBound
-----------------------------------------------------------------------------
(* The rows and the requests of ThreatModel; a generation at work has a row, *)
(* or had one.                                                               *)
Statuses == {"none", "pending", "running", "done", "failed", "gone"}
Work == {"context", "link", "call", "store", "fail"}
Seen == [status : Statuses, call : Gens \cup {"none"}]
Gen == [pc : Work \cup {"idle", "reset", "queued"}, seen : Seen]
Rows == [status : Statuses, age : BOOLEAN, threats : Gens \cup {"none"}, call : Gens \cup {"none"}]

ThreatsTypeOK ==
  /\ gen \in [Gens -> Gen]
  /\ row \in Rows
  /\ T!Working # {} => row.status # "none"

(* A generation at work is the one that claimed the row last, nothing works  *)
(* on a row that waits to be claimed, and the call that was paid for is the  *)
(* one the row links.  What the row links before is the call of that         *)
(* generation too, unless a flush left it there.                             *)
LastAtWork ==
  /\ T!Working \subseteq {latest}
  /\ ~kept => /\ row.call \in {"none", latest}
              /\ row.status = "pending" => row.call = "none"
  /\ row.status = "pending" => T!Working = {}
  /\ row.status = "done" => row.threats = latest /\ row.call = latest
  /\ \A g \in Gens : gen[g].pc \in {"call", "store"} /\ T!HasRow => row.call = g

ThreatsInv == ThreatsTypeOK /\ (~overrun => LastAtWork)
-----------------------------------------------------------------------------
LEMMA AtRestIsAGen == T!NoGen \in Gen /\ T!NoGen.pc = "idle"
<1>1. T!Read(T!NoRow) = [status |-> "none", call |-> "none"]
  BY DEF T!Read, T!NoRow
<1> QED
  BY <1>1 DEF T!NoGen, Gen, Seen, Statuses

LEMMA ThreatsBegin ==
  ASSUME T!Init
  PROVE  ThreatsInv
<1>1. /\ row = [status |-> "none", age |-> FALSE, threats |-> "none", call |-> "none"]
      /\ gen = [g \in Gens |-> T!NoGen]
  BY DEF T!Init, T!NoRow
<1>2. /\ row \in Rows /\ row.status = "none" /\ row.call = "none"
      /\ gen \in [Gens -> Gen]
      /\ \A g \in Gens : gen[g].pc = "idle"
  BY <1>1, AtRestIsAGen DEF Rows, Statuses
<1>3. T!Working = {}
  BY <1>2 DEF T!Working
<1>4. LastAtWork
  BY <1>2, <1>3 DEF LastAtWork
<1> QED
  BY <1>2, <1>3, <1>4 DEF ThreatsInv, ThreatsTypeOK

(* Who works after one generation has moved. *)
LEMMA WorkingIs ==
  ASSUME NEW g \in Gens, \A h \in Gens \ {g} : gen'[h] = gen[h]
  PROVE  T!Working' = IF gen'[g].pc \in Work THEN T!Working \cup {g} ELSE T!Working \ {g}
BY DEF T!Working, Work

(* A step of a generation that leaves the row alone, and does not take it
   to where the call is made or its results are stored.                    *)
LEMMA StaysInOrder ==
  ASSUME ThreatsTypeOK, NEW g \in Gens, row' = row, latest' = latest, kept' = kept,
         gen' \in [Gens -> Gen], \A h \in Gens \ {g} : gen'[h] = gen[h],
         \/ gen'[g].pc \notin Work
         \/ gen[g].pc \in Work /\ gen'[g].pc \notin {"call", "store"}
         \/ gen[g].pc = "call" /\ gen'[g].pc = "store"
  PROVE  ThreatsTypeOK' /\ (LastAtWork => LastAtWork')
<1>1. T!Working' \subseteq T!Working
  BY WorkingIs DEF T!Working, Work
<1>2. ThreatsTypeOK'
  BY <1>1 DEF ThreatsTypeOK
<1>3. ASSUME LastAtWork, NEW h \in Gens, gen'[h].pc \in {"call", "store"}, T!HasRow
      PROVE  row.call = h
  BY <1>3 DEF LastAtWork, Work
<1>4. LastAtWork => LastAtWork'
  BY <1>1, <1>3 DEF LastAtWork, T!HasRow
<1> QED
  BY <1>2, <1>4

LEMMA ReadsKeeps ==
  ASSUME ThreatsInv, NEW g \in Gens, T!TriggerReads(g)
  PROVE  ThreatsInv'
<1>1. row' = row /\ latest' = latest /\ overrun' = overrun /\ kept' = kept
  BY DEF T!TriggerReads
<1>2. ThreatsTypeOK /\ T!Read(row) \in Seen
  BY DEF ThreatsInv, ThreatsTypeOK, Rows, T!Read, Seen
<1>3. \/ gen' = [gen EXCEPT ![g] = [pc |-> "reset", seen |-> T!Read(row)]]
      \/ gen' = [gen EXCEPT ![g].pc = "queued"]
  BY DEF T!TriggerReads, T!Becomes
<1>4. /\ gen' \in [Gens -> Gen]
      /\ gen'[g].pc \notin Work
      /\ \A h \in Gens \ {g} : gen'[h] = gen[h]
  BY <1>2, <1>3 DEF ThreatsTypeOK, Gen, Rows, Work
<1>5. ThreatsTypeOK' /\ (LastAtWork => LastAtWork')
  BY <1>1, <1>2, <1>4, StaysInOrder
<1> QED
  BY <1>1, <1>5 DEF ThreatsInv

LEMMA WritesKeeps ==
  ASSUME ThreatsInv, NEW g \in Gens, T!TriggerWrites(g)
  PROVE  ThreatsInv'
<1>1. latest' = latest /\ ThreatsTypeOK /\ gen[g].pc = "reset"
  BY DEF T!TriggerWrites, T!At, ThreatsInv
<1>2. CASE /\ T!Becomes(g, "queued")
           /\ \/ row' = [T!NoRow EXCEPT !.status = "pending"]
              \/ row' = T!ResetRow(row, gen[g].seen)
  <2>1. /\ gen' \in [Gens -> Gen]
        /\ gen'[g].pc = "queued"
        /\ \A h \in Gens \ {g} : gen'[h] = gen[h]
    BY <1>1, <1>2 DEF ThreatsTypeOK, T!Becomes, Gen
  <2>2. row' \in Rows /\ row'.status = "pending"
    BY <1>1, <1>2 DEF ThreatsTypeOK, Rows, Statuses, T!NoRow, T!ResetRow
  <2>7. kept' = T!LinkedSince(row, gen[g].seen)
    BY <2>1 DEF T!TriggerWrites
  <2>8. ~kept' => row'.call = "none"
    BY <1>1, <1>2, <2>7 DEF ThreatsTypeOK, Rows, T!NoRow, T!ResetRow, T!LinkedSince
  <2>3. T!Working' = T!Working
    BY <1>1, <2>1, WorkingIs DEF T!Working, Work
  <2>4. ThreatsTypeOK'
    BY <2>1, <2>2 DEF ThreatsTypeOK
  <2>5. T!Working' = {} => LastAtWork'
    BY <2>1, <2>2, <2>8 DEF LastAtWork, T!Working
  <2>6. ~overrun' => T!Working = {}
    BY <2>1 DEF T!TriggerWrites
  <2> QED
    BY <2>3, <2>4, <2>5, <2>6 DEF ThreatsInv
<1>3. CASE T!Ends(g) /\ row' = row
  <2>1. /\ gen' \in [Gens -> Gen]
        /\ gen'[g].pc = "idle"
        /\ \A h \in Gens \ {g} : gen'[h] = gen[h]
    BY <1>1, <1>3, AtRestIsAGen DEF ThreatsTypeOK, T!Ends
  <2>2. overrun' = overrun /\ kept' = kept
    BY <2>1 DEF T!TriggerWrites
  <2>3. ThreatsTypeOK' /\ (LastAtWork => LastAtWork')
    BY <1>1, <1>3, <2>1, <2>2, StaysInOrder DEF Work
  <2> QED
    BY <2>2, <2>3 DEF ThreatsInv
<1> QED
  BY <1>2, <1>3 DEF T!TriggerWrites

LEMMA ClaimKeeps ==
  ASSUME ThreatsInv, NEW g \in Gens, T!ClaimRow(g)
  PROVE  ThreatsInv'
<1>1. ThreatsTypeOK /\ overrun' = overrun /\ kept' = kept /\ gen[g].pc = "queued"
  BY DEF T!ClaimRow, T!At, ThreatsInv
<1>2. CASE T!MayClaim
  <2>1. /\ row' = [row EXCEPT !.status = "running", !.age = FALSE]
        /\ row.status = "pending" /\ latest' = g
        /\ gen' = [gen EXCEPT ![g].pc = "context"]
    BY <1>2 DEF T!ClaimRow, T!MayClaim, T!Becomes
  <2>2. /\ row' \in Rows /\ row'.status = "running" /\ row'.call = row.call
        /\ gen' \in [Gens -> Gen] /\ gen'[g].pc = "context"
        /\ \A h \in Gens \ {g} : gen'[h] = gen[h]
    BY <1>1, <2>1 DEF ThreatsTypeOK, Rows, Gen, Statuses, Work
  <2>3. ThreatsTypeOK'
    BY <2>2 DEF ThreatsTypeOK
  <2>4. ASSUME LastAtWork PROVE LastAtWork'
    <3>1. T!Working = {} /\ (~kept => row.call = "none")
      BY <2>1, <2>4 DEF LastAtWork
    <3>2. T!Working' = {g}
      BY <2>2, <3>1, WorkingIs DEF Work
    <3>3. \A h \in Gens : gen'[h].pc \notin {"call", "store"}
      BY <2>2, <3>1 DEF T!Working
    <3> QED
      BY <1>1, <2>1, <2>2, <3>1, <3>2, <3>3 DEF LastAtWork
  <2> QED
    BY <1>1, <2>3, <2>4 DEF ThreatsInv
<1>3. CASE ~T!MayClaim
  <2>1. row' = row /\ latest' = latest /\ gen' = [gen EXCEPT ![g] = T!NoGen]
    BY <1>3 DEF T!ClaimRow, T!Ends
  <2>2. /\ gen' \in [Gens -> Gen] /\ gen'[g].pc \notin Work
        /\ \A h \in Gens \ {g} : gen'[h] = gen[h]
    BY <1>1, <2>1, AtRestIsAGen DEF ThreatsTypeOK, Work
  <2>3. ThreatsTypeOK' /\ (LastAtWork => LastAtWork')
    BY <1>1, <2>1, <2>2, StaysInOrder
  <2> QED
    BY <1>1, <2>3 DEF ThreatsInv
<1> QED
  BY <1>2, <1>3

(* The steps that only take the generation further. *)
LEMMA GoesOnKeeps ==
  ASSUME ThreatsInv, NEW g \in Gens, T!AssembleContext(g) \/ T!ProviderAnswers(g)
  PROVE  ThreatsInv'
<1>1. row' = row /\ latest' = latest /\ overrun' = overrun /\ kept' = kept /\ ThreatsTypeOK
  BY DEF T!AssembleContext, T!ProviderAnswers, ThreatsInv
<1>2. \/ gen[g].pc = "context" /\ \E pc \in {"link", "fail"} : gen' = [gen EXCEPT ![g].pc = pc]
      \/ gen[g].pc = "call" /\ \E pc \in {"store", "fail"} : gen' = [gen EXCEPT ![g].pc = pc]
  BY DEF T!AssembleContext, T!ProviderAnswers, T!At, T!Becomes
<1>3. /\ gen' \in [Gens -> Gen]
      /\ \A h \in Gens \ {g} : gen'[h] = gen[h]
      /\ \/ gen[g].pc \in Work /\ gen'[g].pc \notin {"call", "store"}
         \/ gen[g].pc = "call" /\ gen'[g].pc = "store"
  BY <1>1, <1>2 DEF ThreatsTypeOK, Gen, Work
<1>4. ThreatsTypeOK' /\ (LastAtWork => LastAtWork')
  BY <1>1, <1>3, StaysInOrder
<1> QED
  BY <1>1, <1>4 DEF ThreatsInv

LEMMA LinkKeeps ==
  ASSUME ThreatsInv, NEW g \in Gens, T!LinkCall(g)
  PROVE  ThreatsInv'
<1>1. /\ latest' = latest /\ overrun' = overrun /\ kept' = kept
      /\ ThreatsTypeOK /\ gen[g].pc = "link"
  BY DEF T!LinkCall, T!At, ThreatsInv
<1>2. gen' = [gen EXCEPT ![g].pc = "call"]
  BY DEF T!LinkCall, T!Becomes
<1>3. row' = IF T!HasRow THEN [row EXCEPT !.call = g] ELSE row
  BY DEF T!LinkCall
<1>4. /\ gen' \in [Gens -> Gen] /\ gen'[g].pc = "call"
      /\ \A h \in Gens \ {g} : gen'[h] = gen[h]
      /\ row' \in Rows /\ row'.status = row.status /\ row'.threats = row.threats
      /\ row'.call = IF T!HasRow THEN g ELSE row.call
  BY <1>1, <1>2, <1>3 DEF ThreatsTypeOK, Gen, Rows, Work
<1>5. g \in T!Working /\ T!Working' = T!Working
  BY <1>1, <1>4, WorkingIs DEF T!Working, Work
<1>6. ThreatsTypeOK'
  BY <1>1, <1>4, <1>5 DEF ThreatsTypeOK
<1>7. ASSUME LastAtWork PROVE LastAtWork'
  <2>1. g = latest /\ T!Working = {g} /\ row.status # "pending"
    BY <1>5, <1>7 DEF LastAtWork
  <2>2. \A h \in Gens : gen'[h].pc \in {"call", "store"} => h = g
    BY <1>4, <2>1 DEF T!Working
  <2>3. T!HasRow' = T!HasRow
    BY <1>4 DEF T!HasRow
  <2>4. ~kept => row'.call \in {"none", latest}
    BY <1>4, <2>1, <1>7 DEF LastAtWork
  <2>5. row'.status = "done" => row'.threats = latest /\ row'.call = latest
    BY <1>4, <2>1, <1>7 DEF LastAtWork
  <2> QED
    BY <1>1, <1>4, <1>5, <2>1, <2>2, <2>3, <2>4, <2>5 DEF LastAtWork
<1> QED
  BY <1>1, <1>6, <1>7 DEF ThreatsInv

LEMMA StoreKeeps ==
  ASSUME ThreatsInv, NEW g \in Gens, T!StoreResults(g) \/ T!SetFailed(g)
  PROVE  ThreatsInv'
<1>1. /\ latest' = latest /\ overrun' = overrun /\ kept' = kept
      /\ ThreatsTypeOK /\ gen[g].pc \in {"store", "fail"}
  BY DEF T!StoreResults, T!SetFailed, T!At, ThreatsInv
<1>2. gen' = [gen EXCEPT ![g] = T!NoGen]
  BY DEF T!StoreResults, T!SetFailed, T!Ends
<1>3. \/ row' = row
      \/ T!HasRow /\ gen[g].pc = "store"
           /\ row' = [row EXCEPT !.status = "done", !.age = FALSE, !.threats = g]
      \/ T!HasRow /\ row' = [row EXCEPT !.status = "failed", !.age = FALSE]
  BY DEF T!StoreResults, T!SetFailed, T!At
<1>4. /\ gen' \in [Gens -> Gen] /\ gen'[g].pc = "idle"
      /\ \A h \in Gens \ {g} : gen'[h] = gen[h]
  BY <1>1, <1>2, AtRestIsAGen DEF ThreatsTypeOK
<1>5. CASE row' = row
  <2>1. ThreatsTypeOK' /\ (LastAtWork => LastAtWork')
    BY <1>1, <1>4, <1>5, StaysInOrder DEF Work
  <2> QED
    BY <1>1, <2>1 DEF ThreatsInv
<1>6. CASE row' # row
  <2>1. /\ row' \in Rows /\ row'.call = row.call /\ T!HasRow
        /\ \/ row'.status = "done" /\ row'.threats = g /\ gen[g].pc = "store"
           \/ row'.status = "failed"
    BY <1>1, <1>3, <1>6 DEF ThreatsTypeOK, Rows, Statuses
  <2>2. ThreatsTypeOK'
    BY <1>4, <2>1 DEF ThreatsTypeOK
  <2>3. g \in T!Working /\ T!Working' = T!Working \ {g}
    BY <1>1, <1>4, WorkingIs DEF T!Working, Work
  <2>4. ASSUME LastAtWork PROVE LastAtWork'
    <3>1. g = latest /\ T!Working' = {}
      BY <2>3, <2>4 DEF LastAtWork
    <3>2. \A h \in Gens : gen'[h].pc \notin {"call", "store"}
      BY <3>1 DEF T!Working
    <3>3. row'.status = "done" => row.call = g
      BY <2>1, <2>4 DEF LastAtWork
    <3> QED
      BY <1>1, <2>1, <2>4, <3>1, <3>2, <3>3 DEF LastAtWork
  <2> QED
    BY <1>1, <2>2, <2>4 DEF ThreatsInv
<1> QED
  BY <1>5, <1>6

(* A restart ends what works; time and a deletion change the row only. *)
LEMMA AccidentsKeep ==
  ASSUME ThreatsInv, T!Restart \/ T!Ages \/ T!DeleteModel
  PROVE  ThreatsInv'
<1>1. latest' = latest /\ overrun' = overrun /\ kept' = kept /\ ThreatsTypeOK
  BY DEF T!Restart, T!Ages, T!DeleteModel, ThreatsInv
<1>2. CASE T!Restart
  <2>1. row' = row /\ gen' = [g \in Gens |-> T!NoGen]
    BY <1>2 DEF T!Restart
  <2>2. gen' \in [Gens -> Gen] /\ \A g \in Gens : gen'[g].pc = "idle"
    BY <2>1, AtRestIsAGen
  <2>3. T!Working' = {}
    BY <2>2 DEF T!Working
  <2>4. ThreatsTypeOK'
    BY <1>1, <2>1, <2>2, <2>3 DEF ThreatsTypeOK
  <2>5. LastAtWork => LastAtWork'
    BY <1>1, <2>1, <2>2, <2>3 DEF LastAtWork
  <2> QED
    BY <1>1, <2>4, <2>5 DEF ThreatsInv
<1>3. CASE T!Ages
  <2>1. gen' = gen /\ row' = [row EXCEPT !.age = TRUE]
    BY <1>3 DEF T!Ages
  <2>2. /\ row' \in Rows /\ row'.status = row.status /\ row'.call = row.call
        /\ row'.threats = row.threats
    BY <1>1, <2>1 DEF ThreatsTypeOK, Rows
  <2>3. T!Working' = T!Working /\ T!HasRow' = T!HasRow
    BY <2>1, <2>2 DEF T!Working, T!HasRow
  <2>4. ThreatsTypeOK'
    BY <1>1, <2>1, <2>2, <2>3 DEF ThreatsTypeOK
  <2>5. LastAtWork => LastAtWork'
    BY <1>1, <2>1, <2>2, <2>3 DEF LastAtWork
  <2> QED
    BY <1>1, <2>4, <2>5 DEF ThreatsInv
<1>4. CASE T!DeleteModel
  <2>1. gen' = gen /\ row' = [status |-> "gone", age |-> FALSE, threats |-> "none", call |-> "none"]
    BY <1>4 DEF T!DeleteModel, T!NoRow
  <2>2. row' \in Rows /\ row'.status = "gone" /\ row'.call = "none" /\ ~T!HasRow'
    BY <2>1 DEF Rows, Statuses, T!HasRow
  <2>3. T!Working' = T!Working
    BY <2>1 DEF T!Working
  <2>4. ThreatsTypeOK'
    BY <1>1, <2>1, <2>2, <2>3 DEF ThreatsTypeOK
  <2>5. LastAtWork => LastAtWork'
    BY <1>1, <2>1, <2>2, <2>3 DEF LastAtWork
  <2> QED
    BY <1>1, <2>4, <2>5 DEF ThreatsInv
<1> QED
  BY <1>2, <1>3, <1>4

LEMMA ThreatsInductive ==
  T!Init /\ [][T!Next]_threatsVars => []ThreatsInv
<1>1. ThreatsInv /\ [T!Next]_threatsVars => ThreatsInv'
  <2> SUFFICES ASSUME ThreatsInv, [T!Next]_threatsVars PROVE ThreatsInv'
    OBVIOUS
  <2>1. ASSUME NEW g \in Gens, T!TriggerReads(g) \/ T!Generating(g) PROVE ThreatsInv'
    BY <2>1, ReadsKeeps, WritesKeeps, ClaimKeeps, GoesOnKeeps, LinkKeeps, StoreKeeps
       DEF T!Generating
  <2>2. CASE UNCHANGED threatsVars
    <3>1. gen' = gen /\ row' = row /\ latest' = latest /\ overrun' = overrun /\ kept' = kept
      BY <2>2 DEF threatsVars
    <3>2. T!Working' = T!Working /\ T!HasRow' = T!HasRow
      BY <3>1 DEF T!Working, T!HasRow
    <3>3. (LastAtWork => LastAtWork') /\ (ThreatsTypeOK => ThreatsTypeOK')
      BY <3>1, <3>2 DEF LastAtWork, ThreatsTypeOK
    <3> QED
      BY <3>1, <3>3 DEF ThreatsInv
  <2> QED
    BY <2>1, <2>2, AccidentsKeep DEF T!Next
<1> QED
  BY <1>1, ThreatsBegin, PTL

(* However many tasks are queued, one paid call is made at a time, and a
   finished row shows the threats and the call of the generation that
   claimed it last, unless the row was reset under one at work; before, it
   shows no other call, unless the request that reset it had read it before
   that call was linked (trigger_generation, run_generation, _link_llm_call,
   _store_results).                                                        *)
LEMMA OneGenerationHolds == ThreatsInv => T!OneGeneration
<1>1. ASSUME LastAtWork PROVE Cardinality(T!Working) <= 1
  <2>1. Cardinality({latest}) = 1 /\ IsFiniteSet({latest})
    BY FS_Singleton
  <2> QED
    BY <1>1, <2>1, FS_Subset DEF LastAtWork
<1>2. ASSUME LastAtWork
      PROVE  /\ Cardinality(T!Working) <= 1
             /\ row.status = "done" => row.threats = latest /\ row.call = latest
             /\ ~kept => /\ row.call \in {"none", latest}
                         /\ row.status = "pending" => row.call = "none"
  BY <1>1, <1>2 DEF LastAtWork
<1>3. T!Cardinality(T!Working) = Cardinality(T!Working)
  BY DEF T!Cardinality, Cardinality
<1> QED
  BY <1>2, <1>3 DEF ThreatsInv, T!OneGeneration
-----------------------------------------------------------------------------
(* The messages and the slices of SourceIndex.  A message that owns the job   *)
(* says where to go on; a slice that is at a bundle is at one there is, and  *)
(* downloads a map only where there is one.                                  *)
Messages == {m \in [cursor : Nat, owns : BOOLEAN] : m.owns => m.cursor > 0}
SlicePcs == {"idle", "owner", "bundle", "map", "text", "put", "end", "mark", "next", "send", "ack"}
Slice == [pc : SlicePcs, msg : Messages, from : Nat, at : Nat, owns : BOOLEAN,
          seenText : SUBSET I!Bundles, seenLists : SUBSET I!Bundles]
SliceOK(x) ==
  /\ x \in Slice
  /\ x.pc \in {"bundle", "map", "text", "put", "next", "send"} => x.at > 0
  /\ x.pc \in {"map", "text", "put"} => x.at <= Len(Bundle)
  /\ x.pc = "map" => Bundle[x.at] \in Mapped

SlicesOK ==
  /\ chain \subseteq Messages
  /\ DOMAIN indexer = Indexers /\ indexer = [w \in Indexers |-> indexer[w]]
  /\ \A w \in Indexers : SliceOK(indexer[w])

StoredOK == text \subseteq I!Bundles /\ lists \subseteq Mapped

IndexInv == StoredOK /\ SlicesOK /\ (marker = "done" => I!Complete)
-----------------------------------------------------------------------------
(* What was complete stays so when more is stored, or the run is deleted. *)
LEMMA CompleteStays ==
  ASSUME I!Complete, gone' = gone, text \subseteq text', lists \subseteq lists', StoredOK'
  PROVE  I!Complete'
BY DEF I!Complete, StoredOK

LEMMA MessagesAre ==
  I!Lost \in Messages /\ I!First \in Messages /\ SliceOK(I!AtRest)
BY DEF Messages, I!Lost, I!First, SliceOK, I!AtRest, Slice, SlicePcs

(* One slice moves, the others stay. *)
LEMMA OneMoves ==
  ASSUME SlicesOK, NEW w \in Indexers, NEW x, SliceOK(x), indexer' = [indexer EXCEPT ![w] = x],
         chain' \subseteq Messages
  PROVE  SlicesOK'
BY DEF SlicesOK

(* Everyone loses the token, and one slice moves. *)
LEMMA OthersLose ==
  ASSUME SlicesOK, NEW w \in Indexers, NEW x, SliceOK(x),
         indexer' = [I!LostIndexer EXCEPT ![w] = x], chain' = I!LostChain
  PROVE  SlicesOK'
<1>1. chain' \subseteq Messages
  BY MessagesAre DEF I!LostChain
<1>2. ASSUME NEW v \in Indexers
      PROVE  SliceOK([indexer[v] EXCEPT !.msg = I!Lost, !.owns = FALSE])
  <2> DEFINE y == indexer[v]
             z == [indexer[v] EXCEPT !.msg = I!Lost, !.owns = FALSE]
  <2>1. SliceOK(y)
    BY <1>2 DEF SlicesOK
  <2>2. z \in Slice /\ z.pc = y.pc /\ z.at = y.at
    BY <2>1, MessagesAre DEF SliceOK, Slice
  <2> QED
    BY <2>1, <2>2 DEF SliceOK
<1>3. \A v \in Indexers : indexer'[v] = IF v = w THEN x ELSE [indexer[v] EXCEPT !.msg = I!Lost, !.owns = FALSE]
  BY DEF I!LostIndexer
<1>4. DOMAIN indexer' = Indexers /\ indexer' = [v \in Indexers |-> indexer'[v]]
  BY DEF I!LostIndexer
<1> QED
  BY <1>1, <1>2, <1>3, <1>4 DEF SlicesOK
(* What is stored and what was said of it is left alone. *)
LEMMA StoreLeft ==
  ASSUME IndexInv, SlicesOK', text' = text, lists' = lists, gone' = gone, marker' = marker
  PROVE  IndexInv'
BY DEF IndexInv, StoredOK, I!Complete

(* A slice that goes on, at its bundle or at the one after. *)
LEMMA SliceAt ==
  ASSUME NEW y, SliceOK(y), y.at > 0
  PROVE  /\ SliceOK([y EXCEPT !.pc = "bundle", !.at = y.at + 1])
         /\ SliceOK([y EXCEPT !.pc = "next", !.at = y.at + 1])
         /\ y.pc = "bundle" => SliceOK([y EXCEPT !.at = y.at + 1])
         /\ SliceOK([y EXCEPT !.pc = "end"])
         /\ y.at <= Len(Bundle) => /\ SliceOK([y EXCEPT !.pc = "text"])
                                   /\ SliceOK([y EXCEPT !.pc = "put"])
<1>1. y \in Slice /\ y.at \in Nat
  BY DEF SliceOK, Slice
<1>2. ASSUME NEW n \in Nat, n > 0, NEW pc \in {"bundle", "next"}
      PROVE  SliceOK([y EXCEPT !.pc = pc, !.at = n])
  BY <1>1, <1>2 DEF SliceOK, Slice, SlicePcs
<1>3. y.pc = "bundle" => SliceOK([y EXCEPT !.at = y.at + 1])
  BY <1>1 DEF SliceOK, Slice
<1>4. SliceOK([y EXCEPT !.pc = "end"])
  BY <1>1 DEF SliceOK, Slice, SlicePcs
<1>5. ASSUME y.at <= Len(Bundle), NEW pc \in {"text", "put"} PROVE SliceOK([y EXCEPT !.pc = pc])
  BY <1>1, <1>5 DEF SliceOK, Slice, SlicePcs
<1> DEFINE n == y.at + 1
<1>6. n \in Nat /\ n > 0
  BY <1>1
<1> HIDE DEF n
<1>7. \A pc \in {"bundle", "next"} : SliceOK([y EXCEPT !.pc = pc, !.at = n])
  BY <1>2, <1>6
<1> QED
  BY <1>3, <1>4, <1>5, <1>7 DEF n

LEMMA SliceTakes ==
  ASSUME IndexInv, NEW w \in Indexers, (\E m \in chain : I!TakeSlice(w, m)) \/ I!CheckOwner(w)
  PROVE  IndexInv'
<1>1. text' = text /\ lists' = lists /\ gone' = gone /\ marker' = marker /\ chain' = chain
  BY DEF I!TakeSlice, I!CheckOwner
<1>2. SlicesOK /\ StoredOK /\ SliceOK(indexer[w])
  BY DEF IndexInv, SlicesOK
<1> DEFINE y == indexer[w]
<1>3. CASE \E m \in chain : I!TakeSlice(w, m)
  <2>1. PICK m \in chain : indexer' = [indexer EXCEPT ![w].pc = "owner", ![w].msg = m]
    BY <1>3 DEF I!TakeSlice
  <2> DEFINE x == [indexer[w] EXCEPT !.pc = "owner", !.msg = m]
  <2>2. SliceOK(x)
    BY <1>2 DEF SliceOK, Slice, SlicePcs, SlicesOK
  <2>3. indexer' = [indexer EXCEPT ![w] = x]
    BY <2>1
  <2> HIDE DEF x
  <2> QED
    BY <1>1, <1>2, <2>2, <2>3, OneMoves, StoreLeft DEF SlicesOK
<1>4. CASE I!CheckOwner(w)
  <2> DEFINE x == IF ~y.msg.owns THEN [indexer[w] EXCEPT !.pc = "ack"]
                  ELSE [indexer[w] EXCEPT !.pc = "bundle", !.from = indexer[w].msg.cursor,
                          !.at = indexer[w].msg.cursor, !.seenText = text, !.seenLists = lists]
  <2>1. indexer' = [indexer EXCEPT ![w] = x]
    BY <1>4 DEF I!CheckOwner
  <2>2. text \in SUBSET I!Bundles /\ lists \in SUBSET I!Bundles
    BY <1>2, ServicesAssumption DEF StoredOK, I!ConstantsOK
  <2>3. y.msg \in Messages
    BY <1>2 DEF SliceOK, Slice
  <2>4. SliceOK(x)
    BY <1>2, <2>2, <2>3 DEF SliceOK, Slice, SlicePcs, Messages
  <2> HIDE DEF x
  <2> QED
    BY <1>1, <1>2, <2>1, <2>4, OneMoves, StoreLeft DEF SlicesOK
<1> QED
  BY <1>3, <1>4

LEMMA SliceGoesOn ==
  ASSUME IndexInv, NEW w \in Indexers,
         I!OutOfTime(w) \/ I!AtEnd(w) \/ I!NoMap(w) \/ I!IndexText(w)
  PROVE  IndexInv'
<1> DEFINE y == indexer[w]
<1>1. text' = text /\ lists' = lists /\ gone' = gone /\ marker' = marker /\ chain' = chain
  BY DEF I!OutOfTime, I!AtEnd, I!NoMap, I!IndexText
<1>2. SlicesOK /\ SliceOK(y)
  BY DEF IndexInv, SlicesOK
<1>3. y.at \in Nat /\ (y.pc \in {"bundle", "text"} => y.at > 0)
  BY <1>2 DEF SliceOK, Slice
<1>4. \E x : SliceOK(x) /\ indexer' = [indexer EXCEPT ![w] = x]
  <2>1. CASE I!OutOfTime(w)
    <3> DEFINE x == [indexer[w] EXCEPT !.pc = "next"]
    <3>1. SliceOK(x)
      BY <1>2, <2>1 DEF SliceOK, Slice, SlicePcs, I!OutOfTime, I!AtBundle
    <3>2. indexer' = [indexer EXCEPT ![w] = x]
      BY <2>1 DEF I!OutOfTime, I!Step
    <3> QED
      BY <3>1, <3>2
  <2>2. CASE I!AtEnd(w)
    <3> DEFINE x == [indexer[w] EXCEPT !.pc = "end"]
    <3>1. SliceOK(x)
      BY <1>2 DEF SliceOK, Slice, SlicePcs
    <3>2. indexer' = [indexer EXCEPT ![w] = x]
      BY <2>2 DEF I!AtEnd, I!Step
    <3> QED
      BY <3>1, <3>2
  <2>3. CASE I!NoMap(w)
    <3> DEFINE x == IF I!Current(w) \in indexer[w].seenText
                      THEN [indexer[w] EXCEPT !.at = indexer[w].at + 1]
                      ELSE [indexer[w] EXCEPT !.pc = "text"]
    <3>1. y.pc = "bundle" /\ y.at <= Len(Bundle)
      BY <2>3 DEF I!NoMap, I!AtBundle
    <3>2. SliceOK(x)
      BY <1>2, <1>3, <3>1, SliceAt
    <3>3. indexer' = [indexer EXCEPT ![w] = x]
      BY <2>3 DEF I!NoMap
    <3> QED
      BY <3>2, <3>3
  <2>4. CASE I!IndexText(w)
    <3> DEFINE x == IF I!Current(w) \in Unreadable
                      THEN [indexer[w] EXCEPT !.pc = "bundle", !.at = indexer[w].at + 1]
                      ELSE IF indexer'[w].pc = "end" THEN [indexer[w] EXCEPT !.pc = "end"]
                      ELSE [indexer[w] EXCEPT !.pc = "put"]
    <3>1. y.pc = "text" /\ y.at <= Len(Bundle)
      BY <1>2, <2>4 DEF I!IndexText, SliceOK
    <3>2. SliceOK(x)
      BY <1>2, <1>3, <3>1, SliceAt
    <3>3. \/ I!Current(w) \in Unreadable
             /\ indexer' = [indexer EXCEPT ![w] = [indexer[w] EXCEPT !.pc = "bundle", !.at = indexer[w].at + 1]]
          \/ I!Current(w) \notin Unreadable
             /\ \/ indexer' = [indexer EXCEPT ![w] = [indexer[w] EXCEPT !.pc = "end"]]
                \/ indexer' = [indexer EXCEPT ![w] = [indexer[w] EXCEPT !.pc = "put"]]
      BY <2>4 DEF I!IndexText
    <3>4. indexer' = [indexer EXCEPT ![w] = x]
      BY <1>2, <3>3 DEF SlicesOK, SliceOK, Slice
    <3> QED
      BY <3>2, <3>4
  <2> QED
    BY <2>1, <2>2, <2>3, <2>4
<1> QED
  BY <1>1, <1>2, <1>4, OneMoves, StoreLeft DEF SlicesOK

LEMMA SliceRests ==
  ASSUME IndexInv, NEW w \in Indexers, I!SendNext(w) \/ I!AckSlice(w) \/ I!IndexerCrash(w)
  PROVE  IndexInv'
<1> DEFINE y == indexer[w]
<1>1. text' = text /\ lists' = lists /\ gone' = gone /\ marker' = marker
  BY DEF I!SendNext, I!AckSlice, I!IndexerCrash
<1>2. SlicesOK /\ SliceOK(y)
  BY DEF IndexInv, SlicesOK
<1>3. CASE I!SendNext(w)
  <2> DEFINE x == [I!AtRest EXCEPT !.pc = "ack", !.msg = indexer[w].msg]
             m == IF indexer[w].owns THEN [cursor |-> indexer[w].at, owns |-> TRUE] ELSE I!Lost
  <2>1. chain' = chain \cup {m} /\ indexer' = [indexer EXCEPT ![w] = x] /\ y.pc = "send"
    BY <1>3 DEF I!SendNext
  <2>2. SliceOK(x)
    BY <1>2 DEF SliceOK, I!AtRest, Slice, SlicePcs
  <2>3. m \in Messages
    BY <1>2, <2>1, MessagesAre DEF Messages, SliceOK, Slice
  <2> HIDE DEF x, m
  <2>4. chain' \subseteq Messages
    BY <1>2, <2>1, <2>3 DEF SlicesOK
  <2> QED
    BY <1>1, <1>2, <2>1, <2>2, <2>4, OneMoves, StoreLeft
<1>4. CASE I!AckSlice(w) \/ I!IndexerCrash(w)
  <2>1. chain' \subseteq chain /\ indexer' = [indexer EXCEPT ![w] = I!AtRest]
    BY <1>4 DEF I!AckSlice, I!IndexerCrash
  <2>2. chain' \subseteq Messages
    BY <1>2, <2>1 DEF SlicesOK
  <2> QED
    BY <1>1, <1>2, <2>1, <2>2, MessagesAre, OneMoves, StoreLeft
<1> QED
  BY <1>3, <1>4

(* The steps after which the messages and the slices of others have lost the
   token.                                                                  *)
LEMMA TokenChanges ==
  ASSUME IndexInv, NEW w \in Indexers,
         I!ListingFails(w) \/ I!Renew(w) \/ I!EndChain(w) \/ I!Succeed(w)
  PROVE  IndexInv'
<1> DEFINE y == indexer[w]
<1>1. /\ text' = text /\ lists' = lists /\ gone' = gone /\ marker' = marker
      /\ chain' = I!LostChain
  BY DEF I!ListingFails, I!Renew, I!EndChain, I!Succeed
<1>2. SlicesOK /\ SliceOK(y)
  BY DEF IndexInv, SlicesOK
<1>3. CASE I!ListingFails(w) \/ I!EndChain(w)
  <2>1. PICK pc \in {"ack", "mark"} : indexer' = [I!LostIndexer EXCEPT ![w] = [I!AtRest EXCEPT !.pc = pc]]
    BY <1>3 DEF I!ListingFails, I!EndChain
  <2>2. SliceOK([I!AtRest EXCEPT !.pc = pc])
    BY MessagesAre DEF SliceOK, I!AtRest, Slice, SlicePcs
  <2> QED
    BY <1>1, <1>2, <2>1, <2>2, OthersLose, StoreLeft
<1>4. CASE I!Renew(w)
  <2> DEFINE x == [indexer[w] EXCEPT !.msg = I!Lost, !.owns = FALSE, !.pc = "map"]
  <2>1. indexer' = [I!LostIndexer EXCEPT ![w] = x]
    BY <1>2, <1>4 DEF I!Renew, I!LostIndexer, SliceOK, Slice
  <2>2. y.pc = "bundle" /\ y.at <= Len(Bundle) /\ Bundle[y.at] \in Mapped
    BY <1>4 DEF I!Renew, I!AtBundle, I!NeedsMap, I!Current
  <2>3. x \in Slice /\ x.pc = "map" /\ x.at = y.at
    BY <1>2, MessagesAre DEF SliceOK, Slice, SlicePcs
  <2>4. SliceOK(x)
    BY <1>2, <2>2, <2>3 DEF SliceOK
  <2> HIDE DEF x
  <2> QED
    BY <1>1, <1>2, <2>1, <2>4, OthersLose, StoreLeft
<1>5. CASE I!Succeed(w)
  <2> DEFINE x == [I!AtRest EXCEPT !.pc = "send", !.owns = TRUE, !.at = indexer[w].at]
  <2>1. indexer' = [I!LostIndexer EXCEPT ![w] = x] /\ y.pc = "next"
    BY <1>5 DEF I!Succeed
  <2>2. SliceOK(x)
    BY <1>2, <2>1, MessagesAre DEF SliceOK, I!AtRest, Slice, SlicePcs
  <2> HIDE DEF x
  <2> QED
    BY <1>1, <1>2, <2>1, <2>2, OthersLose, StoreLeft
<1> QED
  BY <1>3, <1>4, <1>5

LEMMA KeyLapseKeeps ==
  ASSUME IndexInv, I!KeyLapses
  PROVE  IndexInv'
<1>1. text' = text /\ lists' = lists /\ gone' = gone /\ marker' = marker
  BY DEF I!KeyLapses
<1>2. chain' = I!LostChain /\ indexer' = I!LostIndexer
  BY DEF I!KeyLapses
<1>3. SlicesOK'
  <2>1. CASE Indexers = {}
    BY <1>2, <2>1, MessagesAre DEF SlicesOK, I!LostChain, I!LostIndexer
  <2>2. ASSUME NEW w \in Indexers PROVE SlicesOK'
    <3> DEFINE y == indexer[w]
               x == [indexer[w] EXCEPT !.msg = I!Lost, !.owns = FALSE]
    <3>1. SliceOK(y) /\ SlicesOK
      BY DEF IndexInv, SlicesOK
    <3>2. x \in Slice /\ x.pc = y.pc /\ x.at = y.at
      BY <3>1, MessagesAre DEF SliceOK, Slice
    <3>3. SliceOK(x)
      BY <3>1, <3>2 DEF SliceOK
    <3>4. indexer' = [I!LostIndexer EXCEPT ![w] = x]
      BY <1>2 DEF I!LostIndexer
    <3> HIDE DEF x
    <3> QED
      BY <1>2, <3>1, <3>3, <3>4, OthersLose
  <2> QED
    BY <2>1, <2>2
<1> QED
  BY <1>1, <1>3, StoreLeft

(* What is stored is a bundle's. *)
LEMMA IndexWrites ==
  ASSUME IndexInv, NEW w \in Indexers, I!IndexOriginals(w) \/ I!PutText(w)
  PROVE  IndexInv'
<1> DEFINE y == indexer[w]
<1>1. gone' = gone /\ marker' = marker /\ chain' = chain
  BY DEF I!IndexOriginals, I!PutText
<1>2. SlicesOK /\ SliceOK(y) /\ StoredOK
  BY DEF IndexInv, SlicesOK
<1>3. y.at \in Nat /\ y.pc \in {"map", "put"} /\ y.at > 0 /\ y.at <= Len(Bundle)
  BY <1>2 DEF SliceOK, Slice, I!IndexOriginals, I!PutText
<1>4. I!Current(w) \in I!Bundles /\ (y.pc = "map" => I!Current(w) \in Mapped)
  BY <1>2, <1>3, ServicesAssumption DEF I!ConstantsOK, I!Bundles, I!Current, SliceOK
<1>5. /\ text \subseteq text' /\ text' \subseteq text \cup {I!Current(w)}
      /\ lists \subseteq lists'
      /\ lists' # lists => y.pc = "map" /\ lists' = lists \cup {I!Current(w)}
  BY DEF I!IndexOriginals, I!PutText
<1>6. StoredOK'
  BY <1>2, <1>4, <1>5 DEF StoredOK
<1>7. SlicesOK'
  <2>1. CASE I!IndexOriginals(w)
    <3> DEFINE x == IF I!Current(w) \in indexer[w].seenText
                      THEN [indexer[w] EXCEPT !.pc = "next", !.at = indexer[w].at + 1]
                      ELSE [indexer[w] EXCEPT !.pc = "text"]
    <3>1. SliceOK(x)
      BY <1>2, <1>3, SliceAt
    <3>2. indexer' = [indexer EXCEPT ![w] = x]
      BY <2>1 DEF I!IndexOriginals
    <3> HIDE DEF x
    <3> QED
      BY <1>1, <1>2, <3>1, <3>2, OneMoves DEF SlicesOK
  <2>2. CASE I!PutText(w)
    <3> DEFINE x == [indexer[w] EXCEPT !.pc = "bundle", !.at = indexer[w].at + 1]
    <3>1. SliceOK(x)
      BY <1>2, <1>3, SliceAt
    <3>2. indexer' = [indexer EXCEPT ![w] = x]
      BY <2>2 DEF I!PutText
    <3> HIDE DEF x
    <3> QED
      BY <1>1, <1>2, <3>1, <3>2, OneMoves DEF SlicesOK
  <2> QED
    BY <2>1, <2>2
<1>8. I!Complete => I!Complete'
  BY <1>1, <1>5, <1>6, CompleteStays
<1> QED
  BY <1>1, <1>6, <1>7, <1>8 DEF IndexInv

(* The marker is written by what a listing shows. *)
LEMMA MarkKeeps ==
  ASSUME IndexInv, NEW w \in Indexers, I!MarkDone(w)
  PROVE  IndexInv'
<1>1. text' = text /\ lists' = lists /\ gone' = gone /\ chain' = chain
  BY DEF I!MarkDone
<1>2. SlicesOK /\ SliceOK(indexer[w]) /\ StoredOK
  BY DEF IndexInv, SlicesOK
<1>3. \E x : SliceOK(x) /\ indexer' = [indexer EXCEPT ![w] = x]
  <2> DEFINE x == [indexer[w] EXCEPT !.pc = "ack"]
  <2>1. SliceOK(x)
    BY <1>2 DEF SliceOK, Slice, SlicePcs
  <2> QED
    BY <2>1, MessagesAre DEF I!MarkDone, I!Step
<1>4. SlicesOK'
  BY <1>1, <1>2, <1>3, OneMoves DEF SlicesOK
<1>5. StoredOK' /\ I!Complete' = I!Complete
  BY <1>1, <1>2 DEF StoredOK, I!Complete
<1>6. marker' = "done" => I!Complete
  BY DEF I!MarkDone, IndexInv
<1> QED
  BY <1>4, <1>5, <1>6 DEF IndexInv

LEMMA AroundKeeps ==
  ASSUME IndexInv, \/ \E c \in Openers : I!Opening(c) \/ I!OpenerCrash(c)
                   \/ I!RetryLapses \/ I!DeleteRun
  PROVE  IndexInv'
<1>1. indexer' = indexer /\ (chain' = chain \/ \E m \in Messages : chain' = chain \cup {m})
  BY MessagesAre DEF I!Opening, I!OpenerCrash, I!RetryLapses, I!DeleteRun, I!Open, I!ClaimJob, I!SendFirst
<1>2. SlicesOK'
  BY <1>1 DEF SlicesOK, IndexInv
<1>3. CASE I!DeleteRun
  <2>1. StoredOK' /\ I!Complete'
    BY <1>3 DEF I!DeleteRun, StoredOK, I!Complete
  <2> QED
    BY <1>2, <2>1 DEF IndexInv
<1>4. CASE I!RetryLapses
  BY <1>2, <1>4 DEF I!RetryLapses, IndexInv, StoredOK
<1>5. CASE \E c \in Openers : I!Opening(c) \/ I!OpenerCrash(c)
  <2>1. text' = text /\ lists' = lists /\ gone' = gone /\ marker' = marker
    BY <1>5 DEF I!Opening, I!OpenerCrash, I!Open, I!ClaimJob, I!SendFirst
  <2> QED
    BY <1>2, <2>1, StoreLeft
<1> QED
  BY <1>3, <1>4, <1>5

LEMMA IndexInductive ==
  I!Init /\ [][I!Next]_indexVars => []IndexInv
<1>1. I!Init => IndexInv
  BY MessagesAre DEF I!Init, IndexInv, StoredOK, SlicesOK
<1>2. IndexInv /\ [I!Next]_indexVars => IndexInv'
  <2> SUFFICES ASSUME IndexInv, [I!Next]_indexVars PROVE IndexInv'
    OBVIOUS
  <2>1. ASSUME NEW w \in Indexers, I!Indexing(w) \/ I!ListingFails(w) \/ I!IndexerCrash(w)
        PROVE  IndexInv'
    BY <2>1, SliceTakes, SliceGoesOn, SliceRests, TokenChanges, IndexWrites, MarkKeeps
       DEF I!Indexing
  <2>2. CASE UNCHANGED indexVars
    <3>1. /\ text' = text /\ lists' = lists /\ gone' = gone /\ marker' = marker
          /\ chain' = chain /\ indexer' = indexer
      BY <2>2 DEF indexVars
    <3>2. SlicesOK'
      BY <3>1 DEF IndexInv, SlicesOK
    <3> QED
      BY <3>1, <3>2, StoreLeft
  <2> QED
    BY <2>1, <2>2, KeyLapseKeeps, AroundKeeps DEF I!Next
<1> QED
  BY <1>1, <1>2, PTL
-----------------------------------------------------------------------------
(* The stream, the page and the connection of RunEvents. *)
LinkPcs == {"closed", "replay", "tail", "ending"}

(* What a read finds gone was gone, and has Cap newer entries or went with   *)
(* Redis.                                                                    *)
StreamOK ==
  /\ stream \in Seq({stream[i] : i \in DOMAIN stream})
  /\ held \subseteq 1 .. Len(stream)
  /\ gap \subseteq 1 .. Len(stream) /\ gap \cap held = {}
  /\ forgot \in Nat
  /\ \A i \in (1 .. Len(stream)) \ held : i <= Len(stream) - Cap \/ i <= forgot

(* What a connection holds: on the wire, and behind its cursor, all that     *)
(* follows what the page has, but for what was gone when it was to be read.  *)
Follows ==
  /\ page.lastId <= link.cursor /\ link.cursor <= Len(stream)
  /\ link.wire = (page.lastId + 1 .. link.cursor) \ gap
  /\ link.pc \in {"tail", "ending"} => link.cursor > 0

LinkOK ==
  /\ link \in [pc : LinkPcs, cursor : Nat, wire : SUBSET Nat]
  /\ link.pc = "closed" => link = E!NoLink
  /\ link.pc # "closed" => Follows

PageOK ==
  /\ page = [pc |-> page.pc, lastId |-> page.lastId, shown |-> page.shown,
             failures |-> page.failures]
  /\ page.lastId \in Nat /\ page.lastId <= Len(stream)
  /\ got = (1 .. page.lastId) \ gap

Followed == PageOK /\ LinkOK
EventsInv == StreamOK /\ (~blind => Followed)
-----------------------------------------------------------------------------
LEMMA Least ==
  ASSUME NEW S \in SUBSET Nat, S # {}
  PROVE  \E x \in S : \A y \in S : x <= y
<1>1. \E x \in S : \A y \in S : ~(<<y, x>> \in OpToRel(<, Nat))
  BY WFMin, NatLessThanWellFounded, Zenon
<1>2. PICK x \in S : \A y \in S : ~(<<y, x>> \in OpToRel(<, Nat))
  BY <1>1
<1>3. ASSUME NEW y \in S PROVE x <= y
  <2>1. ~(<<y, x>> \in OpToRel(<, Nat))
    BY <1>2
  <2>2. ~(y < x)
    BY <2>1 DEF OpToRel
  <2> QED
    BY <2>2
<1> QED
  BY <1>3

LEMMA Greatest ==
  ASSUME NEW n \in Nat, NEW S \in SUBSET (0 .. n), S # {}
  PROVE  \E x \in S : \A y \in S : y <= x
<1> DEFINE above == {u \in Nat : \A y \in S : y <= u}
<1>1. n \in above
  OBVIOUS
<1>2. PICK u \in above : \A v \in above : u <= v
  BY <1>1, Least
<1>3. u \in S
  <2> SUFFICES ASSUME u \notin S PROVE FALSE
    OBVIOUS
  <2>1. \A y \in S : y <= u - 1 /\ y >= 0 /\ y \in Int
    BY <1>2
  <2>5. PICK y \in S : y <= u - 1 /\ y >= 0 /\ y \in Int
    BY <2>1
  <2>2. u \in Nat /\ u # 0
    BY <1>2, <2>5
  <2>3. u - 1 \in Nat
    BY <2>2
  <2>4. u - 1 \in above
    BY <2>1, <2>3
  <2> QED
    BY <1>2, <2>2, <2>4
<1> QED
  BY <1>2, <1>3

(* An append keeps what was there. *)
LEMMA LogGrows ==
  ASSUME StreamOK, NEW e
  PROVE  LET t == Append(stream, e)
         IN /\ t \in Seq({t[i] : i \in DOMAIN t})
            /\ Len(t) = Len(stream) + 1 /\ Len(stream) \in Nat
<1> DEFINE R == {stream[i] : i \in DOMAIN stream} \cup {e}
           t == Append(stream, e)
<1>1. stream \in Seq(R)
  BY DEF StreamOK
<1>2. t \in Seq(R) /\ Len(t) = Len(stream) + 1 /\ Len(stream) \in Nat
  BY <1>1
<1> HIDE DEF t
<1>3. t \in Seq({t[i] : i \in DOMAIN t})
  BY <1>2
<1> QED
  BY <1>2, <1>3 DEF t

(* What is sent of the entries after c is what is there up to some b. *)
LEMMA SentIs ==
  ASSUME StreamOK, NEW c \in Nat, c <= Len(stream)
  PROVE  \E b \in Nat :
           LET sent == E!UpToFinal(E!Newer(c))
           IN /\ c <= b /\ b <= Len(stream)
              /\ sent = {i \in held : c < i /\ i <= b}
              /\ b = IF sent = {} THEN c ELSE E!Max(sent)
<1> DEFINE sent == E!UpToFinal(E!Newer(c))
           ends == {e \in E!Newer(c) : stream[e] = E!Final}
<1>1. Len(stream) \in Nat /\ held \subseteq 1 .. Len(stream)
  BY DEF StreamOK
<1>2. E!Newer(c) = {i \in held : i > c}
  BY DEF E!Newer
<1>3. sent = {i \in E!Newer(c) : \A e \in ends : i <= e}
  BY DEF E!UpToFinal
<1> HIDE DEF sent, ends
<1>6. held \subseteq Int /\ ends \subseteq E!Newer(c)
  BY <1>1 DEF ends
<1>4. CASE sent = {}
  <2>1. ASSUME NEW i \in held, c < i, i <= c PROVE FALSE
    <3>1. i \in Int /\ c \in Int
      BY <1>6
    <3> QED
      BY <2>1, <3>1
  <2>2. {i \in held : c < i /\ i <= c} = {}
    BY <2>1, Zenon
  <2> QED
    BY <1>4, <2>2 DEF sent
<1>5. CASE sent # {}
  <2>1. sent \in SUBSET (0 .. Len(stream))
    <3>1. sent \subseteq held
      BY <1>2, <1>3
    <3>2. held \subseteq 0 .. Len(stream)
      BY <1>1
    <3> QED
      BY <3>1, <3>2
  <2>2. \E x \in sent : \A y \in sent : x >= y
    <3>1. \E x \in sent : \A y \in sent : y <= x
      BY <1>1, <1>5, <2>1, Greatest
    <3> QED
      BY <1>1, <2>1, <3>1
  <2> DEFINE b == E!Max(sent)
  <2>3. b \in sent /\ \A y \in sent : b >= y
    BY <2>2 DEF E!Max
  <2> HIDE DEF b
  <2>4. b \in Nat /\ c <= b /\ b <= Len(stream) /\ b \in E!Newer(c) /\ \A e \in ends : b <= e
    BY <1>1, <1>2, <1>3, <2>1, <2>3
  <2>5. ends \subseteq 1 .. Len(stream)
    BY <1>1, <1>2, <1>6
  <2>6. ASSUME NEW i \in held, c < i, i <= b PROVE i \in sent
    <3>1. i \in E!Newer(c)
      BY <1>1, <1>2, <2>6
    <3>2. ASSUME NEW e \in ends PROVE i <= e
      BY <1>1, <2>4, <2>5, <2>6, <3>2
    <3> QED
      BY <1>3, <3>1, <3>2
  <2>7. ASSUME NEW i \in sent PROVE i \in held /\ c < i /\ i <= b
    BY <1>1, <1>2, <1>3, <2>3, <2>4
  <2>8. sent = {i \in held : c < i /\ i <= b}
    BY <2>6, <2>7
  <2> QED
    BY <1>5, <2>4, <2>8 DEF b, sent
<1> QED
  BY <1>4, <1>5

(* Entries sent from the cursor on join what is on the wire. *)
LEMMA SendIs ==
  ASSUME StreamOK, link \in [pc : LinkPcs, cursor : Nat, wire : SUBSET Nat],
         link.cursor <= Len(stream), NEW ln, ln = E!Send(link.cursor)
  PROVE  \E b \in Nat :
           /\ link.cursor <= b /\ b <= Len(stream)
           /\ ln = [pc |-> ln.pc, cursor |-> ln.cursor, wire |-> ln.wire]
           /\ ln.pc \in {"tail", "ending"} /\ ln.cursor = b
           /\ ln.wire = link.wire \cup {i \in held : link.cursor < i /\ i <= b}
<1> DEFINE c == link.cursor
           sent == E!UpToFinal(E!Newer(c))
           pc == IF \E i \in sent : stream[i] = E!Final THEN "ending" ELSE "tail"
           last == IF sent = {} THEN c ELSE E!Max(sent)
<1>1. PICK b \in Nat : /\ c <= b /\ b <= Len(stream)
                       /\ sent = {i \in held : c < i /\ i <= b}
                       /\ b = last
  BY SentIs
<1>2. ln = [link EXCEPT !.wire = @ \cup sent, !.pc = pc, !.cursor = last]
  BY DEF E!Send
<1>3. pc \in {"tail", "ending"}
  OBVIOUS
<1> HIDE DEF pc, last, sent
<1>4. ln = [pc |-> pc, cursor |-> last, wire |-> link.wire \cup sent]
  BY <1>2
<1> QED
  BY <1>1, <1>3, <1>4

(* So a connection that followed the stream still does. *)
LEMMA SendFollows ==
  ASSUME StreamOK, Followed, link.pc \in {"replay", "tail"},
         link' = E!Send(link.cursor), gap' = gap \cup E!Skipped(link.cursor),
         link'.cursor # 0, stream' = stream, page' = page, got' = got
  PROVE  Followed'
<1> DEFINE c == link.cursor
           n == page.lastId
<1>1. /\ link \in [pc : LinkPcs, cursor : Nat, wire : SUBSET Nat]
      /\ n \in Nat /\ c \in Nat /\ n <= c /\ c <= Len(stream)
      /\ link.wire = (n + 1 .. c) \ gap /\ got = (1 .. n) \ gap
  BY DEF Followed, LinkOK, PageOK, Follows
<1>2. PICK b \in Nat :
           /\ c <= b /\ b <= Len(stream)
           /\ link' = [pc |-> link'.pc, cursor |-> link'.cursor, wire |-> link'.wire]
           /\ link'.pc \in {"tail", "ending"} /\ link'.cursor = b
           /\ link'.wire = link.wire \cup {i \in held : c < i /\ i <= b}
  BY <1>1, SendIs
<1>3. /\ Len(stream) \in Nat /\ gap \cap held = {} /\ gap \subseteq 1 .. Len(stream)
      /\ held \subseteq 1 .. Len(stream)
  BY DEF StreamOK
<1>4. gap' = gap \cup {i \in (1 .. Len(stream)) \ held : i > c}
  BY DEF E!Skipped, StreamOK
<1> HIDE DEF c, n
<1>5. ASSUME NEW i \in Nat
      PROVE  i \in link'.wire <=> i \in (n + 1 .. b) \ gap'
  <2>1. CASE i <= c
    <3>1. i \in gap' <=> i \in gap
      BY <1>1, <1>4, <2>1
    <3>2. i \in link'.wire <=> i \in link.wire
      BY <1>1, <1>2, <2>1
    <3> QED
      BY <1>1, <1>2, <2>1, <3>1, <3>2
  <2>2. CASE i > c
    <3>1. i \in link'.wire <=> i \in held /\ i <= b
      BY <1>1, <1>2, <2>2
    <3>2. i <= b => (i \in gap' <=> i \notin held)
      BY <1>1, <1>2, <1>3, <1>4, <2>2
    <3> QED
      BY <1>1, <1>2, <2>2, <3>1, <3>2
  <2> QED
    BY <1>1, <2>1, <2>2
<1>6. link'.wire \subseteq Nat
  BY <1>1, <1>2, <1>3
<1>7. link'.wire = (n + 1 .. b) \ gap'
  BY <1>1, <1>2, <1>5, <1>6
<1>8. got = (1 .. n) \ gap'
  BY <1>1, <1>4
<1>9. Follows'
  BY <1>1, <1>2, <1>7 DEF Follows, n
<1>10. link' \in [pc : LinkPcs, cursor : Nat, wire : SUBSET Nat]
  BY <1>2, <1>6 DEF LinkPcs
<1>11. LinkOK'
  BY <1>2, <1>9, <1>10 DEF LinkOK
<1>12. PageOK'
  BY <1>8 DEF Followed, PageOK, n
<1> QED
  BY <1>11, <1>12 DEF Followed

(* A step that takes the connection to its end, with nothing read from the
   stream.                                                                 *)
LEMMA OthersFollow ==
  ASSUME Followed, stream' = stream, gap' = gap, got' = got, page' = page,
         link.pc = "tail", link' = [link EXCEPT !.pc = "ending"]
  PROVE  Followed'
<1>1. /\ link'.cursor = link.cursor /\ link'.wire = link.wire /\ link'.pc = "ending"
      /\ link' \in [pc : LinkPcs, cursor : Nat, wire : SUBSET Nat]
  BY DEF Followed, LinkOK, LinkPcs
<1>2. Follows'
  BY <1>1 DEF Followed, LinkOK, Follows
<1> QED
  BY <1>1, <1>2 DEF Followed, PageOK, LinkOK

LEMMA PageMoves ==
  ASSUME PageOK, got' = got, stream' = stream, gap' = gap,
         page' = [pc |-> page'.pc, lastId |-> page.lastId, shown |-> page'.shown,
                  failures |-> page'.failures]
  PROVE  PageOK' /\ page'.lastId = page.lastId
<1>1. page'.lastId = page.lastId
  OBVIOUS
<1> QED
  BY <1>1 DEF PageOK

LEMMA Dropped ==
  ASSUME link' = E!NoLink
  PROVE  LinkOK'
<1>1. link' = [pc |-> "closed", cursor |-> 0, wire |-> {}]
  BY DEF E!NoLink
<1> QED
  BY <1>1 DEF LinkOK, LinkPcs, E!NoLink

LEMMA LinkStays ==
  ASSUME LinkOK, link' = link, stream' = stream, gap' = gap, page'.lastId = page.lastId
  PROVE  LinkOK'
BY DEF LinkOK, Follows, E!NoLink

(* An entry that is published is behind all that is followed. *)
LEMMA PublishFollows ==
  ASSUME StreamOK, Followed, NEW e, E!PublishEvent(e)
  PROVE  Followed'
<1>1. page' = page /\ got' = got /\ link' = link /\ gap' = gap
      /\ (stream' = stream \/ stream' = Append(stream, e))
  BY DEF E!PublishEvent, E!reader, E!histories
<1>2. Len(stream) \in Nat /\ Len(stream') \in Nat /\ Len(stream) <= Len(stream')
  <2>1. Len(stream) \in Nat
    BY DEF StreamOK
  <2>2. CASE stream' = stream
    BY <2>1, <2>2
  <2>3. CASE stream' = Append(stream, e)
    BY <2>3, LogGrows
  <2> QED
    BY <1>1, <2>2, <2>3
<1>3. PageOK'
  BY <1>1, <1>2 DEF Followed, PageOK
<1>4. LinkOK'
  BY <1>1, <1>2 DEF Followed, LinkOK, Follows, E!NoLink
<1> QED
  BY <1>3, <1>4 DEF Followed

LEMMA ConnectFollows ==
  ASSUME Followed, E!Connect
  PROVE  Followed'
<1>1. /\ page' = [page EXCEPT !.pc = "open", !.failures = 0]
      /\ link' = [E!NoLink EXCEPT !.pc = "replay", !.cursor = page.lastId]
      /\ stream' = stream /\ got' = got /\ gap' = gap
  BY DEF E!Connect, E!writer
<1>2. page' = [pc |-> "open", lastId |-> page.lastId, shown |-> page.shown, failures |-> 0]
  BY <1>1 DEF Followed, PageOK
<1>3. PageOK' /\ page'.lastId = page.lastId
  BY <1>1, <1>2 DEF Followed, PageOK
<1>4. link' = [pc |-> "replay", cursor |-> page.lastId, wire |-> {}]
  BY <1>1 DEF E!NoLink
<1>5. link' \in [pc : LinkPcs, cursor : Nat, wire : SUBSET Nat]
  BY <1>4 DEF Followed, PageOK, LinkPcs
<1>6. Follows'
  <2>1. page.lastId \in Nat /\ page.lastId <= Len(stream)
    BY DEF Followed, PageOK
  <2>2. (page.lastId + 1 .. page.lastId) \ gap = {}
    BY <2>1
  <2>3. /\ link'.cursor = page.lastId /\ link'.wire = {} /\ link'.pc = "replay"
        /\ page'.lastId = page.lastId /\ gap' = gap /\ stream' = stream
    <3>1. link'.cursor = page.lastId /\ link'.wire = {} /\ link'.pc = "replay"
      BY <1>4
    <3> QED
      BY <1>1, <1>3, <3>1, Zenon
  <2>4. page'.lastId <= link'.cursor /\ link'.cursor <= Len(stream')
    BY <2>1, <2>3
  <2>5. link'.wire = (page'.lastId + 1 .. link'.cursor) \ gap'
    BY <2>2, <2>3
  <2> QED
    BY <2>3, <2>4, <2>5 DEF Follows
<1> QED
  BY <1>3, <1>4, <1>5, <1>6 DEF Followed, LinkOK

(* What arrives is the next entry that was there to be read. *)
LEMMA ReceiveFollows ==
  ASSUME StreamOK, Followed, E!Receive
  PROVE  Followed'
<1> DEFINE n == page.lastId
           id == E!Min(link.wire)
<1>1. /\ link.wire # {}
      /\ page' = [page EXCEPT !.lastId = id, !.shown = E!Shown(stream[id]),
                    !.pc = IF stream[id] = E!Final THEN "stopped" ELSE @]
      /\ got' = got \cup {id} /\ stream' = stream /\ gap' = gap
      /\ link' = IF stream[id] = E!Final THEN E!NoLink ELSE [link EXCEPT !.wire = @ \ {id}]
  BY DEF E!Receive, E!writer
<1>2. link.pc # "closed"
  BY <1>1 DEF Followed, LinkOK, E!NoLink
<1>3. /\ link \in [pc : LinkPcs, cursor : Nat, wire : SUBSET Nat] /\ Follows
      /\ n \in Nat /\ got = (1 .. n) \ gap
      /\ link.wire = (n + 1 .. link.cursor) \ gap
      /\ Len(stream) \in Nat /\ link.cursor <= Len(stream)
  BY <1>2 DEF Followed, LinkOK, PageOK, Follows, StreamOK
<1>4. id \in link.wire /\ \A y \in link.wire : id <= y
  <2>1. \E x \in link.wire : \A y \in link.wire : x <= y
    BY <1>1, <1>3, Least
  <2> QED
    BY <2>1 DEF E!Min
<1> HIDE DEF id
<1>5. id \in Nat /\ n < id /\ id <= link.cursor /\ id \notin gap
  BY <1>3, <1>4
<1>6. ASSUME NEW i \in Nat, n < i, i < id PROVE i \in gap
  BY <1>3, <1>4, <1>5, <1>6
<1>7. (1 .. id) \ gap = got \cup {id}
  BY <1>3, <1>5, <1>6
<1>8. link.wire \ {id} = (id + 1 .. link.cursor) \ gap
  BY <1>3, <1>4, <1>5
<1>9. PageOK' /\ page'.lastId = id
  <2>1. page' = [pc |-> page'.pc, lastId |-> id, shown |-> page'.shown, failures |-> page'.failures]
    BY <1>1 DEF Followed, PageOK
  <2> QED
    BY <1>1, <1>3, <1>5, <1>7, <2>1 DEF PageOK
<1>10. LinkOK'
  <2>1. CASE stream[id] = E!Final
    BY <1>1, <2>1, Dropped
  <2>2. CASE stream[id] # E!Final
    <3>1. link' = [pc |-> link.pc, cursor |-> link.cursor, wire |-> link.wire \ {id}]
      BY <1>1, <1>3, <2>2
    <3>2. link' \in [pc : LinkPcs, cursor : Nat, wire : SUBSET Nat]
      BY <1>3, <3>1
    <3>3. Follows'
      BY <1>1, <1>3, <1>5, <1>8, <1>9, <3>1 DEF Follows
    <3> QED
      BY <1>2, <3>1, <3>2, <3>3 DEF LinkOK
  <2> QED
    BY <2>1, <2>2
<1> QED
  BY <1>9, <1>10 DEF Followed
-----------------------------------------------------------------------------
LEMMA EventsBegin ==
  ASSUME E!Init
  PROVE  EventsInv
<1>1. /\ stream = << >> /\ link = E!NoLink /\ got = {} /\ held = {} /\ gap = {} /\ forgot = 0
      /\ page = [pc |-> "connect", lastId |-> 0, shown |-> E!NoState, failures |-> 0]
  BY DEF E!Init
<1>2. StreamOK /\ PageOK
  BY <1>1 DEF StreamOK, PageOK
<1>3. LinkOK
  BY <1>1 DEF LinkOK, LinkPcs, E!NoLink
<1> QED
  BY <1>2, <1>3 DEF EventsInv, Followed

(* What a read finds gone is not there, and nothing that is gone comes back. *)
LEMMA StreamStep ==
  ASSUME E!Next, StreamOK, Cap \in Nat
  PROVE  StreamOK'
<1>1. Len(stream) \in Nat
  BY DEF StreamOK
<1>2. CASE \E e \in log : E!PublishEvent(e)
  <2>1. PICK e \in log : E!PublishEvent(e)
    BY <1>2
  <2>2. gap' = gap /\ forgot' = forgot
    BY <2>1 DEF E!PublishEvent, E!reader, E!histories
  <2>3. CASE stream' = Append(stream, e)
    <3> DEFINE n == Len(stream)
               now == held \cup {Len(stream')}
    <3>1. Len(stream') = n + 1 /\ stream' \in Seq({stream'[i] : i \in DOMAIN stream'})
      BY <2>3, LogGrows
    <3>2. \/ held' \in {now} \cup {{i \in now : i > k} : k \in 1 .. Len(stream') - Cap}
          \/ stream' = stream
      BY <2>1 DEF E!PublishEvent
    <3>3. stream' # stream
      BY <1>1, <3>1
    <3>4. \/ held' = now
          \/ \E k \in 1 .. (n + 1) - Cap : held' = {i \in now : i > k}
      BY <3>1, <3>2, <3>3
    <3>5. now = held \cup {n + 1}
      BY <3>1
    <3> HIDE DEF now, n
    <3>6. n \in Nat /\ held \subseteq 1 .. n /\ gap \subseteq 1 .. n /\ gap \cap held = {}
          /\ \A i \in (1 .. n) \ held : i <= n - Cap \/ i <= forgot
      BY <1>1 DEF StreamOK, n
    <3>9. held' \subseteq now
      <4>1. CASE held' = now
        BY <4>1
      <4>2. ASSUME NEW k \in 1 .. (n + 1) - Cap, held' = {i \in now : i > k} PROVE held' \subseteq now
        BY <4>2
      <4> QED
        BY <3>4, <4>1, <4>2
    <3>7. held' \subseteq 1 .. n + 1 /\ gap \subseteq 1 .. n + 1 /\ gap \cap held' = {}
      <4>1. now \subseteq 1 .. n + 1 /\ gap \subseteq 1 .. n + 1 /\ n + 1 \notin gap
        BY <3>5, <3>6
      <4>2. gap \cap now = {}
        BY <3>5, <3>6, <4>1
      <4> QED
        BY <3>9, <4>1, <4>2
    <3>8. ASSUME NEW i \in (1 .. n + 1) \ held' PROVE i <= (n + 1) - Cap \/ i <= forgot
      <4>1. CASE i \in now
        <5>1. PICK k \in 1 .. (n + 1) - Cap : held' = {j \in now : j > k}
          BY <3>4, <3>8, <4>1
        <5>2. ~(i > k)
          BY <3>8, <4>1, <5>1
        <5> QED
          BY <3>6, <5>1, <5>2
      <4>2. CASE i \notin now
        <5>1. i \in (1 .. n) \ held
          BY <3>5, <3>6, <4>2
        <5>2. i <= n - Cap \/ i <= forgot
          BY <3>6, <5>1
        <5> QED
          BY <3>6, <5>1, <5>2
      <4> QED
        BY <4>1, <4>2
    <3> QED
      BY <2>2, <3>1, <3>7, <3>8 DEF StreamOK
  <2>4. CASE stream' # Append(stream, e)
    <3>1. stream' = stream /\ held' = held
      BY <2>1, <2>4 DEF E!PublishEvent
    <3> QED
      BY <2>2, <3>1 DEF StreamOK
  <2> QED
    BY <2>3, <2>4
<1>3. CASE E!RedisRestarts
  <2>1. /\ stream' = stream /\ gap' = gap /\ forgot' = Len(stream)
        /\ \E n \in held : held' = {i \in held : i < n}
    BY <1>3 DEF E!RedisRestarts
  <2>2. held' \subseteq held
    BY <2>1
  <2>3. \A i \in 1 .. Len(stream) : i <= forgot'
    BY <2>1
  <2> QED
    BY <1>1, <2>1, <2>2, <2>3 DEF StreamOK
<1>4. CASE E!Replay \/ E!TailStream
  <2>1. /\ stream' = stream /\ held' = held /\ forgot' = forgot
        /\ \E id : gap' = gap \cup E!Skipped(id)
    BY <1>4 DEF E!Replay, E!TailStream, E!writer
  <2>2. \A id : E!Skipped(id) \subseteq (1 .. Len(stream)) \ held
    BY DEF E!Skipped, StreamOK
  <2>3. gap' \subseteq 1 .. Len(stream) /\ gap' \cap held = {}
    BY <2>1, <2>2 DEF StreamOK
  <2> QED
    BY <2>1, <2>3 DEF StreamOK
<1>5. ASSUME stream' = stream, held' = held, gap' = gap, forgot' = forgot PROVE StreamOK'
  BY <1>5 DEF StreamOK
<1>6. CASE E!Advance \/ E!Pause \/ E!Unpause
  BY <1>5, <1>6 DEF E!Advance, E!Pause, E!Unpause, E!reader, E!histories
<1>7. CASE E!KeepAlive \/ E!TimesOut \/ E!Connect \/ E!Receive \/ E!Break \/ E!CleanClose
           \/ E!CheckTerminal
  BY <1>5, <1>7 DEF E!KeepAlive, E!TimesOut, E!Connect, E!Receive, E!Break, E!CleanClose,
     E!CheckTerminal, E!writer
<1>8. CASE \E s \in Slots : E!ReadStatus(s) \/ E!Snapshot(s) \/ E!RefreshFails(s)
  BY <1>5, <1>8 DEF E!ReadStatus, E!Snapshot, E!RefreshFails, E!writer
<1> QED
  BY <1>2, <1>3, <1>4, <1>6, <1>7, <1>8 DEF E!Next

(* What a connection does to the page: only one that replayed nothing is
   not followed.                                                           *)
LEMMA EventsStep ==
  ASSUME E!Next, StreamOK, Followed, ~blind'
  PROVE  Followed'
<1> USE DEF Followed
<1>1. CASE \/ E!Advance \/ E!Pause \/ E!Unpause \/ E!RedisRestarts
           \/ \E s \in Slots : E!ReadStatus(s) \/ E!RefreshFails(s)
  <2>1. stream' = stream /\ link' = link /\ page' = page /\ got' = got /\ gap' = gap
    BY <1>1 DEF E!Advance, E!Pause, E!Unpause, E!RedisRestarts, E!ReadStatus, E!RefreshFails,
       E!reader, E!writer, E!histories
  <2> QED
    BY <2>1, LinkStays DEF PageOK
<1>2. CASE \E e \in log : E!PublishEvent(e)
  BY <1>2, PublishFollows
<1>3. CASE E!Replay
  <2>1. /\ link.pc = "replay" /\ link' = E!Send(link.cursor)
        /\ gap' = gap \cup E!Skipped(link.cursor)
        /\ stream' = stream /\ page' = page /\ got' = got
    BY <1>3 DEF E!Replay, E!writer
  <2>2. blind' = (blind \/ link'.cursor = 0)
    BY <1>3 DEF E!Replay
  <2>3. link'.cursor # 0
    BY <2>2, Zenon
  <2> QED
    BY <2>1, <2>3, SendFollows
<1>4. CASE E!TailStream
  <2>1. /\ link.pc = "tail" /\ stream' = stream /\ page' = page /\ got' = got
        /\ \E id \in (IF link.cursor = 0 THEN {i - 1 : i \in E!Newer(0)} ELSE {link.cursor}) :
             link' = E!Send(id) /\ gap' = gap \cup E!Skipped(id)
    BY <1>4 DEF E!TailStream, E!writer
  <2>2. link.cursor > 0 /\ link.cursor \in Nat /\ link.cursor <= Len(stream)
    BY <2>1 DEF LinkOK, Follows
  <2>3. link' = E!Send(link.cursor) /\ gap' = gap \cup E!Skipped(link.cursor)
    BY <2>1, <2>2
  <2>4. link'.cursor # 0
    <3>1. link \in [pc : LinkPcs, cursor : Nat, wire : SUBSET Nat]
      BY <2>1 DEF LinkOK
    <3> QED
      BY <2>2, <2>3, <3>1, SendIs
  <2> QED
    BY <2>1, <2>3, <2>4, SendFollows
<1>5. CASE E!KeepAlive \/ E!TimesOut
  BY <1>5, OthersFollow DEF E!KeepAlive, E!TimesOut, E!writer
<1>6. CASE E!Connect
  BY <1>6, ConnectFollows
<1>7. CASE E!Receive
  BY <1>7, ReceiveFollows
<1>8. CASE E!Break \/ E!CleanClose
  <2>1. stream' = stream /\ got' = got /\ gap' = gap /\ link' = E!NoLink
    BY <1>8 DEF E!Break, E!CleanClose, E!writer
  <2>2. page' = [pc |-> page'.pc, lastId |-> page.lastId, shown |-> page'.shown,
                 failures |-> page'.failures]
    <3>1. \/ page' = [page EXCEPT !.failures = @ + 1,
                        !.pc = IF page.failures + 1 >= 3 THEN "stopped" ELSE "connect"]
          \/ page' = [page EXCEPT !.pc = "check"]
      BY <1>8 DEF E!Break, E!CleanClose
    <3>2. page = [pc |-> page.pc, lastId |-> page.lastId, shown |-> page.shown,
                  failures |-> page.failures]
      BY DEF PageOK
    <3> QED
      BY <3>1, <3>2
  <2> QED
    BY <2>1, <2>2, PageMoves, Dropped
<1>9. CASE E!CheckTerminal \/ \E s \in Slots : E!Snapshot(s)
  <2>1. stream' = stream /\ got' = got /\ link' = link /\ gap' = gap
    BY <1>9 DEF E!CheckTerminal, E!Snapshot, E!writer
  <2>2. page' = [pc |-> page'.pc, lastId |-> page.lastId, shown |-> page'.shown,
                 failures |-> page'.failures]
    <3>1. \/ page' = [page EXCEPT !.shown = E!Shown(E!State),
                        !.pc = IF E!Over THEN "stopped" ELSE "connect"]
          \/ page' = [page EXCEPT !.pc = "stopped"]
          \/ \E s \in Slots : page' = [page EXCEPT !.shown = E!Shown(asked[s])]
      BY <1>9 DEF E!CheckTerminal, E!Snapshot
    <3>2. page = [pc |-> page.pc, lastId |-> page.lastId, shown |-> page.shown,
                  failures |-> page.failures]
      BY DEF PageOK
    <3> QED
      BY <3>1, <3>2
  <2> QED
    BY <2>1, <2>2, PageMoves, LinkStays
<1> QED
  BY <1>1, <1>2, <1>3, <1>4, <1>5, <1>6, <1>7, <1>8, <1>9 DEF E!Next

LEMMA EventsInductive ==
  Cap \in Nat => (E!Init /\ [][E!Next]_eventsVars => []EventsInv)
<1> SUFFICES ASSUME Cap \in Nat PROVE E!Init /\ [][E!Next]_eventsVars => []EventsInv
  OBVIOUS
<1>1. E!Init => EventsInv
  BY EventsBegin
<1>2. EventsInv /\ [E!Next]_eventsVars => EventsInv'
  <2>1. ASSUME EventsInv, UNCHANGED eventsVars PROVE EventsInv'
    BY <2>1 DEF eventsVars, EventsInv, StreamOK, Followed, PageOK, LinkOK, Follows, E!NoLink
  <2>2. ASSUME EventsInv, E!Next PROVE EventsInv'
    <3>1. blind => blind'
      BY <2>2 DEF E!Next, E!Advance, E!Pause, E!Unpause, E!PublishEvent, E!RedisRestarts,
        E!Replay, E!TailStream, E!KeepAlive, E!TimesOut, E!Connect, E!Receive, E!Break,
        E!CleanClose, E!CheckTerminal, E!ReadStatus, E!Snapshot, E!RefreshFails,
        E!reader, E!histories
    <3>2. ~blind' => Followed
      BY <2>2, <3>1 DEF EventsInv
    <3>3. StreamOK'
      BY <2>2, StreamStep DEF EventsInv
    <3> QED
      BY <2>2, <3>2, <3>3, EventsStep DEF EventsInv
  <2> QED
    BY <2>1, <2>2
<1> QED
  BY <1>1, <1>2, PTL
-----------------------------------------------------------------------------
(* A step of the composition is a step of one service, and none of the rest. *)
LEMMA IndexAlone == [AnyNext]_allVars => [I!Next]_indexVars
<1>1. ASSUME AnyNext PROVE I!Next \/ UNCHANGED indexVars
  BY <1>1 DEF AnyNext, OnlySourceIndex, OnlyThreatModel, OnlyRunEvents, OnlyLoginLimit,
     I!Next, I!Indexing, I!Opening
<1> QED
  BY <1>1 DEF allVars

LEMMA ThreatsAlone == [AnyNext]_allVars => [T!Next]_threatsVars
<1>1. ASSUME AnyNext PROVE T!Next \/ UNCHANGED threatsVars
  BY <1>1 DEF AnyNext, OnlySourceIndex, OnlyThreatModel, OnlyRunEvents, OnlyLoginLimit,
     T!Next, T!Generating
<1> QED
  BY <1>1 DEF allVars

LEMMA EventsAlone == [AnyNext]_allVars => [E!Next]_eventsVars
<1>1. ASSUME AnyNext PROVE E!Next \/ UNCHANGED eventsVars
  BY <1>1 DEF AnyNext, OnlySourceIndex, OnlyThreatModel, OnlyRunEvents, OnlyLoginLimit, E!Next
<1> QED
  BY <1>1 DEF allVars

LEMMA LoginAlone == [AnyNext]_allVars => [Next]_lvars
<1>1. ASSUME AnyNext PROVE Next \/ UNCHANGED lvars
  BY <1>1 DEF AnyNext, OnlySourceIndex, OnlyThreatModel, OnlyRunEvents, OnlyLoginLimit, Next
<1> QED
  BY <1>1 DEF allVars

(* Between two times a username's counter is cleared, the passwords tried
   against it exceed the limit by no more than the requests at work at the
   same time and the calls to Redis that failed (login_rate_limit.py).      *)
THEOREM GuessesStayBounded ==
  ASSUME IsFiniteSet(Callers)
  PROVE  (Spec => []GuessesBounded) /\ (AnySpec => []GuessesBounded)
<1>1. ConstantsOK
  BY ServicesAssumption
<1>2. LimitInv => GuessesBounded
  BY <1>1, GuessesAreBounded
<1>3. Init /\ [][Next]_lvars => []LimitInv
  BY <1>1, LimitInductive
<1>4. Init /\ [][Next]_lvars => []GuessesBounded
  BY <1>2, <1>3, PTL
<1>5. AnyInit => Init
  BY DEF AnyInit
<1>6. AnySpec => []GuessesBounded
  BY <1>4, <1>5, LoginAlone, PTL DEF AnySpec
<1> QED
  BY <1>4, <1>6 DEF Spec

(* However many tasks are queued, by however many requests, one paid call is
   made at a time, and a finished row shows the threats and the call of the
   generation that claimed it last, unless the row was reset under one at
   work; before, it shows no other call, unless the request that reset it
   had read it before that call was linked (trigger_generation,
   run_generation, _link_llm_call, _store_results).                        *)
THEOREM OneGenerationAtWork ==
  (T!Spec => []T!OneGeneration) /\ (AnySpec => []OneGeneration)
<1>1. T!Init /\ [][T!Next]_threatsVars => []T!OneGeneration
  BY ThreatsInductive, OneGenerationHolds, PTL
<1>2. [T!Next]_(T!tvars) => [T!Next]_threatsVars
  BY DEF T!tvars, threatsVars
<1>3. T!Spec => []T!OneGeneration
  BY <1>1, <1>2, PTL DEF T!Spec
<1>4. AnyInit => T!Init
  BY DEF AnyInit
<1>5. T!OneGeneration => OneGeneration
  BY DEF OneGeneration
<1>6. AnySpec => []OneGeneration
  BY <1>1, <1>4, <1>5, ThreatsAlone, PTL DEF AnySpec
<1> QED
  BY <1>3, <1>6

(* A run is marked as indexed for a month only if the text of every bundle
   that can be read, and the list, are stored, however many workers take the
   slices, lose the token, fail or crash between two of them (handle).      *)
THEOREM MarkedDoneIsComplete ==
  (I!Spec => []I!DoneIsComplete) /\ (AnySpec => []DoneIsComplete)
<1>1. IndexInv => I!DoneIsComplete
  BY DEF IndexInv, I!DoneIsComplete
<1>2. I!Init /\ [][I!Next]_indexVars => []I!DoneIsComplete
  BY <1>1, IndexInductive, PTL
<1>3. [I!Next]_(I!ivars) => [I!Next]_indexVars
  BY DEF I!ivars, indexVars
<1>4. I!Spec => []I!DoneIsComplete
  BY <1>2, <1>3, PTL DEF I!Spec
<1>5. AnyInit => I!Init
  BY DEF AnyInit
<1>6. I!DoneIsComplete => DoneIsComplete
  BY DEF DoneIsComplete
<1>7. AnySpec => []DoneIsComplete
  BY <1>2, <1>5, <1>6, IndexAlone, PTL DEF AnySpec
<1> QED
  BY <1>4, <1>7

(* Across any number of broken, timed-out and cleanly closed connections, of
   trimmed entries and of restarts of Redis, a page misses of the entries up
   to the last one it received exactly those that were gone when a connection
   came to read them, unless one of the connections found nothing to replay
   and tailed from the stream's end; and each of those had Cap newer entries,
   or went with Redis (events/stream.py, Last-Event-ID, _event_stream).    *)
THEOREM NoEntryIsMissed ==
  (Cap \in Nat /\ E!Spec => []E!Gapless) /\ (AnySpec => []Gapless)
<1>1. EventsInv => E!Gapless
  BY DEF EventsInv, StreamOK, Followed, PageOK, E!Gapless
<1>2. Cap \in Nat => (E!Init /\ [][E!Next]_eventsVars => []E!Gapless)
  BY <1>1, EventsInductive, PTL
<1>3. [E!Next]_(E!evars) => [E!Next]_eventsVars
  BY DEF E!evars, eventsVars
<1>4. Cap \in Nat /\ E!Spec => []E!Gapless
  BY <1>2, <1>3, PTL DEF E!Spec
<1>5. AnyInit => E!Init
  BY DEF AnyInit
<1>6. E!Gapless => Gapless
  BY DEF Gapless
<1>8. Cap \in Nat
  BY ServicesAssumption DEF E!ConstantsOK
<1>7. AnySpec => []Gapless
  BY <1>2, <1>5, <1>6, <1>8, EventsAlone, PTL DEF AnySpec
<1> QED
  BY <1>4, <1>7
=============================================================================
