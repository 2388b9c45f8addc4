---- MODULE LedgerProofs ----
(***************************************************************************)
(* The ledger file, for any sessions, keys, write sets and limits: it      *)
(* always loads, a write task is taken exactly while its taker holds the   *)
(* claim, and acknowledged facts last while the lock keeps commits apart.  *)
(*                                                                         *)
(* A state is Good if a snapshot can carry it: the parser rebuilds it from *)
(* its own claims, questions and receipts.  Every event the rules accept,  *)
(* and every prune, leaves a good state good, so a journal reads as a good *)
(* state if its events have msg_ids of their own (Sound).  The file stays  *)
(* sound whatever crashes, failed writes and stolen locks do to it.        *)
(* Acknowledged facts need the lock: then a commit writes what it read.    *)
(*                                                                         *)
(* The reading of a journal is a recursive function of its length; what is *)
(* said of it goes by the well-foundedness of < (UpTo).                    *)
(***************************************************************************)
EXTENDS SharedFiles, FiniteSetTheorems, SequenceTheorems, WellFoundedInduction, TLAPS

---------------------------------------------------------------------------
(* The lock *)

\* What the lock guarantees for any number of processes.  Once one has died
\* inside, two contenders can both decide to unlink its file: the run on
\* LedgerLock.cfg shows the second one removing its successor's.

\* While nobody has died, the file belongs to whoever is in the lock.
OwnerInside ==
  Calm => \A p \in Procs : /\ pc[p] \in {"created", "held"} <=> lock.owner = p
                           /\ pc[p] # "judged"

LockInv == LockTypeOK /\ OwnerInside

\* Before anyone contends there is no lock file.
LEMMA LockInitially == ASSUME LockInit PROVE LockInv
BY LockAssumption DEF LockInit, LockInv, LockTypeOK, OwnerInside, Stages, Free

\* Each stage of acquireLedgerLock and of its release preserves the invariant.
LEMMA LockStep ==
  ASSUME LockInv, [LockNext]_lockVars
  PROVE  LockInv'
<1> USE DEF LockInv, LockTypeOK, OwnerInside, Stages, Free, Goto, Calm, Dead, Taken
<1>1. CASE UNCHANGED lockVars
  BY <1>1 DEF lockVars
<1>2. ASSUME NEW p \in Procs, Contend(p) \/ GiveUp(p) PROVE LockInv'
  BY <1>2 DEF Contend, GiveUp
<1>3. ASSUME NEW p \in Procs, Create(p) PROVE LockInv'
  BY <1>3, LockAssumption DEF Create
<1>4. ASSUME NEW p \in Procs, WritePayload(p) PROVE LockInv'
  BY <1>4 DEF WritePayload
<1>5. ASSUME NEW p \in Procs, PayloadFails(p) PROVE LockInv'
  BY <1>5, LockAssumption DEF PayloadFails
<1>6. ASSUME NEW p \in Procs, Judge(p) PROVE LockInv'
  BY <1>6 DEF Judge, Abandoned
<1>7. ASSUME NEW p \in Procs, Steal(p) PROVE LockInv'
  BY <1>7, LockAssumption DEF Steal
<1>8. ASSUME NEW p \in Procs, Release(p) PROVE LockInv'
  BY <1>8, LockAssumption DEF Release
<1>9. ASSUME NEW p \in Procs, Crash(p) PROVE LockInv'
  BY <1>9 DEF Crash
<1> QED BY <1>1, <1>2, <1>3, <1>4, <1>5, <1>6, <1>7, <1>8, <1>9 DEF LockNext

\* The lock file and the stages of its contenders fit together in every
\* reachable state (acquireLedgerLock, 427-463).
THEOREM LockInvariant == LockSpec => []LockInv
<1>1. LockInit => LockInv
  BY LockInitially
<1>2. LockInv /\ [LockNext]_lockVars => LockInv'
  BY LockStep
<1> QED BY <1>1, <1>2, PTL DEF LockSpec

\* Any number of sessions serialize their transactions as long as no process
\* has died: only the recovery of a dead owner's file can break the lock.
THEOREM CalmLockSerializes == LockSpec => [](Calm => OneTransactionAtATime)
<1>1. LockInv => (Calm => OneTransactionAtATime)
  BY DEF LockInv, OwnerInside, OneTransactionAtATime
<1> QED BY <1>1, LockInvariant, PTL

---------------------------------------------------------------------------
(* The ledger *)

\* What the records of a ledger are made of.
ClaimRecs == [id : MsgIds, key : Keys, from : Procs, paths : WriteSets]
AskRecs == [id : MsgIds, askId : AskIds, key : Keys, from : Procs, to : Procs]
ReceiptRecs == [id : MsgIds, ask : AskRecs]
TaskRecs ==
  [id : MsgIds, key : Keys, by : Procs, paths : WriteSets, taker : Procs \cup {NoTaker},
   takeId : 0..MaxEvents, status : {"open", "taken", "done", "stale"}]
Ledgers ==
  [claims : SUBSET ClaimRecs, asks : SUBSET AskRecs, answers : Seq(ReceiptRecs),
   askIds : SUBSET AskIds, tasks : SUBSET TaskRecs]

ClaimsApart(s) == \A c, d \in s.claims : c # d => c.id # d.id /\ ~Overlap(c.paths, d.paths)

AsksFit(s) ==
  /\ IsFiniteSet(s.asks)
  /\ \A a, b \in s.asks : a # b => a.id # b.id /\ a.askId # b.askId /\ (a.key # b.key \/ a.to # b.to)
  /\ \A a \in s.asks : a.from # a.to /\ a.askId \in s.askIds
  /\ \A p, q \in Procs : Cardinality(Between(s, p, q)) <= MaxAsksFromTo

ReceiptsFit(s) ==
  /\ Len(s.answers) <= MaxResults
  /\ \A i \in 1..Len(s.answers) :
       LET a == s.answers[i].ask IN
       a.from # a.to /\ a.askId \in s.askIds /\ \A b \in s.asks : b.askId # a.askId
  /\ \A i, k \in 1..Len(s.answers) :
       s.answers[i].ask.askId = s.answers[k].ask.askId => i = k

\* A task and the claim it was taken with come and go together.
TakesAreNamed(s) ==
  /\ \A t \in s.tasks : t.status = "open" => t.takeId = 0 /\ t.taker = NoTaker
  /\ \A t \in s.tasks : t.status = "taken" => t.takeId # 0
  /\ \A t, u \in s.tasks : t.takeId = u.takeId /\ t.takeId # 0 => t = u
TakersClaim(s) ==
  \A t \in s.tasks : t.status = "taken" /\ t.paths # {} => HoldsItsClaim(s, t)
ClaimsOfTakers(s) ==
  \A t \in s.tasks, c \in s.claims :
    c.id = t.takeId => t.status = "taken" /\ c.from = t.taker /\ c.key = t.key
TasksFit(s) == TasksParse(s.tasks) /\ TakesAreNamed(s) /\ TakersClaim(s) /\ ClaimsOfTakers(s)

\* A state that a snapshot can carry.
Good(s) == s \in Ledgers /\ ClaimsApart(s) /\ AsksFit(s) /\ ReceiptsFit(s) /\ TasksFit(s)

\* The msg_id x is not in the state.
Unused(s, x) ==
  /\ \A r \in s.claims \cup s.asks : r.id # x
  /\ \A t \in s.tasks : t.takeId # x

---------------------------------------------------------------------------
\* What holds of 0, and of n + 1 with n, holds up to any bound.
LEMMA UpTo ==
  ASSUME NEW L \in Nat, NEW V, 0 \in V, \A n \in 0..(L - 1) : n \in V => n + 1 \in V
  PROVE  \A n \in 0..L : n \in V
<1> DEFINE Missing == {n \in 0..L : n \notin V}
           Less == OpToRel(<, Nat)
<1> SUFFICES ASSUME Missing # {} PROVE FALSE
  OBVIOUS
<1>1. Missing \subseteq Nat
  OBVIOUS
<1>2. IsWellFoundedOn(Less, Nat)
  BY NatLessThanWellFounded
<1>3. \A x, y \in Nat : y < x => <<y, x>> \in Less
  BY DEF OpToRel
<1> HIDE DEF Less
<1>4. PICK m \in Missing : \A y \in Missing : <<y, m>> \notin Less
  BY <1>1, <1>2, WFMin
<1>5. m \in Nat /\ m # 0 /\ m <= L
  BY <1>4
<1>6. m - 1 \in 0..(L - 1) /\ m - 1 \in 0..L /\ m - 1 < m /\ m - 1 \in Nat /\ (m - 1) + 1 = m
  BY <1>5
<1>7. m - 1 \in Missing
  BY <1>4, <1>6
<1> QED BY <1>3, <1>4, <1>5, <1>6, <1>7

\* A journal has a reading, record by record.
LEMMA LoadingUnfolds ==
  ASSUME NEW j, Len(j) \in Nat
  PROVE  Loading(j) = [n \in 0..Len(j) |-> IF n = 0 THEN Fresh ELSE Read(Loading(j)[n - 1], j[n])]
<1> DEFINE Is(g, m) == g = [n \in 0..m |-> IF n = 0 THEN Fresh ELSE Read(g[n - 1], j[n])]
           Known == {m \in 0..Len(j) : \E g : Is(g, m)}
<1>1. 0 \in Known
  <2> DEFINE h == [n \in 0..0 |-> Fresh]
  <2>1. \A n \in 0..0 : h[n] = IF n = 0 THEN Fresh ELSE Read(h[n - 1], j[n])
    OBVIOUS
  <2>2. Is(h, 0)
    BY <2>1
  <2>3. 0 \in 0..Len(j)
    OBVIOUS
  <2> HIDE DEF Is, h
  <2> QED BY <2>2, <2>3
<1>2. ASSUME NEW m \in 0..(Len(j) - 1), m \in Known PROVE m + 1 \in Known
  <2>1. PICK g : Is(g, m)
    BY <1>2
  <2> DEFINE h == [n \in 0..(m + 1) |-> IF n = m + 1 THEN Read(g[m], j[m + 1]) ELSE g[n]]
  <2>2. \A n \in 0..(m + 1) : h[n] = IF n = 0 THEN Fresh ELSE Read(h[n - 1], j[n])
    <3> TAKE n \in 0..(m + 1)
    <3>1. CASE n = 0
      BY <2>1, <3>1
    <3>2. CASE n = m + 1
      BY <3>2
    <3>3. CASE n # 0 /\ n # m + 1
      <4>1. n \in 0..m /\ n - 1 \in 0..m /\ n - 1 # m + 1 /\ n - 1 \in 0..(m + 1)
        BY <3>3
      <4>2. h[n] = g[n] /\ h[n - 1] = g[n - 1]
        BY <3>3, <4>1
      <4> QED BY <2>1, <3>3, <4>1, <4>2
    <3> QED BY <3>1, <3>2, <3>3
  <2>3. Is(h, m + 1)
    BY <2>2
  <2>4. m + 1 \in 0..Len(j)
    OBVIOUS
  <2> QED BY <2>3, <2>4
<1> HIDE DEF Known
<1>3. \A n \in 0..Len(j) : n \in Known
  BY <1>1, <1>2, UpTo
<1>4. Len(j) \in Known
  BY <1>3
<1> QED BY <1>4 DEF Known, Loading

\* A snapshot is rebuilt receipt by receipt, then event by event.
LEMMA ReceiptsUnfold ==
  ASSUME NEW s, Len(s.answers) \in Nat
  PROVE  Receipts(s) = [n \in 0..2 * Len(s.answers) |-> IF n = 0 THEN Fresh ELSE Feed(Receipts(s)[n - 1], Replayed(s)[n])]
<1> DEFINE Is(g, m) == g = [n \in 0..m |-> IF n = 0 THEN Fresh ELSE Feed(g[n - 1], Replayed(s)[n])]
           Known == {m \in 0..2 * Len(s.answers) : \E g : Is(g, m)}
<1>1. 0 \in Known
  <2> DEFINE h == [n \in 0..0 |-> Fresh]
  <2>1. \A n \in 0..0 : h[n] = IF n = 0 THEN Fresh ELSE Feed(h[n - 1], Replayed(s)[n])
    OBVIOUS
  <2>2. Is(h, 0)
    BY <2>1
  <2>3. 0 \in 0..2 * Len(s.answers)
    OBVIOUS
  <2> HIDE DEF Is, h
  <2> QED BY <2>2, <2>3
<1>2. ASSUME NEW m \in 0..(2 * Len(s.answers) - 1), m \in Known PROVE m + 1 \in Known
  <2>1. PICK g : Is(g, m)
    BY <1>2
  <2> DEFINE h == [n \in 0..(m + 1) |-> IF n = m + 1 THEN Feed(g[m], Replayed(s)[m + 1]) ELSE g[n]]
  <2>2. \A n \in 0..(m + 1) : h[n] = IF n = 0 THEN Fresh ELSE Feed(h[n - 1], Replayed(s)[n])
    <3> TAKE n \in 0..(m + 1)
    <3>1. CASE n = 0
      BY <2>1, <3>1
    <3>2. CASE n = m + 1
      BY <3>2
    <3>3. CASE n # 0 /\ n # m + 1
      <4>1. n \in 0..m /\ n - 1 \in 0..m /\ n - 1 # m + 1 /\ n - 1 \in 0..(m + 1)
        BY <3>3
      <4>2. h[n] = g[n] /\ h[n - 1] = g[n - 1]
        BY <3>3, <4>1
      <4> QED BY <2>1, <3>3, <4>1, <4>2
    <3> QED BY <3>1, <3>2, <3>3
  <2>3. Is(h, m + 1)
    BY <2>2
  <2>4. m + 1 \in 0..2 * Len(s.answers)
    OBVIOUS
  <2> QED BY <2>3, <2>4
<1> HIDE DEF Known
<1>3. \A n \in 0..2 * Len(s.answers) : n \in Known
  <2>1. 2 * Len(s.answers) \in Nat
    OBVIOUS
  <2> QED BY <1>1, <1>2, <2>1, UpTo
<1>4. 2 * Len(s.answers) \in Known
  BY <1>3
<1> QED BY <1>4 DEF Known, Receipts

\* The event with the number n, if E has one.
Add(acc, E, n) ==
  IF \E e \in E : e.id = n THEN Feed(acc, CHOOSE e \in E : e.id = n) ELSE acc

LEMMA FeedingUnfolds ==
  ASSUME NEW acc, NEW E, MaxEvents \in Nat
  PROVE  Feeding(acc, E) = [n \in 0..MaxEvents |-> IF n = 0 THEN acc ELSE Add(Feeding(acc, E)[n - 1], E, n)]
<1> DEFINE Is(g, m) == g = [n \in 0..m |-> IF n = 0 THEN acc ELSE Add(g[n - 1], E, n)]
           Known == {m \in 0..MaxEvents : \E g : Is(g, m)}
<1>1. 0 \in Known
  <2> DEFINE h == [n \in 0..0 |-> acc]
  <2>1. \A n \in 0..0 : h[n] = IF n = 0 THEN acc ELSE Add(h[n - 1], E, n)
    OBVIOUS
  <2>2. Is(h, 0)
    BY <2>1
  <2>3. 0 \in 0..MaxEvents
    OBVIOUS
  <2> HIDE DEF Is, h
  <2> QED BY <2>2, <2>3
<1>2. ASSUME NEW m \in 0..(MaxEvents - 1), m \in Known PROVE m + 1 \in Known
  <2>1. PICK g : Is(g, m)
    BY <1>2
  <2> DEFINE h == [n \in 0..(m + 1) |-> IF n = m + 1 THEN Add(g[m], E, m + 1) ELSE g[n]]
  <2>2. \A n \in 0..(m + 1) : h[n] = IF n = 0 THEN acc ELSE Add(h[n - 1], E, n)
    <3> TAKE n \in 0..(m + 1)
    <3>1. CASE n = 0
      BY <2>1, <3>1
    <3>2. CASE n = m + 1
      BY <3>2
    <3>3. CASE n # 0 /\ n # m + 1
      <4>1. n \in 0..m /\ n - 1 \in 0..m /\ n - 1 # m + 1 /\ n - 1 \in 0..(m + 1)
        BY <3>3
      <4>2. h[n] = g[n] /\ h[n - 1] = g[n - 1]
        BY <3>3, <4>1
      <4> QED BY <2>1, <3>3, <4>1, <4>2
    <3> QED BY <3>1, <3>2, <3>3
  <2>3. Is(h, m + 1)
    BY <2>2
  <2>4. m + 1 \in 0..MaxEvents
    OBVIOUS
  <2> QED BY <2>3, <2>4
<1> HIDE DEF Known
<1>3. \A n \in 0..MaxEvents : n \in Known
  BY <1>1, <1>2, UpTo
<1>4. MaxEvents \in Known
  BY <1>3
<1> QED BY <1>4 DEF Known, Feeding, Add

---------------------------------------------------------------------------
(* Every accepted event leaves a good state.                               *)
LEMMA EventFields ==
  ASSUME NEW e \in Events
  PROVE  /\ e.kind \in {"claim", "task_create", "ask", "answer", "release", "task_take", "task_finish"}
         /\ e.id \in MsgIds /\ e.key \in Keys /\ e.from \in Procs
         /\ e.kind \in {"claim", "task_create"} => e.paths \in WriteSets
         /\ e.kind = "ask" => e.to \in Procs
         /\ e.kind \in {"ask", "answer"} => e.askId \in AskIds
         /\ e.kind \in {"task_take", "task_finish"} => e.task \in MsgIds
BY DEF Events

LEMMA OverlapSymmetric == \A P, Q : Overlap(P, Q) <=> Overlap(Q, P)
BY StoreAssumption DEF Overlap

LEMMA ClaimKeeps ==
  ASSUME NEW s, Good(s), NEW e \in Events, e.kind = "claim", MayClaim(s, e), Unused(s, e.id)
  PROVE  Good(Claimed(s, e))
<1> DEFINE n == Claimed(s, e)
           c0 == ClaimOf(e, e.paths)
<1>1. s \in Ledgers
  BY DEF Good
<1>2. c0 \in ClaimRecs /\ c0.id = e.id /\ c0.paths = e.paths
  BY EventFields DEF ClaimOf, ClaimRecs
<1>3. /\ n.claims = s.claims \cup {c0} /\ n.asks = s.asks /\ n.answers = s.answers
      /\ n.askIds = s.askIds /\ n.tasks = s.tasks /\ n \in Ledgers
  BY <1>1, <1>2 DEF Claimed, Ledgers
<1> HIDE DEF n, c0
<1>4. ClaimsApart(n)
  BY <1>2, <1>3, OverlapSymmetric DEF ClaimsApart, Good, MayClaim, Unused
<1>5. AsksFit(n)
  BY <1>3 DEF AsksFit, Good, Between
<1>6. ReceiptsFit(n)
  BY <1>3 DEF ReceiptsFit, Good
<1>7. TasksFit(n)
  <2>1. \A t \in s.tasks : HoldsItsClaim(s, t) => HoldsItsClaim(n, t)
    BY <1>3 DEF HoldsItsClaim
  <2>2. \A t \in s.tasks : c0.id # t.takeId
    BY <1>2 DEF Unused
  <2> QED BY <1>3, <2>1, <2>2 DEF TasksFit, TakesAreNamed, TakersClaim, ClaimsOfTakers, Good
<1> QED BY <1>3, <1>4, <1>5, <1>6, <1>7 DEF Good, n

LEMMA AskKeeps ==
  ASSUME NEW s, Good(s), NEW e \in Events, e.kind = "ask", MayAsk(s, e), Unused(s, e.id)
  PROVE  Good(Asked(s, e))
<1> DEFINE n == Asked(s, e)
           a0 == AskOf(e)
<1>1. s \in Ledgers
  BY DEF Good
<1>2. /\ a0 \in AskRecs /\ a0.id = e.id /\ a0.askId = e.askId /\ a0.key = e.key
      /\ a0.from = e.from /\ a0.to = e.to
  BY EventFields DEF AskOf, AskRecs
<1>3. /\ n.asks = s.asks \cup {a0} /\ n.claims = s.claims /\ n.answers = s.answers
      /\ n.askIds = s.askIds \cup {e.askId} /\ n.tasks = s.tasks /\ n \in Ledgers
  BY <1>1, <1>2, EventFields DEF Asked, Ledgers
<1> HIDE DEF n, a0
<1>4. ClaimsApart(n)
  BY <1>3 DEF ClaimsApart, Good
<1>5. AsksFit(n)
  <2>1. IsFiniteSet(n.asks)
    BY <1>3, FS_AddElement DEF AsksFit, Good
  <2>2. \A a \in s.asks : /\ a.id # a0.id /\ a.askId # a0.askId
                          /\ (a.key # a0.key \/ a.to # a0.to)
    BY <1>2 DEF Good, AsksFit, MayAsk, Unused
  <2>3. \A a, b \in n.asks : a # b => a.id # b.id /\ a.askId # b.askId /\ (a.key # b.key \/ a.to # b.to)
    BY <1>3, <2>2 DEF Good, AsksFit
  <2>4. \A a \in n.asks : a.from # a.to /\ a.askId \in n.askIds
    BY <1>2, <1>3 DEF Good, AsksFit, MayAsk
  <2>5. ASSUME NEW p \in Procs, NEW q \in Procs PROVE Cardinality(Between(n, p, q)) <= MaxAsksFromTo
    <3>1. IsFiniteSet(Between(s, p, q)) /\ Cardinality(Between(s, p, q)) <= MaxAsksFromTo
      BY FS_Subset DEF Between, Good, AsksFit
    <3>2. CASE p = e.from /\ q = e.to
      <4>1. Between(n, p, q) = Between(s, p, q) \cup {a0}
        BY <1>2, <1>3, <3>2 DEF Between
      <4>2. Cardinality(Between(n, p, q)) <= Cardinality(Between(s, p, q)) + 1
        BY <3>1, <4>1, FS_AddElement, FS_CardinalityType
      <4>3. Cardinality(Between(s, p, q)) < MaxAsksFromTo
        BY <3>2 DEF MayAsk
      <4> QED BY <3>1, <4>1, <4>2, <4>3, FS_AddElement, FS_CardinalityType, StoreAssumption
    <3>3. CASE ~(p = e.from /\ q = e.to)
      <4>1. Between(n, p, q) = Between(s, p, q)
        BY <1>2, <1>3, <3>3 DEF Between
      <4> QED BY <3>1, <4>1
    <3> QED BY <3>2, <3>3
  <2> QED BY <2>1, <2>3, <2>4, <2>5 DEF AsksFit
<1>6. ReceiptsFit(n)
  <2>1. \A i \in 1..Len(s.answers) : s.answers[i].ask.askId # a0.askId
    BY <1>2 DEF Good, ReceiptsFit, MayAsk
  <2> QED BY <1>3, <2>1 DEF ReceiptsFit, Good
<1>7. TasksFit(n)
  BY <1>3 DEF TasksFit, TakesAreNamed, TakersClaim, ClaimsOfTakers, Good, HoldsItsClaim
<1> QED BY <1>3, <1>4, <1>5, <1>6, <1>7 DEF Good, n

\* Fewer questions still fit.
LEMMA FewerAsks ==
  ASSUME NEW s, AsksFit(s), NEW n, n.asks \subseteq s.asks,
         \A a \in n.asks : a.askId \in n.askIds
  PROVE  AsksFit(n)
<1>1. IsFiniteSet(n.asks)
  BY FS_Subset DEF AsksFit
<1>2. ASSUME NEW p \in Procs, NEW q \in Procs PROVE Cardinality(Between(n, p, q)) <= MaxAsksFromTo
  <2>1. IsFiniteSet(Between(s, p, q)) /\ Between(n, p, q) \subseteq Between(s, p, q)
    BY FS_Subset DEF Between, AsksFit
  <2>2. Cardinality(Between(n, p, q)) <= Cardinality(Between(s, p, q))
    BY <2>1, FS_Subset
  <2>3. IsFiniteSet(Between(n, p, q))
    BY <2>1, FS_Subset
  <2>4. Cardinality(Between(n, p, q)) \in Nat /\ Cardinality(Between(s, p, q)) \in Nat
    BY <2>1, <2>3, FS_CardinalityType
  <2>5. Cardinality(Between(s, p, q)) <= MaxAsksFromTo
    BY DEF AsksFit
  <2> QED BY <2>2, <2>4, <2>5, StoreAssumption
<1> QED BY <1>1, <1>2 DEF AsksFit

LEMMA AskInIs ==
  ASSUME NEW s, AsksFit(s), NEW a \in s.asks
  PROVE  AskIn(s, a.askId) = a
BY DEF AskIn, AsksFit

\* Receipts stay in order, the oldest goes when there are too many.
LEMMA LatestKeeps ==
  ASSUME NEW V, NEW seq \in Seq(V), Len(seq) <= MaxResults, NEW r \in V
  PROVE  LET m == Latest(Append(seq, r), MaxResults) IN
         /\ m \in Seq(V) /\ Len(m) <= MaxResults
         /\ Len(m) \in 1..(Len(seq) + 1)
         /\ \A i \in 1..Len(m) : m[i] = Append(seq, r)[i + (Len(seq) + 1 - Len(m))]
         /\ Len(seq) < MaxResults => m = Append(seq, r)
<1> DEFINE w == Append(seq, r)
<1>1. w \in Seq(V) /\ Len(w) = Len(seq) + 1 /\ Len(seq) \in Nat
  OBVIOUS
<1> HIDE DEF w
<1>2. MaxResults \in Nat /\ MaxResults >= 1
  BY StoreAssumption
<1>3. CASE Len(w) <= MaxResults
  BY <1>1, <1>2, <1>3 DEF Latest, w
<1>4. CASE ~(Len(w) <= MaxResults)
  <2>1. Len(w) = MaxResults + 1 /\ Len(w) - MaxResults + 1 = 2
    BY <1>1, <1>2, <1>4
  <2>2. Latest(w, MaxResults) = SubSeq(w, 2, Len(w))
    BY <1>4, <2>1 DEF Latest
  <2> DEFINE m == SubSeq(w, 2, Len(w))
  <2>3. m \in Seq(V) /\ Len(m) = Len(w) - 1 /\ \A i \in 1..Len(m) : m[i] = w[i + 1]
    BY <1>1, <1>2, <2>1
  <2> HIDE DEF m
  <2>4. Len(m) = MaxResults /\ Len(seq) + 1 - Len(m) = 1 /\ Len(seq) = MaxResults
    BY <1>1, <1>2, <2>1, <2>3
  <2> QED BY <1>1, <1>2, <2>2, <2>3, <2>4 DEF m, w
<1> QED BY <1>3, <1>4

LEMMA AnswerKeeps ==
  ASSUME NEW s, Good(s), NEW e \in Events, e.kind = "answer", MayAnswer(s, e)
  PROVE  Good(Answered(s, e))
<1> DEFINE n == Answered(s, e)
<1>1. s \in Ledgers
  BY DEF Good
<1>2. PICK a \in s.asks : a.askId = e.askId
  BY DEF MayAnswer
<1>3. AskIn(s, e.askId) = a
  BY <1>2, AskInIs DEF Good
<1> DEFINE r == [id |-> e.id, ask |-> a]
           w == Append(s.answers, r)
<1>4. r \in ReceiptRecs /\ r.ask = a
  BY <1>1, EventFields DEF ReceiptRecs, Ledgers
<1>5. s.answers \in Seq(ReceiptRecs) /\ Len(s.answers) \in Nat /\ Len(s.answers) <= MaxResults
  BY <1>1 DEF Ledgers, Good, ReceiptsFit
<1>6. /\ n.asks = {b \in s.asks : b.askId # e.askId} /\ n.claims = s.claims
      /\ n.answers = Latest(w, MaxResults) /\ n.askIds = s.askIds /\ n.tasks = s.tasks
  BY <1>1, <1>3 DEF Answered, Ledgers
<1> HIDE DEF r, n
<1>7. /\ n.answers \in Seq(ReceiptRecs) /\ Len(n.answers) <= MaxResults
      /\ Len(n.answers) \in 1..(Len(s.answers) + 1)
      /\ \A i \in 1..Len(n.answers) : n.answers[i] = w[i + (Len(s.answers) + 1 - Len(n.answers))]
  <2>1. LET m == Latest(Append(s.answers, r), MaxResults) IN
         /\ m \in Seq(ReceiptRecs) /\ Len(m) <= MaxResults
         /\ Len(m) \in 1..(Len(s.answers) + 1)
         /\ \A i \in 1..Len(m) : m[i] = Append(s.answers, r)[i + (Len(s.answers) + 1 - Len(m))]
    BY <1>4, <1>5, LatestKeeps
  <2> QED BY <1>6, <2>1
<1>8. n \in Ledgers
  BY <1>1, <1>6, <1>7 DEF Ledgers, Answered, n
<1>9. ClaimsApart(n)
  BY <1>6 DEF ClaimsApart, Good
<1>10. AsksFit(n)
  BY <1>6, FewerAsks DEF Good, AsksFit
<1>11. ReceiptsFit(n)
  <2> DEFINE Old(i) == w[i].ask
  <2>1. \A i \in 1..Len(s.answers) : w[i] = s.answers[i]
    BY <1>5
  <2>2. w[Len(s.answers) + 1] = r /\ a.askId \in s.askIds /\ a.from # a.to
    BY <1>5 DEF Good, AsksFit
  <2>3. \A b \in n.asks : b \in s.asks /\ b.askId # a.askId
    BY <1>2, <1>6
  <2> HIDE DEF w
  <2>4. \A i \in 1..(Len(s.answers) + 1) :
          w[i].ask.from # w[i].ask.to /\ w[i].ask.askId \in s.askIds /\ \A b \in n.asks : b.askId # w[i].ask.askId
    <3> TAKE i \in 1..(Len(s.answers) + 1)
    <3>1. CASE i = Len(s.answers) + 1
      BY <1>4, <2>2, <2>3, <3>1
    <3>2. CASE i # Len(s.answers) + 1
      <4>1. i \in 1..Len(s.answers)
        BY <1>5, <3>2
      <4> QED BY <2>1, <2>3, <4>1 DEF Good, ReceiptsFit
    <3> QED BY <3>1, <3>2
  <2>5. \A i, k \in 1..(Len(s.answers) + 1) : w[i].ask.askId = w[k].ask.askId => i = k
    <3>1. \A i \in 1..Len(s.answers) : w[i].ask.askId # a.askId
      BY <2>1 DEF Good, ReceiptsFit
    <3>2. \A i, k \in 1..Len(s.answers) : w[i].ask.askId = w[k].ask.askId => i = k
      BY <2>1 DEF Good, ReceiptsFit
    <3>3. \A i \in 1..(Len(s.answers) + 1) : i = Len(s.answers) + 1 \/ i \in 1..Len(s.answers)
      BY <1>5
    <3> QED BY <1>4, <2>2, <3>1, <3>2, <3>3
  <2> DEFINE L == Len(s.answers)
             M == Len(n.answers)
             At(i) == i + (L + 1 - M)
  <2>6. L \in Nat /\ M \in 1..(L + 1) /\ \A i \in 1..M : n.answers[i] = w[At(i)]
    BY <1>5, <1>7
  <2> HIDE DEF L, M
  <2>7. \A i \in 1..M : At(i) \in 1..(L + 1)
    BY <2>6
  <2>8. \A i, k \in 1..M : At(i) = At(k) => i = k
    BY <2>6
  <2> HIDE DEF At
  <2>9. \A i \in 1..M : LET a1 == n.answers[i].ask IN
          a1.from # a1.to /\ a1.askId \in s.askIds /\ \A b \in n.asks : b.askId # a1.askId
    BY <2>4, <2>6, <2>7 DEF L
  <2>10. \A i, k \in 1..M : n.answers[i].ask.askId = n.answers[k].ask.askId => i = k
    BY <2>5, <2>6, <2>7, <2>8 DEF L
  <2> QED BY <1>6, <1>7, <2>9, <2>10 DEF ReceiptsFit, M
<1>12. TasksFit(n)
  BY <1>6 DEF TasksFit, TakesAreNamed, TakersClaim, ClaimsOfTakers, Good, HoldsItsClaim
<1> QED BY <1>8, <1>9, <1>10, <1>11, <1>12 DEF Good, n

LEMMA CreateKeeps ==
  ASSUME NEW s, Good(s), NEW e \in Events, e.kind = "task_create", MayCreate(s, e), Unused(s, e.id)
  PROVE  Good(Created(s, e))
<1> DEFINE n == Created(s, e)
           t0 == NewTask(e)
<1>1. s \in Ledgers
  BY DEF Good
<1>2. t0 \in TaskRecs /\ t0.key = e.key /\ t0.status = "open" /\ t0.takeId = 0 /\ t0.taker = NoTaker
  BY EventFields, StoreAssumption DEF NewTask, TaskRecs
<1>3. /\ n.tasks = s.tasks \cup {t0} /\ n.asks = s.asks /\ n.answers = s.answers
      /\ n.askIds = s.askIds /\ n.claims = s.claims /\ n \in Ledgers
  BY <1>1, <1>2 DEF Created, Ledgers
<1> HIDE DEF n, t0
<1>4. ClaimsApart(n) /\ ReceiptsFit(n)
  BY <1>3 DEF ClaimsApart, ReceiptsFit, Good
<1>5. AsksFit(n)
  BY <1>3 DEF AsksFit, Good, Between
<1>6. TasksFit(n)
  <2>1. \A c \in s.claims : c.id # 0
    BY <1>1, StoreAssumption DEF Ledgers, ClaimRecs, MsgIds
  <2>2. \A t \in s.tasks : t.key # t0.key
    BY <1>2 DEF MayCreate
  <2>3. TasksParse(n.tasks)
    BY <1>2, <1>3, <2>2 DEF TasksParse, TasksFit, TakesAreNamed, TakersClaim, ClaimsOfTakers, Good
  <2>4. \A t \in s.tasks : HoldsItsClaim(s, t) => HoldsItsClaim(n, t)
    BY <1>3 DEF HoldsItsClaim
  <2> QED BY <1>2, <1>3, <2>1, <2>3, <2>4 DEF TasksFit, TakesAreNamed, TakersClaim, ClaimsOfTakers, Good
<1> QED BY <1>3, <1>4, <1>5, <1>6 DEF Good, n

LEMMA TakeKeeps ==
  ASSUME NEW s, Good(s), NEW e \in Events, e.kind = "task_take", MayTake(s, e), Unused(s, e.id)
  PROVE  Good(Took(s, e))
<1> DEFINE n == Took(s, e)
<1>1. s \in Ledgers
  BY DEF Good
<1>2. PICK t0 \in s.tasks : IsTask(t0, e) /\ t0.status = "open"
  BY DEF MayTake
<1>3. \A t \in s.tasks : (t.key = e.key <=> t = t0) /\ (IsTask(t, e) <=> t = t0)
  BY <1>2 DEF IsTask, Good, TasksFit, TakesAreNamed, TakersClaim, ClaimsOfTakers, TasksParse
<1>4. PathsOf(s, e) = t0.paths
  BY <1>3 DEF PathsOf
<1>5. t0 \in TaskRecs /\ s.tasks \subseteq TaskRecs
  BY <1>1 DEF Ledgers
<1> DEFINE t1 == [t0 EXCEPT !.taker = e.from, !.takeId = e.id, !.status = "taken"]
           c0 == ClaimOf(e, t0.paths)
           mine == IF t0.paths = {} THEN {} ELSE {c0}
<1>6. /\ t1 \in TaskRecs /\ t1.id = t0.id /\ t1.key = t0.key /\ t1.paths = t0.paths
      /\ t1.taker = e.from /\ t1.takeId = e.id /\ t1.status = "taken"
  <2>1. e.id \in 0..MaxEvents /\ e.from \in Procs
    BY EventFields, StoreAssumption DEF MsgIds
  <2> QED BY <1>5, <2>1 DEF TaskRecs
<1>7. /\ c0 \in ClaimRecs /\ c0.id = e.id /\ c0.key = e.key /\ c0.from = e.from /\ c0.paths = t0.paths
  BY <1>5, EventFields DEF ClaimOf, ClaimRecs, TaskRecs
<1>8. {TakenBy(t, e) : t \in s.tasks} = (s.tasks \ {t0}) \cup {t1}
  <2>1. \A t \in s.tasks : TakenBy(t, e) = IF t = t0 THEN t1 ELSE t
    BY <1>3 DEF TakenBy
  <2> HIDE DEF t1
  <2> QED BY <1>2, <2>1
<1>9. /\ n.tasks = (s.tasks \ {t0}) \cup {t1} /\ n.claims = s.claims \cup mine
      /\ n.asks = s.asks /\ n.answers = s.answers /\ n.askIds = s.askIds /\ n \in Ledgers
  <2> HIDE DEF t1, c0
  <2>1. mine \subseteq ClaimRecs
    BY <1>7
  <2>2. Took(s, e) = [s EXCEPT !.tasks = (s.tasks \ {t0}) \cup {t1}, !.claims = s.claims \cup mine]
    BY <1>4, <1>8 DEF Took, c0
  <2> HIDE DEF mine
  <2>3. (s.tasks \ {t0}) \cup {t1} \subseteq TaskRecs
    BY <1>5, <1>6
  <2>4. s.claims \cup mine \subseteq ClaimRecs
    BY <1>1, <2>1 DEF Ledgers
  <2>5. /\ n.tasks = (s.tasks \ {t0}) \cup {t1} /\ n.claims = s.claims \cup mine
        /\ n.asks = s.asks /\ n.answers = s.answers /\ n.askIds = s.askIds
    BY <1>1, <2>2 DEF Ledgers
  <2>6. n \in Ledgers
    BY <1>1, <2>2, <2>3, <2>4 DEF Ledgers
  <2> QED BY <2>5, <2>6
<1> HIDE DEF n, t1, c0
<1>10. ClaimsApart(n)
  <2>1. \A c \in s.claims : c.id # e.id
    BY DEF Unused
  <2>2. t0.paths # {} => \A c \in s.claims : ~Overlap(c.paths, t0.paths)
    BY <1>4 DEF MayTake
  <2> QED BY <1>7, <1>9, <2>1, <2>2, OverlapSymmetric DEF ClaimsApart, Good
<1>11. AsksFit(n)
  BY <1>9 DEF AsksFit, Good, Between
<1>12. ReceiptsFit(n)
  BY <1>9 DEF ReceiptsFit, Good
<1>13. TasksFit(n)
  <2>1. /\ \A c \in s.claims : c.id # e.id
        /\ \A t \in s.tasks : t.takeId # e.id
        /\ e.id # 0 /\ e.from \in Procs /\ e.from # NoTaker
    BY EventFields, StoreAssumption DEF Unused, MsgIds
  <2>2. TasksParse(n.tasks)
    <3>1. \A t \in s.tasks : t.key = t1.key => t = t0
      BY <1>2, <1>3, <1>6 DEF IsTask
    <3>2. \A t, u \in n.tasks : t.key = u.key => t = u
      BY <1>9, <3>1 DEF Good, TasksFit, TakesAreNamed, TakersClaim, ClaimsOfTakers, TasksParse
    <3> QED BY <1>6, <1>9, <2>1, <3>2 DEF Good, TasksFit, TakesAreNamed, TakersClaim, ClaimsOfTakers, TasksParse
  <2>3. /\ \A t \in n.tasks : t.status = "open" => t.takeId = 0 /\ t.taker = NoTaker
        /\ \A t \in n.tasks : t.status = "taken" => t.takeId # 0
    BY <1>6, <1>9, <2>1 DEF Good, TasksFit, TakesAreNamed, TakersClaim, ClaimsOfTakers
  <2>4. ASSUME NEW t \in n.tasks, t.status = "taken", t.paths # {} PROVE HoldsItsClaim(n, t)
    <3>1. CASE t = t1
      <4>1. c0 \in n.claims
        BY <1>6, <1>9, <2>4, <3>1
      <4> QED BY <1>2, <1>6, <1>7, <3>1, <4>1 DEF HoldsItsClaim, IsTask
    <3>2. CASE t \in s.tasks
      <4>1. HoldsItsClaim(s, t)
        BY <2>4, <3>2 DEF Good, TasksFit, TakesAreNamed, TakersClaim, ClaimsOfTakers
      <4> QED BY <1>9, <4>1 DEF HoldsItsClaim
    <3> QED BY <1>9, <3>1, <3>2
  <2>5. \A t, u \in n.tasks : t.takeId = u.takeId /\ t.takeId # 0 => t = u
    BY <1>6, <1>9, <2>1 DEF Good, TasksFit, TakesAreNamed, TakersClaim, ClaimsOfTakers
  <2>6. ASSUME NEW t \in n.tasks, NEW c \in n.claims, c.id = t.takeId
        PROVE  t.status = "taken" /\ c.from = t.taker /\ c.key = t.key
    <3>1. CASE t = t1
      <4>1. c = c0
        BY <1>6, <1>9, <2>1, <2>6, <3>1
      <4> QED BY <1>2, <1>6, <1>7, <3>1, <4>1 DEF IsTask
    <3>2. CASE t \in s.tasks
      <4>1. c \in s.claims
        BY <1>7, <1>9, <2>1, <2>6, <3>2
      <4> QED BY <2>6, <3>2, <4>1 DEF Good, TasksFit, TakesAreNamed, TakersClaim, ClaimsOfTakers
    <3> QED BY <1>9, <3>1, <3>2
  <2>7. \A t \in n.tasks : t.status = "taken" /\ t.paths # {} => HoldsItsClaim(n, t)
    BY <2>4
  <2>8. \A t \in n.tasks, c \in n.claims :
          c.id = t.takeId => t.status = "taken" /\ c.from = t.taker /\ c.key = t.key
    BY <2>6
  <2>9. TakesAreNamed(n)
    BY <2>3, <2>5 DEF TakesAreNamed
  <2>10. TakersClaim(n) /\ ClaimsOfTakers(n)
    BY <2>7, <2>8 DEF TakersClaim, ClaimsOfTakers
  <2> QED BY <2>2, <2>9, <2>10 DEF TasksFit
<1> QED BY <1>9, <1>10, <1>11, <1>12, <1>13 DEF Good, n

\* A task may end.
Moves(t, u) ==
  /\ u.key = t.key /\ u.takeId = t.takeId /\ u.taker = t.taker /\ u.paths = t.paths
  /\ \/ u.status = t.status
     \/ u.status = "stale"
     \/ u.status = "done" /\ t.taker # NoTaker

\* Of the tasks Ts of s, f is what became of each; claims and questions only go.
Ends(s, n, Ts, f) ==
  /\ Ts \subseteq s.tasks
  /\ n.claims \subseteq s.claims /\ n.asks \subseteq s.asks
  /\ \A a \in n.asks : a.askId \in n.askIds
  /\ \A u \in n.tasks : \E t \in Ts : u = f[t]
  /\ \A t \in Ts : Moves(t, f[t])
  /\ \A t \in Ts, c \in s.claims : c.id = t.takeId => (c \in n.claims <=> f[t].status = "taken")

LEMMA TasksMove ==
  ASSUME NEW s, Good(s), NEW n, NEW Ts, NEW f, Ends(s, n, Ts, f)
  PROVE  ClaimsApart(n) /\ AsksFit(n) /\ TasksFit(n)
<1>e. /\ Ts \subseteq s.tasks
      /\ n.claims \subseteq s.claims /\ n.asks \subseteq s.asks
      /\ \A a \in n.asks : a.askId \in n.askIds
      /\ \A u \in n.tasks : \E t \in Ts : u = f[t]
      /\ \A t \in Ts, c \in s.claims : c.id = t.takeId => (c \in n.claims <=> f[t].status = "taken")
  BY DEF Ends
<1>0. \A t \in Ts : t \in s.tasks /\ Moves(t, f[t])
  BY DEF Ends
<1>s. /\ ClaimsApart(s) /\ TasksParse(s.tasks) /\ TakesAreNamed(s) /\ TakersClaim(s) /\ ClaimsOfTakers(s)
  BY DEF Good, TasksFit
<1>1. ClaimsApart(n)
  BY <1>e DEF ClaimsApart, Good
<1>2. AsksFit(n)
  BY <1>e, FewerAsks DEF Good
<1>3. TasksParse(n.tasks)
  <2>1. \A t \in Ts : f[t].status \in {"taken", "done"} => f[t].taker # NoTaker
    BY <1>0, <1>s DEF Moves, TasksParse
  <2>2. \A t, u \in Ts : f[t].key = f[u].key => t = u
    BY <1>0, <1>s DEF Moves, TasksParse
  <2> QED BY <1>e, <2>1, <2>2 DEF TasksParse
<1>4. ASSUME NEW t \in Ts
      PROVE  /\ f[t].status = "open" => f[t].takeId = 0 /\ f[t].taker = NoTaker
             /\ f[t].status = "taken" => f[t].takeId # 0
             /\ f[t].status = "taken" /\ f[t].paths # {} => HoldsItsClaim(n, f[t])
  <2>1. t \in s.tasks
    BY <1>e
  <2>2. /\ f[t].status \in {"open", "taken"} => f[t].status = t.status
        /\ f[t].takeId = t.takeId /\ f[t].taker = t.taker /\ f[t].key = t.key /\ f[t].paths = t.paths
    BY <1>0 DEF Moves
  <2>3. f[t].status = "taken" /\ f[t].paths # {} => HoldsItsClaim(n, f[t])
    <3> SUFFICES ASSUME f[t].status = "taken", f[t].paths # {} PROVE HoldsItsClaim(n, f[t])
      OBVIOUS
    <3>1. HoldsItsClaim(s, t)
      BY <1>s, <2>1, <2>2 DEF TakersClaim
    <3>2. PICK c \in s.claims : c.id = t.takeId /\ c.from = t.taker /\ c.key = t.key /\ c.paths = t.paths
      BY <3>1 DEF HoldsItsClaim
    <3>3. c \in n.claims
      BY <1>e, <3>2
    <3> QED BY <2>2, <3>2, <3>3 DEF HoldsItsClaim
  <2> QED BY <1>s, <2>1, <2>2, <2>3 DEF TakesAreNamed
<1>5. \A t, u \in n.tasks : t.takeId = u.takeId /\ t.takeId # 0 => t = u
  <2>1. \A t, u \in Ts : f[t].takeId = f[u].takeId /\ f[t].takeId # 0 => t = u
    BY <1>0, <1>s DEF Moves, TakesAreNamed
  <2> QED BY <1>e, <2>1
<1>6. ASSUME NEW t \in Ts, NEW c \in n.claims, c.id = f[t].takeId
      PROVE  f[t].status = "taken" /\ c.from = f[t].taker /\ c.key = f[t].key
  <2>1. c \in s.claims /\ t \in s.tasks /\ c.id = t.takeId
    BY <1>e, <1>0, <1>6 DEF Moves
  <2>2. c.from = t.taker /\ c.key = t.key
    BY <1>s, <2>1 DEF ClaimsOfTakers
  <2>3. f[t].status = "taken"
    BY <1>e, <1>6, <2>1
  <2> QED BY <1>0, <2>2, <2>3 DEF Moves
<1>7. /\ \A t \in n.tasks : t.status = "open" => t.takeId = 0 /\ t.taker = NoTaker
      /\ \A t \in n.tasks : t.status = "taken" => t.takeId # 0
  BY <1>e, <1>4
<1>11. TakersClaim(n)
  BY <1>e, <1>4 DEF TakersClaim
<1>8. \A t \in n.tasks, c \in n.claims :
        c.id = t.takeId => t.status = "taken" /\ c.from = t.taker /\ c.key = t.key
  BY <1>e, <1>6
<1>9. TakesAreNamed(n)
  BY <1>5, <1>7 DEF TakesAreNamed
<1>10. ClaimsOfTakers(n)
  BY <1>8 DEF ClaimsOfTakers
<1> QED BY <1>1, <1>2, <1>3, <1>9, <1>10, <1>11 DEF TasksFit

LEMMA FinishKeeps ==
  ASSUME NEW s, Good(s), NEW e \in Events, e.kind = "task_finish", MayFinish(s, e)
  PROVE  Good(Finished(s, e))
<1> DEFINE n == Finished(s, e)
           f == [t \in s.tasks |-> FinishedBy(t, e)]
<1>1. s \in Ledgers /\ s.tasks \subseteq TaskRecs
  BY DEF Good, Ledgers
<1>s. /\ ReceiptsFit(s) /\ AsksFit(s)
      /\ TasksParse(s.tasks) /\ TakesAreNamed(s) /\ TakersClaim(s) /\ ClaimsOfTakers(s)
  BY DEF Good, TasksFit
<1>2. PICK t0 \in s.tasks : IsTask(t0, e) /\ t0.status = "taken"
  BY DEF MayFinish
<1>3. \A t \in s.tasks : IsTask(t, e) => t = t0
  BY <1>2, <1>s DEF IsTask, TasksParse
<1>4. \A t \in s.tasks : f[t] \in TaskRecs /\ Moves(t, f[t])
  <2> TAKE t \in s.tasks
  <2>1. t \in TaskRecs
    BY <1>1
  <2>2. CASE IsTask(t, e)
    <3>1. f[t] = [t EXCEPT !.status = "done"]
      BY <2>2 DEF FinishedBy
    <3>2. t.taker # NoTaker
      BY <1>2, <1>3, <1>s, <2>2 DEF TasksParse
    <3> HIDE DEF f
    <3> QED BY <2>1, <3>1, <3>2 DEF TaskRecs, Moves
  <2>3. CASE ~IsTask(t, e)
    BY <2>1, <2>3 DEF FinishedBy, Moves
  <2> QED BY <2>2, <2>3
<1>5. /\ n.claims = {c \in s.claims : \A t \in s.tasks : ~(IsTask(t, e) /\ t.takeId = c.id)}
      /\ n.tasks = {f[t] : t \in s.tasks}
      /\ n.asks = s.asks /\ n.answers = s.answers /\ n.askIds = s.askIds
  BY <1>1 DEF Finished, Ledgers
<1>6. n \in Ledgers
  <2>1. n = [s EXCEPT !.tasks = n.tasks, !.claims = n.claims]
    BY <1>1, <1>5 DEF Finished, Ledgers
  <2> HIDE DEF n, f
  <2>2. n.tasks \subseteq TaskRecs /\ n.claims \subseteq ClaimRecs
    BY <1>1, <1>4, <1>5 DEF Ledgers
  <2> QED BY <1>1, <2>1, <2>2 DEF Ledgers
<1>7. ASSUME NEW t \in s.tasks, NEW c \in s.claims, c.id = t.takeId
      PROVE  c \in n.claims <=> f[t].status = "taken"
  <2>1. t.status = "taken" /\ t.takeId # 0
    BY <1>7, <1>s DEF ClaimsOfTakers, TakesAreNamed
  <2>2. CASE IsTask(t, e)
    <3>1. c \notin n.claims
      BY <1>5, <1>7, <2>2
    <3>2. f[t].status = "done"
      BY <1>1, <2>2 DEF FinishedBy, TaskRecs
    <3> QED BY <3>1, <3>2
  <2>3. CASE ~IsTask(t, e)
    <3>1. \A u \in s.tasks : u.takeId = c.id => u = t
      BY <1>7, <1>s, <2>1 DEF TakesAreNamed
    <3>2. c \in n.claims
      BY <1>5, <2>3, <3>1
    <3>3. f[t] = t
      BY <2>3 DEF FinishedBy
    <3> QED BY <2>1, <3>2, <3>3
  <2> QED BY <2>2, <2>3
<1> HIDE DEF n, f
<1>8. ClaimsApart(n) /\ AsksFit(n) /\ TasksFit(n)
  <2>1. \A a \in n.asks : a.askId \in n.askIds
    BY <1>5, <1>s DEF AsksFit
  <2>2. n.claims \subseteq s.claims /\ n.asks \subseteq s.asks
    BY <1>5
  <2>3. s.tasks \in SUBSET s.tasks /\ (\A u \in n.tasks : \E t \in s.tasks : u = f[t]) /\ \A t \in s.tasks : Moves(t, f[t])
    BY <1>4, <1>5
  <2>4. \A t \in s.tasks, c \in s.claims : c.id = t.takeId => (c \in n.claims <=> f[t].status = "taken")
    BY <1>7
  <2>5. Ends(s, n, s.tasks, f)
    BY <2>1, <2>2, <2>3, <2>4 DEF Ends
  <2> QED BY <2>5, TasksMove
<1>9. ReceiptsFit(n)
  BY <1>5, <1>s DEF ReceiptsFit
<1> QED BY <1>6, <1>8, <1>9 DEF Good, n

LEMMA ReleaseKeeps ==
  ASSUME NEW s, Good(s), NEW e \in Events, e.kind = "release"
  PROVE  Good(Released(s, e))
<1> DEFINE n == Released(s, e)
           f == [t \in s.tasks |-> GivenUp(t, e)]
<1>1. s \in Ledgers /\ s.tasks \subseteq TaskRecs
  BY DEF Good, Ledgers
<1>s. /\ ReceiptsFit(s) /\ AsksFit(s)
      /\ TasksParse(s.tasks) /\ TakesAreNamed(s) /\ TakersClaim(s) /\ ClaimsOfTakers(s)
  BY DEF Good, TasksFit
<1>4. \A t \in s.tasks : f[t] \in TaskRecs /\ Moves(t, f[t])
  <2> TAKE t \in s.tasks
  <2>1. t \in TaskRecs
    BY <1>1
  <2>2. CASE MineToEnd(t, e)
    <3>1. f[t] = [t EXCEPT !.status = "stale"]
      BY <2>2 DEF GivenUp
    <3> HIDE DEF f
    <3> QED BY <2>1, <3>1 DEF TaskRecs, Moves
  <2>3. CASE ~MineToEnd(t, e)
    BY <2>1, <2>3 DEF GivenUp, Moves
  <2> QED BY <2>2, <2>3
<1>5. /\ n.claims = {c \in s.claims : ~Mine(c, e)}
      /\ n.tasks = {f[t] : t \in s.tasks}
      /\ n.asks = {a \in s.asks : ~Mine(a, e)} /\ n.answers = s.answers /\ n.askIds = s.askIds
  BY <1>1 DEF Released, Ledgers
<1>6. n \in Ledgers
  <2>1. n = [s EXCEPT !.tasks = n.tasks, !.claims = n.claims, !.asks = n.asks]
    BY <1>1, <1>5 DEF Released, Ledgers
  <2> HIDE DEF n, f
  <2>2. n.tasks \subseteq TaskRecs /\ n.claims \subseteq ClaimRecs /\ n.asks \subseteq AskRecs
    BY <1>1, <1>4, <1>5 DEF Ledgers
  <2> QED BY <1>1, <2>1, <2>2 DEF Ledgers
<1>7. ASSUME NEW t \in s.tasks, NEW c \in s.claims, c.id = t.takeId
      PROVE  c \in n.claims <=> f[t].status = "taken"
  <2>1. t.status = "taken" /\ c.from = t.taker /\ c.key = t.key
    BY <1>7, <1>s DEF ClaimsOfTakers
  <2>2. Owner(t) = t.taker
    BY <2>1, <1>s DEF Owner, TasksParse
  <2>3. MineToEnd(t, e) <=> Mine(c, e)
    BY <2>1, <2>2 DEF MineToEnd, Mine, Unfinished
  <2>4. c \in n.claims <=> ~Mine(c, e)
    BY <1>5
  <2>5. CASE MineToEnd(t, e)
    <3>1. f[t].status = "stale"
      BY <1>1, <2>5 DEF GivenUp, TaskRecs
    <3> QED BY <2>3, <2>4, <2>5, <3>1
  <2>6. CASE ~MineToEnd(t, e)
    <3>1. f[t] = t
      BY <2>6 DEF GivenUp
    <3> QED BY <2>1, <2>3, <2>4, <2>6, <3>1
  <2> QED BY <2>5, <2>6
<1> HIDE DEF n, f
<1>8. ClaimsApart(n) /\ AsksFit(n) /\ TasksFit(n)
  <2>1. \A a \in n.asks : a.askId \in n.askIds
    BY <1>5, <1>s DEF AsksFit
  <2>2. n.claims \subseteq s.claims /\ n.asks \subseteq s.asks
    BY <1>5
  <2>3. s.tasks \in SUBSET s.tasks /\ (\A u \in n.tasks : \E t \in s.tasks : u = f[t]) /\ \A t \in s.tasks : Moves(t, f[t])
    BY <1>4, <1>5
  <2>4. \A t \in s.tasks, c \in s.claims : c.id = t.takeId => (c \in n.claims <=> f[t].status = "taken")
    BY <1>7
  <2>5. Ends(s, n, s.tasks, f)
    BY <2>1, <2>2, <2>3, <2>4 DEF Ends
  <2> QED BY <2>5, TasksMove
<1>9. ReceiptsFit(n)
  BY <1>5, <1>s DEF ReceiptsFit
<1> QED BY <1>6, <1>8, <1>9 DEF Good, n

\* pruneLedger leaves a good state, whoever is live.
LEMMA PruneKeeps ==
  ASSUME NEW s, Good(s), NEW live, NEW aged \in BOOLEAN
  PROVE  Good(Prune(s, live, aged))
<1> DEFINE n == Prune(s, live, aged)
           Ts == {u \in s.tasks : ~(aged /\ Terminal(u))}
           f == [t \in Ts |-> Stale(t, live)]
<1>1. s \in Ledgers /\ s.tasks \subseteq TaskRecs
  BY DEF Good, Ledgers
<1>s. /\ ReceiptsFit(s) /\ AsksFit(s)
      /\ TasksParse(s.tasks) /\ TakesAreNamed(s) /\ TakersClaim(s) /\ ClaimsOfTakers(s)
  BY DEF Good, TasksFit
<1>4. \A t \in Ts : f[t] \in TaskRecs /\ Moves(t, f[t])
  <2> TAKE t \in Ts
  <2>1. t \in TaskRecs
    BY <1>1
  <2>2. CASE Stale(t, live) = [t EXCEPT !.status = "stale"]
    <3>1. f[t] = [t EXCEPT !.status = "stale"]
      BY <2>2
    <3> HIDE DEF f
    <3> QED BY <2>1, <3>1 DEF TaskRecs, Moves
  <2>3. CASE Stale(t, live) = t
    BY <2>1, <2>3 DEF Moves
  <2> QED BY <2>2, <2>3 DEF Stale
<1> DEFINE kept == IF aged THEN <<>> ELSE s.answers
           asked == {a \in s.asks : {a.from, a.to} \subseteq live}
           pruned == [s EXCEPT !.claims = {c \in s.claims : c.from \in live}, !.asks = asked,
                               !.answers = kept, !.tasks = {f[t] : t \in Ts}]
<1>2. {f[t] : t \in Ts} = {Stale(t, live) : t \in Ts}
  OBVIOUS
<1>3. n = [pruned EXCEPT !.askIds = AskIdsOf(pruned)]
  BY <1>2 DEF Prune
<1>10. pruned.asks = asked /\ pruned.answers = kept
  BY <1>1 DEF Ledgers
<1>5. /\ n.claims = {c \in s.claims : c.from \in live}
      /\ n.tasks = {f[t] : t \in Ts}
      /\ n.asks = asked /\ n.answers = kept
      /\ n.askIds = {a.askId : a \in asked} \cup {kept[i].ask.askId : i \in DOMAIN kept}
  <2>1. AskIdsOf(pruned) = {a.askId : a \in asked} \cup {kept[i].ask.askId : i \in DOMAIN kept}
    BY <1>10 DEF AskIdsOf
  <2> HIDE DEF f, Ts, asked, kept, n
  <2> QED BY <1>1, <1>3, <2>1 DEF Ledgers
<1>11. kept \in Seq(ReceiptRecs)
  BY <1>1 DEF Ledgers
<1>6. n \in Ledgers
  <2>1. n = [s EXCEPT !.claims = n.claims, !.asks = n.asks, !.answers = n.answers, !.tasks = n.tasks, !.askIds = n.askIds]
    <3> HIDE DEF f, Ts, asked, kept, n
    <3> QED BY <1>1, <1>3, <1>5 DEF Ledgers
  <2> HIDE DEF n, f, Ts, kept
  <2>2. n.tasks \subseteq TaskRecs /\ n.claims \subseteq ClaimRecs /\ n.asks \subseteq AskRecs
    BY <1>1, <1>4, <1>5 DEF Ledgers
  <2>3. n.askIds \subseteq AskIds
    <3>1. \A a \in asked : a.askId \in AskIds
      BY <1>1 DEF Ledgers, AskRecs
    <3>2. \A i \in DOMAIN kept : kept[i].ask.askId \in AskIds
      <4>1. \A i \in DOMAIN kept : kept[i] \in ReceiptRecs
        BY <1>11
      <4> QED BY <4>1 DEF ReceiptRecs, AskRecs
    <3> QED BY <1>5, <3>1, <3>2
  <2> QED BY <1>1, <1>5, <1>11, <2>1, <2>2, <2>3 DEF Ledgers
<1>7. ASSUME NEW t \in Ts, NEW c \in s.claims, c.id = t.takeId
      PROVE  c \in n.claims <=> f[t].status = "taken"
  <2>1. t.status = "taken" /\ c.from = t.taker /\ c.key = t.key
    BY <1>7, <1>s DEF ClaimsOfTakers
  <2>2. Owner(t) = t.taker /\ Unfinished(t)
    BY <2>1, <1>s DEF Owner, TasksParse, Unfinished
  <2>4. c \in n.claims <=> t.taker \in live
    BY <1>5, <2>1
  <2>5. CASE t.taker \notin live
    <3>1. f[t] = [t EXCEPT !.status = "stale"]
      BY <2>2, <2>5 DEF Stale
    <3>2. f[t].status = "stale"
      BY <1>1, <3>1 DEF TaskRecs
    <3> QED BY <2>4, <2>5, <3>2
  <2>6. CASE t.taker \in live
    <3>1. f[t] = t
      BY <2>2, <2>6 DEF Stale
    <3> QED BY <2>1, <2>4, <2>6, <3>1
  <2> QED BY <2>5, <2>6
<1>8. ClaimsApart(n) /\ AsksFit(n) /\ TasksFit(n)
  <2>1. \A a \in n.asks : a.askId \in n.askIds
    BY <1>5
  <2>2. n.claims \subseteq s.claims /\ n.asks \subseteq s.asks
    BY <1>5
  <2>3. Ts \in SUBSET s.tasks
    OBVIOUS
  <2> HIDE DEF n, f, Ts, asked, kept
  <2>4. (\A u \in n.tasks : \E t \in Ts : u = f[t]) /\ \A t \in Ts : Moves(t, f[t])
    BY <1>4, <1>5
  <2>5. \A t \in Ts, c \in s.claims : c.id = t.takeId => (c \in n.claims <=> f[t].status = "taken")
    BY <1>7
  <2>6. Ends(s, n, Ts, f)
    BY <2>1, <2>2, <2>3, <2>4, <2>5 DEF Ends
  <2> QED BY <2>6, TasksMove
<1> HIDE DEF n, f, Ts
<1>9. ReceiptsFit(n)
  <2>1. CASE aged
    BY <1>5, <2>1, StoreAssumption DEF ReceiptsFit
  <2>2. CASE ~aged
    <3>1. n.answers = s.answers /\ n.asks \subseteq s.asks /\ s.answers \in Seq(ReceiptRecs)
      BY <1>1, <1>5, <2>2 DEF Ledgers
    <3>2. \A i \in 1..Len(s.answers) : s.answers[i].ask.askId \in n.askIds
      BY <1>5, <2>2, <3>1
    <3> QED BY <1>s, <3>1, <3>2 DEF ReceiptsFit
  <2> QED BY <2>1, <2>2
<1> QED BY <1>6, <1>8, <1>9 DEF Good, n

\* applyLedgerEvent leaves a good state, and names no message but its own.
LEMMA ApplyKeeps ==
  ASSUME NEW s, Good(s), NEW e \in Events, Accepts(s, e), Unused(s, e.id)
  PROVE  Good(Apply(s, e))
<1>1. CASE e.kind = "claim"
  BY <1>1, ClaimKeeps DEF Apply, Accepts
<1>2. CASE e.kind = "ask"
  BY <1>2, AskKeeps DEF Apply, Accepts
<1>3. CASE e.kind = "answer"
  BY <1>3, AnswerKeeps DEF Apply, Accepts
<1>4. CASE e.kind = "release"
  BY <1>4, ReleaseKeeps DEF Apply, Accepts
<1>5. CASE e.kind = "task_create"
  BY <1>5, CreateKeeps DEF Apply, Accepts
<1>6. CASE e.kind = "task_take"
  BY <1>6, TakeKeeps DEF Apply, Accepts
<1>7. CASE e.kind = "task_finish"
  BY <1>7, FinishKeeps DEF Apply, Accepts
<1> QED BY <1>1, <1>2, <1>3, <1>4, <1>5, <1>6, <1>7, EventFields

---------------------------------------------------------------------------
(* parseSnapshot rebuilds a good state.                                    *)

\* After k receipts, n claims, n questions.
Answered_(s, k) ==
  [claims |-> {}, asks |-> {}, answers |-> SubSeq(s.answers, 1, k),
   askIds |-> {s.answers[i].ask.askId : i \in 1..k}, tasks |-> {}]
Claimed_(s, n) ==
  [claims |-> {c \in s.claims : c.id <= n}, asks |-> {}, answers |-> s.answers,
   askIds |-> {s.answers[i].ask.askId : i \in 1..Len(s.answers)}, tasks |-> {}]
Asked_(s, n) ==
  [claims |-> s.claims, asks |-> {a \in s.asks : a.id <= n}, answers |-> s.answers,
   askIds |-> {s.answers[i].ask.askId : i \in 1..Len(s.answers)}
                \cup {a.askId : a \in {b \in s.asks : b.id <= n}},
   tasks |-> {}]
Ok(s) == [ok |-> TRUE, state |-> s]

LEMMA ReceiptIsRebuilt ==
  ASSUME NEW s, Good(s), NEW k \in 1..Len(s.answers)
  PROVE  Feed(Feed(Ok(Answered_(s, k - 1)), AskEvent(s.answers[k].ask)), AnswerEvent(s.answers[k]))
           = Ok(Answered_(s, k))
<1> DEFINE r == s.answers[k]
           a == s.answers[k].ask
           b == Answered_(s, k - 1)
           ids == b.askIds \cup {a.askId}
           m == [claims |-> {}, asks |-> {a}, answers |-> b.answers, askIds |-> ids, tasks |-> {}]
           q == AskEvent(a)
           w == AnswerEvent(r)
<1>1. s.answers \in Seq(ReceiptRecs) /\ Len(s.answers) \in Nat /\ k \in Nat /\ k - 1 \in Nat
      /\ Len(s.answers) <= MaxResults /\ k <= Len(s.answers) /\ MaxResults \in Nat
  BY StoreAssumption DEF Good, Ledgers, ReceiptsFit
<1>2. r \in ReceiptRecs /\ a \in AskRecs
  <2>1. r \in ReceiptRecs
    BY <1>1
  <2> QED BY <2>1 DEF ReceiptRecs
<1>3. a.from # a.to /\ \A i \in 1..(k - 1) : s.answers[i].ask.askId # a.askId
  <2>1. \A i \in 1..(k - 1) : i \in 1..Len(s.answers) /\ i # k
    BY <1>1
  <2> QED BY <2>1 DEF Good, ReceiptsFit
<1>4. /\ q.kind = "ask" /\ q.id = a.id /\ q.key = a.key /\ q.from = a.from /\ q.to = a.to /\ q.askId = a.askId
      /\ w.kind = "answer" /\ w.id = r.id /\ w.key = a.key /\ w.from = a.to /\ w.askId = a.askId
  BY DEF AskEvent, AnswerEvent
<1>5. AskOf(q) = a
  BY <1>2, <1>4 DEF AskOf, AskRecs
<1>6. /\ b.claims = {} /\ b.asks = {} /\ b.tasks = {} /\ b.answers = SubSeq(s.answers, 1, k - 1)
      /\ b.askIds = {s.answers[i].ask.askId : i \in 1..(k - 1)}
      /\ b = [claims |-> b.claims, asks |-> b.asks, answers |-> b.answers, askIds |-> b.askIds, tasks |-> b.tasks]
  BY DEF Answered_
<1> HIDE DEF b, q, w, r, a
<1>7. MayAsk(b, q)
  <2>1. Between(b, q.from, q.to) = {}
    BY <1>6 DEF Between
  <2>2. Cardinality(Between(b, q.from, q.to)) < MaxAsksFromTo
    BY <2>1, FS_EmptySet, StoreAssumption
  <2>3. a.askId \notin b.askIds
    BY <1>3, <1>6
  <2> QED BY <1>3, <1>4, <1>6, <2>2, <2>3 DEF MayAsk
<1>8. Asked(b, q) = m
  <2>1. Asked(b, q) = [b EXCEPT !.asks = b.asks \cup {a}, !.askIds = b.askIds \cup {a.askId}]
    BY <1>4, <1>5 DEF Asked
  <2>2. b.asks \cup {a} = {a}
    BY <1>6
  <2>3. Asked(b, q) = [b EXCEPT !.asks = {a}, !.askIds = ids]
    BY <2>1, <2>2
  <2> HIDE DEF ids
  <2> QED BY <1>6, <2>3
<1>9. Feed(Ok(b), q) = Ok(m)
  BY <1>4, <1>7, <1>8 DEF Feed, Ok, Accepts, Apply
<1>10. MayAnswer(m, w)
  BY <1>4 DEF MayAnswer
<1>11. AskIn(m, w.askId) = a
  BY <1>4 DEF AskIn
<1>12. Latest(Append(m.answers, r), MaxResults) = SubSeq(s.answers, 1, k)
  <2>1. /\ b.answers \in Seq(ReceiptRecs) /\ Len(b.answers) = k - 1
        /\ \A i \in 1..(k - 1) : b.answers[i] = s.answers[i]
    BY <1>1, <1>6
  <2>2. /\ SubSeq(s.answers, 1, k) \in Seq(ReceiptRecs) /\ Len(SubSeq(s.answers, 1, k)) = k
        /\ \A i \in 1..k : SubSeq(s.answers, 1, k)[i] = s.answers[i]
    BY <1>1
  <2>3. Append(b.answers, r) = SubSeq(s.answers, 1, k)
    BY <1>1, <1>2, <2>1, <2>2 DEF r
  <2>4. Len(Append(b.answers, r)) <= MaxResults
    BY <1>1, <2>2, <2>3
  <2> QED BY <2>3, <2>4 DEF Latest
<1>13. [id |-> w.id, ask |-> a] = r
  BY <1>2, <1>4 DEF ReceiptRecs, r, a
<1>14. ids = {s.answers[i].ask.askId : i \in 1..k}
  <2>1. 1..k = (1..(k - 1)) \cup {k}
    BY <1>1
  <2> QED BY <1>6, <2>1 DEF a
<1>15. Answered(m, w) = Answered_(s, k)
  <2>1. {x \in m.asks : x.askId # w.askId} = {}
    BY <1>4
  <2> DEFINE left == Latest(Append(m.answers, r), MaxResults)
  <2>2. Answered(m, w) = [m EXCEPT !.asks = {}, !.answers = left]
    BY <1>11, <1>13, <2>1 DEF Answered
  <2>3. left = SubSeq(s.answers, 1, k) /\ ids = {s.answers[i].ask.askId : i \in 1..k}
    BY <1>12, <1>14
  <2> HIDE DEF left, ids
  <2>4. [m EXCEPT !.asks = {}, !.answers = left]
          = [claims |-> {}, asks |-> {}, answers |-> left, askIds |-> ids, tasks |-> {}]
    <3> DEFINE z == [m EXCEPT !.asks = {}, !.answers = left]
    <3>1. z \in [claims : {{}}, asks : {{}}, answers : {left}, askIds : {ids}, tasks : {{}}]
      OBVIOUS
    <3> HIDE DEF z
    <3>2. z = [claims |-> z.claims, asks |-> z.asks, answers |-> z.answers, askIds |-> z.askIds, tasks |-> z.tasks]
      BY <3>1
    <3>3. z.claims = {} /\ z.asks = {} /\ z.answers = left /\ z.askIds = ids /\ z.tasks = {}
      BY <3>1
    <3> QED BY <3>2, <3>3 DEF z
  <2> QED BY <2>2, <2>3, <2>4 DEF Answered_
<1> HIDE DEF m, ids
<1>16. Feed(Ok(m), w) = Ok(Answered_(s, k))
  BY <1>4, <1>10, <1>15 DEF Feed, Ok, Accepts, Apply
<1> QED BY <1>9, <1>16 DEF b, q, w, r, a

LEMMA ReceiptsAreRebuilt ==
  ASSUME NEW s, Good(s)
  PROVE  Receipts(s)[2 * Len(s.answers)] = Ok(Claimed_(s, 0))
<1>1. s.answers \in Seq(ReceiptRecs) /\ Len(s.answers) \in Nat
  BY DEF Good, Ledgers
<1> DEFINE L == Len(s.answers)
           Done == {k \in 0..L : Receipts(s)[2 * k] = Ok(Answered_(s, k))}
<1>2. \A n \in 0..2 * L : Receipts(s)[n] = IF n = 0 THEN Fresh ELSE Feed(Receipts(s)[n - 1], Replayed(s)[n])
  <2> DEFINE g == [n \in 0..2 * L |-> IF n = 0 THEN Fresh ELSE Feed(Receipts(s)[n - 1], Replayed(s)[n])]
  <2>1. Receipts(s) = g
    BY <1>1, ReceiptsUnfold
  <2> QED BY <2>1
<1>3. 0 \in Done
  <2>1. SubSeq(s.answers, 1, 0) = <<>>
    BY <1>1
  <2>2. {s.answers[i].ask.askId : i \in 1..0} = {}
    OBVIOUS
  <2>3. Answered_(s, 0) = EmptyLedger
    BY <2>1, <2>2 DEF Answered_, EmptyLedger
  <2>4. 0 \in 0..L /\ 0 \in 0..2 * L /\ 2 * 0 = 0
    BY <1>1
  <2>5. Receipts(s)[2 * 0] = Fresh
    BY <1>2, <2>4
  <2> HIDE DEF L
  <2> QED BY <2>3, <2>4, <2>5 DEF Fresh, Ok
<1>4. ASSUME NEW k \in 0..(L - 1), k \in Done PROVE k + 1 \in Done
  <2>1. k + 1 \in 1..L /\ k + 1 \in 0..L /\ (k + 1) - 1 = k /\ k + 1 # 0
    BY <1>1
  <2>2. Feed(Feed(Ok(Answered_(s, k)), AskEvent(s.answers[k + 1].ask)), AnswerEvent(s.answers[k + 1]))
          = Ok(Answered_(s, k + 1))
    BY <2>1, ReceiptIsRebuilt
  <2> DEFINE odd == 2 * k + 1
             even == 2 * (k + 1)
  <2>3. /\ odd \in 1..2 * L /\ even \in 1..2 * L /\ odd \in 0..2 * L /\ even \in 0..2 * L
        /\ odd # 0 /\ even # 0 /\ odd - 1 = 2 * k /\ even - 1 = odd
        /\ odd % 2 = 1 /\ even % 2 # 1 /\ (odd + 1) \div 2 = k + 1 /\ even \div 2 = k + 1
    BY <1>1
  <2>4. /\ Replayed(s)[odd] = AskEvent(s.answers[k + 1].ask)
        /\ Replayed(s)[even] = AnswerEvent(s.answers[k + 1])
    BY <2>3 DEF Replayed
  <2> HIDE DEF odd, even
  <2>5. Receipts(s)[even] = Feed(Feed(Receipts(s)[2 * k], Replayed(s)[odd]), Replayed(s)[even])
    BY <1>2, <2>3
  <2> QED BY <1>4, <2>1, <2>2, <2>4, <2>5 DEF even
<1> HIDE DEF Done
<1>5. \A k \in 0..L : k \in Done
  BY <1>1, <1>3, <1>4, UpTo
<1>6. Receipts(s)[2 * L] = Ok(Answered_(s, L))
  BY <1>1, <1>5 DEF Done
<1>7. Answered_(s, L) = Claimed_(s, 0)
  <2>1. SubSeq(s.answers, 1, L) = s.answers
    BY <1>1
  <2>2. {c \in s.claims : c.id <= 0} = {}
    BY StoreAssumption DEF Good, Ledgers, ClaimRecs, MsgIds
  <2> QED BY <2>1, <2>2 DEF Answered_, Claimed_
<1> QED BY <1>6, <1>7

LEMMA ClaimIsRebuilt ==
  ASSUME NEW s, Good(s), NEW n \in 1..MaxEvents
  PROVE  Add(Ok(Claimed_(s, n - 1)), {ClaimEvent(c) : c \in s.claims}, n) = Ok(Claimed_(s, n))
<1> DEFINE E == {ClaimEvent(c) : c \in s.claims}
           b == Claimed_(s, n - 1)
<1>1. s.claims \subseteq ClaimRecs /\ n \in Nat /\ n - 1 \in Nat /\ \A c \in s.claims : c.id \in Nat
  BY StoreAssumption DEF Good, Ledgers, ClaimRecs, MsgIds
<1>2. \A c \in s.claims : ClaimEvent(c).id = c.id
  BY DEF ClaimEvent
<1>3. /\ b.claims = {c \in s.claims : c.id <= n - 1}
      /\ b = [claims |-> b.claims, asks |-> b.asks, answers |-> b.answers, askIds |-> b.askIds, tasks |-> b.tasks]
      /\ b.asks = {} /\ b.answers = s.answers /\ b.tasks = {}
      /\ b.askIds = {s.answers[i].ask.askId : i \in 1..Len(s.answers)}
  BY DEF Claimed_
<1> HIDE DEF b
<1>4. ASSUME \A c \in s.claims : c.id # n PROVE Add(Ok(b), E, n) = Ok(Claimed_(s, n))
  <2>1. ~\E e \in E : e.id = n
    BY <1>2, <1>4
  <2>2. b.claims = {c \in s.claims : c.id <= n}
    <3>1. \A c \in s.claims : c.id <= n - 1 <=> c.id <= n
      BY <1>1, <1>4
    <3> QED BY <1>3, <3>1
  <2>3. b = Claimed_(s, n)
    BY <1>3, <2>2 DEF Claimed_
  <2> HIDE DEF E
  <2> QED BY <2>1, <2>3 DEF Add
<1>5. ASSUME NEW c0 \in s.claims, c0.id = n PROVE Add(Ok(b), E, n) = Ok(Claimed_(s, n))
  <2> DEFINE e == ClaimEvent(c0)
  <2>1. e \in E /\ e.id = n
    BY <1>2, <1>5
  <2>2. \A x \in E : x.id = n => x = e
    BY <1>2, <1>5 DEF Good, ClaimsApart
  <2>3. (CHOOSE x \in E : x.id = n) = e
    BY <2>1, <2>2
  <2>4. Add(Ok(b), E, n) = Feed(Ok(b), e)
    <3> HIDE DEF E, e
    <3> QED BY <2>1, <2>3 DEF Add
  <2>5. e.kind = "claim" /\ e.paths = c0.paths /\ ClaimOf(e, e.paths) = c0
    BY <1>1 DEF ClaimEvent, ClaimOf, ClaimRecs
  <2> HIDE DEF e, E
  <2>6. MayClaim(b, e)
    <3>1. \A c \in b.claims : c \in s.claims /\ c # c0
      BY <1>1, <1>3, <1>5
    <3> QED BY <2>5, <3>1 DEF MayClaim, Good, ClaimsApart
  <2>7. b.claims \cup {c0} = {c \in s.claims : c.id <= n}
    <3>1. \A c \in s.claims : c.id <= n <=> c.id <= n - 1 \/ c = c0
      BY <1>1, <1>5 DEF Good, ClaimsApart
    <3> QED BY <1>3, <1>5, <3>1
  <2>8. Claimed(b, e) = Claimed_(s, n)
    <3>1. Claimed(b, e) = [b EXCEPT !.claims = b.claims \cup {c0}]
      BY <2>5 DEF Claimed
    <3> QED BY <1>3, <2>7, <3>1 DEF Claimed_
  <2> QED BY <2>4, <2>5, <2>6, <2>8 DEF Feed, Ok, Accepts, Apply
<1> QED BY <1>4, <1>5 DEF b

LEMMA ClaimsAreRebuilt ==
  ASSUME NEW s, Good(s)
  PROVE  Fed(Ok(Claimed_(s, 0)), {ClaimEvent(c) : c \in s.claims}) = Ok(Asked_(s, 0))
<1> DEFINE E == {ClaimEvent(c) : c \in s.claims}
           acc == Ok(Claimed_(s, 0))
           Done == {n \in 0..MaxEvents : Feeding(acc, E)[n] = Ok(Claimed_(s, n))}
<1>1. MaxEvents \in Nat
  BY StoreAssumption
<1>2. \A n \in 0..MaxEvents :
        Feeding(acc, E)[n] = IF n = 0 THEN acc ELSE Add(Feeding(acc, E)[n - 1], E, n)
  <2> HIDE DEF acc, E
  <2> DEFINE g == [n \in 0..MaxEvents |-> IF n = 0 THEN acc ELSE Add(Feeding(acc, E)[n - 1], E, n)]
  <2>1. Feeding(acc, E) = g
    BY <1>1, FeedingUnfolds
  <2> QED BY <2>1
<1>3. 0 \in Done
  <2>1. Feeding(acc, E)[0] = acc /\ 0 \in 0..MaxEvents
    BY <1>1, <1>2
  <2> QED BY <2>1
<1>4. ASSUME NEW n \in 0..(MaxEvents - 1), n \in Done PROVE n + 1 \in Done
  <2>1. n + 1 \in 1..MaxEvents /\ n + 1 \in 0..MaxEvents /\ (n + 1) - 1 = n /\ n + 1 # 0
    BY <1>1
  <2>2. Add(Ok(Claimed_(s, n)), E, n + 1) = Ok(Claimed_(s, n + 1))
    BY <2>1, ClaimIsRebuilt
  <2> HIDE DEF E, acc
  <2>3. Feeding(acc, E)[n + 1] = Add(Feeding(acc, E)[n], E, n + 1)
    BY <1>2, <2>1
  <2> QED BY <1>4, <2>1, <2>2, <2>3
<1> HIDE DEF Done
<1>5. \A n \in 0..MaxEvents : n \in Done
  BY <1>1, <1>3, <1>4, UpTo
<1>6. Feeding(acc, E)[MaxEvents] = Ok(Claimed_(s, MaxEvents))
  BY <1>1, <1>5 DEF Done
<1>7. Claimed_(s, MaxEvents) = Asked_(s, 0)
  <2>1. {c \in s.claims : c.id <= MaxEvents} = s.claims
    BY <1>1 DEF Good, Ledgers, ClaimRecs, MsgIds
  <2>2. {a \in s.asks : a.id <= 0} = {}
    BY <1>1 DEF Good, Ledgers, AskRecs, MsgIds
  <2> QED BY <2>1, <2>2 DEF Claimed_, Asked_
<1> QED BY <1>6, <1>7 DEF Fed

LEMMA AskIsRebuilt ==
  ASSUME NEW s, Good(s), NEW n \in 1..MaxEvents
  PROVE  Add(Ok(Asked_(s, n - 1)), {AskEvent(a) : a \in s.asks}, n) = Ok(Asked_(s, n))
<1> DEFINE E == {AskEvent(a) : a \in s.asks}
           b == Asked_(s, n - 1)
           ids == {s.answers[i].ask.askId : i \in 1..Len(s.answers)}
<1>1. s.asks \subseteq AskRecs /\ n \in Nat /\ n - 1 \in Nat /\ \A a \in s.asks : a.id \in Nat
  BY StoreAssumption DEF Good, Ledgers, AskRecs, MsgIds
<1>2. \A a \in s.asks : AskEvent(a).id = a.id
  BY DEF AskEvent
<1>3. /\ b.asks = {a \in s.asks : a.id <= n - 1}
      /\ b = [claims |-> b.claims, asks |-> b.asks, answers |-> b.answers, askIds |-> b.askIds, tasks |-> b.tasks]
      /\ b.claims = s.claims /\ b.answers = s.answers /\ b.tasks = {}
      /\ b.askIds = ids \cup {a.askId : a \in b.asks}
  BY DEF Asked_
<1> HIDE DEF b
<1>4. ASSUME \A a \in s.asks : a.id # n PROVE Add(Ok(b), E, n) = Ok(Asked_(s, n))
  <2>1. ~\E e \in E : e.id = n
    BY <1>2, <1>4
  <2>2. b.asks = {a \in s.asks : a.id <= n}
    <3>1. \A a \in s.asks : a.id <= n - 1 <=> a.id <= n
      BY <1>1, <1>4
    <3> QED BY <1>3, <3>1
  <2>3. b = Asked_(s, n)
    BY <1>3, <2>2 DEF Asked_
  <2> HIDE DEF E
  <2> QED BY <2>1, <2>3 DEF Add
<1>5. ASSUME NEW a0 \in s.asks, a0.id = n PROVE Add(Ok(b), E, n) = Ok(Asked_(s, n))
  <2> DEFINE e == AskEvent(a0)
  <2>1. e \in E /\ e.id = n
    BY <1>2, <1>5
  <2>2. \A x \in E : x.id = n => x = e
    BY <1>2, <1>5 DEF Good, AsksFit
  <2>3. (CHOOSE x \in E : x.id = n) = e
    BY <2>1, <2>2
  <2>4. Add(Ok(b), E, n) = Feed(Ok(b), e)
    <3> HIDE DEF E, e
    <3> QED BY <2>1, <2>3 DEF Add
  <2>5. /\ e.kind = "ask" /\ e.askId = a0.askId /\ e.key = a0.key /\ e.from = a0.from /\ e.to = a0.to
        /\ AskOf(e) = a0
    BY <1>1 DEF AskEvent, AskOf, AskRecs
  <2> HIDE DEF e, E
  <2>6. \A a \in b.asks : a \in s.asks /\ a # a0
    BY <1>1, <1>3, <1>5
  <2>7. MayAsk(b, e)
    <3>1. a0.askId \notin b.askIds
      <4>1. \A a \in b.asks : a.askId # a0.askId
        BY <2>6 DEF Good, AsksFit
      <4>2. a0.askId \notin ids
        BY DEF Good, ReceiptsFit
      <4> HIDE DEF ids
      <4> QED BY <1>3, <4>1, <4>2
    <3>2. a0.to # a0.from /\ \A a \in b.asks : ~(a.key = a0.key /\ a.to = a0.to)
      BY <2>6 DEF Good, AsksFit
    <3>3. Cardinality(Between(b, a0.from, a0.to)) < MaxAsksFromTo
      <4> DEFINE all == Between(s, a0.from, a0.to)
                 some == Between(b, a0.from, a0.to)
      <4>1. a0.from \in Procs /\ a0.to \in Procs
        BY <1>1 DEF AskRecs
      <4>2. IsFiniteSet(all) /\ Cardinality(all) <= MaxAsksFromTo
        <5>1. IsFiniteSet(s.asks) /\ all \subseteq s.asks
          BY DEF Good, AsksFit, Between
        <5> QED BY <4>1, <5>1, FS_Subset DEF Good, AsksFit
      <4>3. some \subseteq all /\ some # all
        BY <2>6 DEF Between
      <4> HIDE DEF all, some
      <4>4. IsFiniteSet(some) /\ Cardinality(some) < Cardinality(all)
        <5>1. IsFiniteSet(some) /\ Cardinality(some) <= Cardinality(all)
          BY <4>2, <4>3, FS_Subset
        <5>2. Cardinality(some) # Cardinality(all)
          BY <4>2, <4>3, FS_Subset
        <5>3. Cardinality(some) \in Nat /\ Cardinality(all) \in Nat
          BY <4>2, <5>1, FS_CardinalityType
        <5> QED BY <5>1, <5>2, <5>3
      <4>5. Cardinality(some) \in Nat /\ Cardinality(all) \in Nat
        BY <4>2, <4>4, FS_CardinalityType
      <4>6. Cardinality(some) < MaxAsksFromTo
        BY <4>2, <4>4, <4>5, StoreAssumption
      <4> QED BY <4>6 DEF some
    <3> QED BY <2>5, <3>1, <3>2, <3>3 DEF MayAsk
  <2>8. b.asks \cup {a0} = {a \in s.asks : a.id <= n}
    <3>1. \A a \in s.asks : a.id <= n <=> a.id <= n - 1 \/ a = a0
      BY <1>1, <1>5 DEF Good, AsksFit
    <3> QED BY <1>3, <1>5, <3>1
  <2>9. b.askIds \cup {a0.askId} = ids \cup {a.askId : a \in {x \in s.asks : x.id <= n}}
    <3> HIDE DEF ids
    <3> QED BY <1>3, <2>8
  <2>10. Asked(b, e) = Asked_(s, n)
    <3>1. Asked(b, e) = [b EXCEPT !.asks = b.asks \cup {a0}, !.askIds = b.askIds \cup {a0.askId}]
      BY <2>5 DEF Asked
    <3> DEFINE z == [b EXCEPT !.asks = b.asks \cup {a0}, !.askIds = b.askIds \cup {a0.askId}]
    <3>a. z \in [claims : {b.claims}, asks : {b.asks \cup {a0}}, answers : {b.answers},
                 askIds : {b.askIds \cup {a0.askId}}, tasks : {b.tasks}]
      <4>1. b \in [claims : {b.claims}, asks : {b.asks}, answers : {b.answers}, askIds : {b.askIds}, tasks : {b.tasks}]
        BY <1>3
      <4> QED BY <4>1
    <3> HIDE DEF z
    <3>2. /\ z = [claims |-> z.claims, asks |-> z.asks, answers |-> z.answers, askIds |-> z.askIds, tasks |-> z.tasks]
          /\ z.claims = b.claims /\ z.asks = b.asks \cup {a0} /\ z.answers = b.answers
          /\ z.askIds = b.askIds \cup {a0.askId} /\ z.tasks = b.tasks
      BY <3>a
    <3> QED BY <1>3, <2>8, <2>9, <3>1, <3>2 DEF Asked_, z
  <2> QED BY <2>4, <2>5, <2>7, <2>10 DEF Feed, Ok, Accepts, Apply
<1> QED BY <1>4, <1>5 DEF b

LEMMA AsksAreRebuilt ==
  ASSUME NEW s, Good(s)
  PROVE  Fed(Ok(Asked_(s, 0)), {AskEvent(a) : a \in s.asks}) = Ok(Asked_(s, MaxEvents))
<1> DEFINE E == {AskEvent(a) : a \in s.asks}
           acc == Ok(Asked_(s, 0))
           Done == {n \in 0..MaxEvents : Feeding(acc, E)[n] = Ok(Asked_(s, n))}
<1>1. MaxEvents \in Nat
  BY StoreAssumption
<1>2. \A n \in 0..MaxEvents :
        Feeding(acc, E)[n] = IF n = 0 THEN acc ELSE Add(Feeding(acc, E)[n - 1], E, n)
  <2> HIDE DEF acc, E
  <2> DEFINE g == [n \in 0..MaxEvents |-> IF n = 0 THEN acc ELSE Add(Feeding(acc, E)[n - 1], E, n)]
  <2>1. Feeding(acc, E) = g
    BY <1>1, FeedingUnfolds
  <2> QED BY <2>1
<1>3. 0 \in Done
  <2>1. Feeding(acc, E)[0] = acc /\ 0 \in 0..MaxEvents
    BY <1>1, <1>2
  <2> QED BY <2>1
<1>4. ASSUME NEW n \in 0..(MaxEvents - 1), n \in Done PROVE n + 1 \in Done
  <2>1. n + 1 \in 1..MaxEvents /\ n + 1 \in 0..MaxEvents /\ (n + 1) - 1 = n /\ n + 1 # 0
    BY <1>1
  <2>2. Add(Ok(Asked_(s, n)), E, n + 1) = Ok(Asked_(s, n + 1))
    BY <2>1, AskIsRebuilt
  <2> HIDE DEF E, acc
  <2>3. Feeding(acc, E)[n + 1] = Add(Feeding(acc, E)[n], E, n + 1)
    BY <1>2, <2>1
  <2> QED BY <1>4, <2>1, <2>2, <2>3
<1> HIDE DEF Done
<1>5. \A n \in 0..MaxEvents : n \in Done
  BY <1>1, <1>3, <1>4, UpTo
<1>6. Feeding(acc, E)[MaxEvents] = Ok(Asked_(s, MaxEvents))
  BY <1>1, <1>5 DEF Done
<1> QED BY <1>6 DEF Fed

\* A snapshot of a good state is read as that state (parseSnapshot).
LEMMA GoodIsRestored ==
  ASSUME NEW s, Good(s)
  PROVE  Restore(s) = [ok |-> TRUE, state |-> s]
<1> DEFINE r == Asked_(s, MaxEvents)
<1>1. Rebuilt(s) = Ok(r)
  BY ReceiptsAreRebuilt, ClaimsAreRebuilt, AsksAreRebuilt DEF Rebuilt
<1>2. /\ r.claims = s.claims /\ r.answers = s.answers
      /\ r.asks = {a \in s.asks : a.id <= MaxEvents}
      /\ r.askIds = {s.answers[i].ask.askId : i \in 1..Len(s.answers)} \cup {a.askId : a \in r.asks}
      /\ r = [claims |-> r.claims, asks |-> r.asks, answers |-> r.answers, askIds |-> r.askIds, tasks |-> r.tasks]
  BY DEF Asked_
<1>3. r.asks = s.asks
  <2>1. \A a \in s.asks : a.id <= MaxEvents
    BY StoreAssumption DEF Good, Ledgers, AskRecs, MsgIds
  <2> QED BY <1>2, <2>1
<1> HIDE DEF r
<1>4. r.askIds \subseteq s.askIds
  <2>1. \A a \in s.asks : a.askId \in s.askIds
    BY DEF Good, AsksFit
  <2>2. \A i \in 1..Len(s.answers) : s.answers[i].ask.askId \in s.askIds
    BY DEF Good, ReceiptsFit
  <2> QED BY <1>2, <1>3, <2>1, <2>2
<1>5. TasksParse(s.tasks)
  BY DEF Good, TasksFit
<1>6. \A t \in s.tasks : t.status = "taken" /\ t.paths # {} => HoldsItsClaim(r, t)
  <2>1. \A t : HoldsItsClaim(s, t) => HoldsItsClaim(r, t)
    BY <1>2 DEF HoldsItsClaim
  <2> QED BY <2>1 DEF Good, TasksFit, TakersClaim
<1>7. [r EXCEPT !.tasks = s.tasks, !.askIds = s.askIds] = s
  <2> DEFINE z == [r EXCEPT !.tasks = s.tasks, !.askIds = s.askIds]
  <2>a. z \in [claims : {r.claims}, asks : {r.asks}, answers : {r.answers}, askIds : {s.askIds}, tasks : {s.tasks}]
    <3>1. r \in [claims : {r.claims}, asks : {r.asks}, answers : {r.answers}, askIds : {r.askIds}, tasks : {r.tasks}]
      BY <1>2
    <3> QED BY <3>1
  <2> HIDE DEF z
  <2>1. /\ z = [claims |-> z.claims, asks |-> z.asks, answers |-> z.answers, askIds |-> z.askIds, tasks |-> z.tasks]
        /\ z.claims = r.claims /\ z.asks = r.asks /\ z.answers = r.answers
        /\ z.askIds = s.askIds /\ z.tasks = s.tasks
    BY <2>a
  <2>2. s = [claims |-> s.claims, asks |-> s.asks, answers |-> s.answers, askIds |-> s.askIds, tasks |-> s.tasks]
    BY DEF Good, Ledgers
  <2> HIDE DEF z
  <2>3. z = s
    BY <1>2, <1>3, <2>1, <2>2
  <2> QED BY <2>3 DEF z
<1> DEFINE fed == Rebuilt(s)
<1>8. fed.ok = TRUE /\ fed.state = r
  BY <1>1 DEF Ok
<1>9. Restore(s) =
        [ok |-> /\ fed.ok
                /\ fed.state.askIds \subseteq s.askIds
                /\ TasksParse(s.tasks)
                /\ \A t \in s.tasks : t.status = "taken" /\ t.paths # {} => HoldsItsClaim(fed.state, t),
         state |-> [fed.state EXCEPT !.tasks = s.tasks, !.askIds = s.askIds]]
  BY DEF Restore
<1> HIDE DEF fed
<1>10. (/\ fed.ok
        /\ fed.state.askIds \subseteq s.askIds
        /\ TasksParse(s.tasks)
        /\ \A t \in s.tasks : t.status = "taken" /\ t.paths # {} => HoldsItsClaim(fed.state, t)) = TRUE
  BY <1>4, <1>5, <1>6, <1>8
<1>11. [fed.state EXCEPT !.tasks = s.tasks, !.askIds = s.askIds] = s
  BY <1>7, <1>8
<1> QED BY <1>9, <1>10, <1>11, Zenon

---------------------------------------------------------------------------
(* Reading a journal.                                                      *)
Snapshots == {[kind |-> "ledger_snapshot_v1", state |-> s] : s \in {u \in Ledgers : Good(u)}}
Records == Events \cup Snapshots

\* The msg_id x is in no record.
UnusedIn(r, x) ==
  /\ r \in Events => r.id # x
  /\ r \in Snapshots => Unused(r.state, x)
UnusedBy(j, x) == \A n \in 1..Len(j) : UnusedIn(j[n], x)

\* An event comes with a new msg_id.
Sound(j) ==
  /\ j \in Seq(Records)
  /\ \A m, n \in 1..Len(j) : m < n /\ j[n] \in Events => UnusedIn(j[m], j[n].id)

LEMMA RecordKinds ==
  ASSUME NEW r \in Records
  PROVE  \/ r \in Events /\ r \notin Snapshots /\ r.kind # "ledger_snapshot_v1"
         \/ r \in Snapshots /\ r \notin Events /\ r.kind = "ledger_snapshot_v1" /\ Good(r.state)
<1>1. CASE r \in Events
  <2>1. r.kind # "ledger_snapshot_v1"
    BY <1>1, EventFields
  <2>2. r \notin Snapshots
    BY <2>1 DEF Snapshots
  <2> QED BY <1>1, <2>1, <2>2
<1>2. CASE r \in Snapshots
  <2>1. r.kind = "ledger_snapshot_v1" /\ Good(r.state)
    BY <1>2 DEF Snapshots
  <2>2. r \notin Events
    BY <2>1, EventFields
  <2> QED BY <1>2, <2>1, <2>2
<1> QED BY <1>1, <1>2 DEF Records

\* An event names no message but its own.
LEMMA ApplyNames ==
  ASSUME NEW s \in Ledgers, NEW e \in Events, NEW x \in MsgIds, Unused(s, x), e.id # x
  PROVE  Unused(Apply(s, e), x)
<1> DEFINE n == Apply(s, e)
<1>1. CASE e.kind = "claim"
  <2>1. n = Claimed(s, e)
    BY <1>1 DEF Apply
  <2>2. n.claims = s.claims \cup {ClaimOf(e, e.paths)} /\ n.asks = s.asks /\ n.tasks = s.tasks
    BY <2>1 DEF Claimed, Ledgers
  <2>3. ClaimOf(e, e.paths).id = e.id
    BY DEF ClaimOf
  <2> HIDE DEF n
  <2>9. Unused(n, x)
    BY <2>2, <2>3 DEF Unused
  <2> QED BY <2>9 DEF n
<1>2. CASE e.kind = "ask"
  <2>1. n = Asked(s, e)
    BY <1>2 DEF Apply
  <2>2. n.claims = s.claims /\ n.asks = s.asks \cup {AskOf(e)} /\ n.tasks = s.tasks
    BY <2>1 DEF Asked, Ledgers
  <2>3. AskOf(e).id = e.id
    BY DEF AskOf
  <2> HIDE DEF n
  <2>9. Unused(n, x)
    BY <2>2, <2>3 DEF Unused
  <2> QED BY <2>9 DEF n
<1>3. CASE e.kind = "answer"
  <2>1. n = Answered(s, e)
    BY <1>3 DEF Apply
  <2>2. n.claims = s.claims /\ n.asks \subseteq s.asks /\ n.tasks = s.tasks
    BY <2>1 DEF Answered, Ledgers
  <2> HIDE DEF n
  <2>9. Unused(n, x)
    BY <2>2 DEF Unused
  <2> QED BY <2>9 DEF n
<1>4. CASE e.kind = "release"
  <2>1. n = Released(s, e)
    BY <1>4 DEF Apply
  <2>2. n.claims \subseteq s.claims /\ n.asks \subseteq s.asks /\ n.tasks = {GivenUp(t, e) : t \in s.tasks}
    BY <2>1 DEF Released, Ledgers
  <2>3. \A t \in s.tasks : GivenUp(t, e).takeId = t.takeId
    BY DEF GivenUp, Ledgers, TaskRecs
  <2> HIDE DEF n
  <2>9. Unused(n, x)
    BY <2>2, <2>3 DEF Unused
  <2> QED BY <2>9 DEF n
<1>5. CASE e.kind = "task_create"
  <2>1. n = Created(s, e)
    BY <1>5 DEF Apply
  <2>2. n.claims = s.claims /\ n.asks = s.asks /\ n.tasks = s.tasks \cup {NewTask(e)}
    BY <2>1 DEF Created, Ledgers
  <2>3. NewTask(e).takeId = 0 /\ x # 0
    BY StoreAssumption DEF NewTask, MsgIds
  <2> HIDE DEF n
  <2>9. Unused(n, x)
    BY <2>2, <2>3 DEF Unused
  <2> QED BY <2>9 DEF n
<1>6. CASE e.kind = "task_take"
  <2> DEFINE new == IF PathsOf(s, e) = {} THEN {} ELSE {ClaimOf(e, PathsOf(s, e))}
  <2>1. n = Took(s, e)
    BY <1>6 DEF Apply
  <2>2. n.claims = s.claims \cup new /\ n.asks = s.asks /\ n.tasks = {TakenBy(t, e) : t \in s.tasks}
    BY <2>1 DEF Took, Ledgers
  <2>3. \A c \in new : c.id = e.id
    BY DEF ClaimOf
  <2>4. \A t \in s.tasks : TakenBy(t, e).takeId \in {t.takeId, e.id}
    BY DEF TakenBy, Ledgers, TaskRecs
  <2> HIDE DEF n, new
  <2>9. Unused(n, x)
    BY <2>2, <2>3, <2>4 DEF Unused
  <2> QED BY <2>9 DEF n
<1>7. CASE e.kind = "task_finish"
  <2>1. n = Finished(s, e)
    BY <1>7 DEF Apply
  <2>2. n.claims \subseteq s.claims /\ n.asks = s.asks /\ n.tasks = {FinishedBy(t, e) : t \in s.tasks}
    BY <2>1 DEF Finished, Ledgers
  <2>3. \A t \in s.tasks : FinishedBy(t, e).takeId = t.takeId
    BY DEF FinishedBy, Ledgers, TaskRecs
  <2> HIDE DEF n
  <2>9. Unused(n, x)
    BY <2>2, <2>3 DEF Unused
  <2> QED BY <2>9 DEF n
<1> QED BY <1>1, <1>2, <1>3, <1>4, <1>5, <1>6, <1>7, EventFields

\* A prune names none.
LEMMA PruneNames ==
  ASSUME NEW s \in Ledgers, NEW live, NEW aged \in BOOLEAN, NEW x, Unused(s, x)
  PROVE  Unused(Prune(s, live, aged), x)
<1> DEFINE n == Prune(s, live, aged)
<1>1. /\ n.claims = {c \in s.claims : c.from \in live}
      /\ n.asks = {a \in s.asks : {a.from, a.to} \subseteq live}
      /\ n.tasks = {Stale(t, live) : t \in {u \in s.tasks : ~(aged /\ Terminal(u))}}
  BY DEF Prune, Ledgers
<1>2. \A t \in s.tasks : Stale(t, live).takeId = t.takeId
  BY DEF Stale, Ledgers, TaskRecs
<1> HIDE DEF n
<1>3. \A t \in n.tasks : t.takeId # x
  BY <1>1, <1>2 DEF Unused
<1>4. \A r \in n.claims \cup n.asks : r.id # x
  BY <1>1 DEF Unused
<1> QED BY <1>3, <1>4 DEF Unused, n

\* What a reader makes of one more record.
After(s, r) ==
  IF r \in Snapshots THEN r.state ELSE IF Accepts(s, r) THEN Apply(s, r) ELSE s

LEMMA ReadKeeps ==
  ASSUME NEW s, Good(s), NEW r \in Records, r \in Events => Unused(s, r.id)
  PROVE  /\ Read(Ok(s), r) = Ok(After(s, r))
         /\ Good(After(s, r))
         /\ \A x \in MsgIds : Unused(s, x) /\ UnusedIn(r, x) => Unused(After(s, r), x)
<1>0. s \in Ledgers /\ Ok(s).ok = TRUE /\ Ok(s).state = s
  BY DEF Good, Ok
<1>1. CASE r \in Snapshots
  <2>1. r.kind = "ledger_snapshot_v1" /\ Good(r.state) /\ After(s, r) = r.state
    BY <1>1, RecordKinds DEF After
  <2>2. Restore(r.state) = Ok(r.state)
    BY <2>1, GoodIsRestored DEF Ok
  <2>3. Read(Ok(s), r) = Restore(r.state)
    BY <1>0, <2>1 DEF Read
  <2> QED BY <1>1, <2>1, <2>2, <2>3 DEF UnusedIn
<1>2. CASE r \in Events /\ Accepts(s, r)
  <2>1. r.kind # "ledger_snapshot_v1" /\ After(s, r) = Apply(s, r)
    BY <1>2, RecordKinds DEF After
  <2>2. Good(Apply(s, r))
    BY <1>2, ApplyKeeps
  <2>3. \A x \in MsgIds : Unused(s, x) /\ UnusedIn(r, x) => Unused(Apply(s, r), x)
    BY <1>0, <1>2, ApplyNames DEF UnusedIn
  <2>4. Read(Ok(s), r) = [Ok(s) EXCEPT !.state = Apply(s, r)]
    BY <1>0, <1>2, <2>1 DEF Read
  <2>5. [Ok(s) EXCEPT !.state = Apply(s, r)] = Ok(Apply(s, r))
    <3>1. \A u : [Ok(s) EXCEPT !.state = u] = Ok(u)
      <4> TAKE u
      <4> DEFINE z == [Ok(s) EXCEPT !.state = u]
      <4>1. z \in [ok : {TRUE}, state : {u}]
        BY DEF Ok
      <4> HIDE DEF z
      <4>2. z = [ok |-> z.ok, state |-> z.state] /\ z.ok = TRUE /\ z.state = u
        BY <4>1
      <4>3. z = Ok(u)
        BY <4>2 DEF Ok
      <4> QED BY <4>3 DEF z
    <3> QED BY <3>1, Zenon
  <2> QED BY <2>1, <2>2, <2>3, <2>4, <2>5
<1>3. CASE r \in Events /\ ~Accepts(s, r)
  <2>1. r.kind # "ledger_snapshot_v1" /\ After(s, r) = s
    BY <1>3, RecordKinds DEF After
  <2>2. Read(Ok(s), r) = Ok(s)
    BY <1>0, <1>3, <2>1 DEF Read
  <2> QED BY <2>1, <2>2
<1> QED BY <1>1, <1>2, <1>3 DEF Records

\* Every prefix of a sound journal reads as a good state.
LoadsGood(j, n) ==
  /\ Loading(j)[n] = Ok(Loading(j)[n].state)
  /\ Good(Loading(j)[n].state)
  /\ \A x \in MsgIds : (\A m \in 1..n : UnusedIn(j[m], x)) => Unused(Loading(j)[n].state, x)

LEMMA EmptyIsGood == Good(EmptyLedger) /\ \A x : Unused(EmptyLedger, x)
<1> DEFINE s == EmptyLedger
<1>1. s.claims = {} /\ s.asks = {} /\ s.answers = <<>> /\ s.askIds = {} /\ s.tasks = {} /\ s \in Ledgers
  BY DEF EmptyLedger, Ledgers
<1> HIDE DEF s
<1>2. ClaimsApart(s)
  BY <1>1 DEF ClaimsApart
<1>3. AsksFit(s)
  <2>1. \A p, q : Between(s, p, q) = {}
    BY <1>1 DEF Between
  <2>2. IsFiniteSet({}) /\ Cardinality({}) = 0
    BY FS_EmptySet
  <2>3. \A p, q \in Procs : Cardinality(Between(s, p, q)) <= MaxAsksFromTo
    <3>1. 0 <= MaxAsksFromTo
      BY StoreAssumption
    <3> QED BY <2>1, <2>2, <3>1
  <2> QED BY <1>1, <2>2, <2>3 DEF AsksFit
<1>4. ReceiptsFit(s)
  BY <1>1, StoreAssumption DEF ReceiptsFit
<1>5. TasksFit(s)
  BY <1>1 DEF TasksFit, TasksParse, TakesAreNamed, TakersClaim, ClaimsOfTakers
<1>6. \A x : Unused(s, x)
  BY <1>1 DEF Unused
<1> QED BY <1>1, <1>2, <1>3, <1>4, <1>5, <1>6 DEF Good, s

\* What is read so far does not depend on what comes after.
LEMMA LoadingSteps ==
  ASSUME NEW j, Len(j) \in Nat
  PROVE  /\ Loading(j)[0] = Fresh
         /\ \A n \in 1..Len(j) : Loading(j)[n] = Read(Loading(j)[n - 1], j[n])
<1> DEFINE g == [n \in 0..Len(j) |-> IF n = 0 THEN Fresh ELSE Read(Loading(j)[n - 1], j[n])]
<1>1. Loading(j) = g
  BY LoadingUnfolds
<1>2. g[0] = Fresh
  OBVIOUS
<1>3. \A n \in 1..Len(j) : g[n] = Read(Loading(j)[n - 1], j[n])
  OBVIOUS
<1> HIDE DEF g
<1> QED BY <1>1, <1>2, <1>3

LEMMA LoadingIsGood ==
  ASSUME NEW j, Sound(j)
  PROVE  \A n \in 0..Len(j) : LoadsGood(j, n)
<1> DEFINE L == Len(j)
           Done == {n \in 0..L : LoadsGood(j, n)}
<1>1. L \in Nat /\ \A n \in 1..L : j[n] \in Records
  BY DEF Sound
<1>2. Loading(j)[0] = Fresh /\ \A n \in 1..L : Loading(j)[n] = Read(Loading(j)[n - 1], j[n])
  BY <1>1, LoadingSteps
<1>3. 0 \in Done
  <2>1. Loading(j)[0] = Ok(EmptyLedger) /\ Loading(j)[0].state = EmptyLedger
    BY <1>2 DEF Fresh, Ok
  <2>2. LoadsGood(j, 0)
    BY <2>1, EmptyIsGood DEF LoadsGood
  <2> QED BY <1>1, <2>2
<1>4. ASSUME NEW n \in 0..(L - 1), n \in Done PROVE n + 1 \in Done
  <2> DEFINE s == Loading(j)[n].state
             r == j[n + 1]
  <2>1. n + 1 \in 1..L /\ n + 1 \in 0..L /\ (n + 1) - 1 = n
    BY <1>1
  <2>2. Loading(j)[n] = Ok(s) /\ Good(s) /\ r \in Records
    BY <1>1, <1>4, <2>1 DEF LoadsGood
  <2>3. \A x \in MsgIds : (\A m \in 1..n : UnusedIn(j[m], x)) => Unused(s, x)
    BY <1>4 DEF LoadsGood
  <2>4. r \in Events => Unused(s, r.id)
    <3>1. SUFFICES ASSUME r \in Events PROVE Unused(s, r.id)
      OBVIOUS
    <3>2. \A m \in 1..n : m \in 1..Len(j) /\ n + 1 \in 1..Len(j) /\ m < n + 1
      BY <1>1, <2>1
    <3>3. \A m \in 1..n : UnusedIn(j[m], j[n + 1].id)
      BY <3>1, <3>2 DEF Sound
    <3>4. r.id \in MsgIds
      BY <3>1, EventFields
    <3> HIDE DEF s
    <3> QED BY <2>3, <3>3, <3>4
  <2>5. Loading(j)[n + 1] = Read(Ok(s), r)
    BY <1>2, <2>1, <2>2
  <2> HIDE DEF s, r
  <2>6. Loading(j)[n + 1] = Ok(After(s, r)) /\ Good(After(s, r))
    BY <2>2, <2>4, <2>5, ReadKeeps
  <2>7. Loading(j)[n + 1].state = After(s, r)
    BY <2>6 DEF Ok
  <2>8. ASSUME NEW x \in MsgIds, \A m \in 1..(n + 1) : UnusedIn(j[m], x) PROVE Unused(After(s, r), x)
    <3>1. \A m \in 1..n : m \in 1..(n + 1)
      BY <1>1
    <3>2. UnusedIn(r, x)
      BY <2>8, <2>1 DEF r
    <3> QED BY <2>2, <2>3, <2>4, <2>8, <3>1, <3>2, ReadKeeps
  <2>9. LoadsGood(j, n + 1)
    BY <2>6, <2>7, <2>8 DEF LoadsGood
  <2> QED BY <2>1, <2>9
<1> HIDE DEF Done
<1>5. \A n \in 0..L : n \in Done
  BY <1>1, <1>3, <1>4, UpTo
<1> QED BY <1>5 DEF Done

LEMMA LoadIsGood ==
  ASSUME NEW j, Sound(j)
  PROVE  /\ Load(j) = Ok(Load(j).state)
         /\ Good(Load(j).state)
         /\ \A x \in MsgIds : UnusedBy(j, x) => Unused(Load(j).state, x)
<1>1. Len(j) \in 0..Len(j)
  BY DEF Sound
<1>2. LoadsGood(j, Len(j))
  BY <1>1, LoadingIsGood
<1> QED BY <1>2 DEF LoadsGood, Load, UnusedBy

LEMMA LoadAppend ==
  ASSUME NEW j \in Seq(Records), NEW r \in Records
  PROVE  Load(Append(j, r)) = Read(Load(j), r)
<1> DEFINE k == Append(j, r)
           L == Len(j)
           Same == {n \in 0..L : Loading(k)[n] = Loading(j)[n]}
<1>1. L \in Nat /\ Len(k) = L + 1 /\ k[L + 1] = r /\ \A n \in 1..L : k[n] = j[n]
  OBVIOUS
<1>2. Loading(j)[0] = Fresh /\ \A n \in 1..L : Loading(j)[n] = Read(Loading(j)[n - 1], j[n])
  BY <1>1, LoadingSteps
<1> HIDE DEF k
<1>3. Loading(k)[0] = Fresh /\ \A n \in 1..(L + 1) : Loading(k)[n] = Read(Loading(k)[n - 1], k[n])
  <2>1. Len(k) \in Nat /\ 1..Len(k) = 1..(L + 1)
    BY <1>1
  <2> QED BY <2>1, LoadingSteps
<1>4. 0 \in Same
  BY <1>1, <1>2, <1>3
<1>5. ASSUME NEW n \in 0..(L - 1), n \in Same PROVE n + 1 \in Same
  <2>1. n + 1 \in 1..L /\ n + 1 \in 0..L /\ n + 1 \in 1..(L + 1) /\ (n + 1) - 1 = n
    BY <1>1
  <2> QED BY <1>1, <1>2, <1>3, <1>5, <2>1
<1> HIDE DEF Same
<1>6. \A n \in 0..L : n \in Same
  BY <1>1, <1>4, <1>5, UpTo
<1>7. Loading(k)[L] = Loading(j)[L]
  BY <1>1, <1>6 DEF Same
<1>8. L + 1 \in 1..(L + 1) /\ (L + 1) - 1 = L
  BY <1>1
<1>9. Loading(k)[L + 1] = Read(Loading(k)[L], r)
  BY <1>1, <1>3, <1>8
<1> QED BY <1>1, <1>7, <1>9 DEF Load, k

LEMMA LoadSnapshot ==
  ASSUME NEW s, Good(s)
  PROVE  Load(Snapshot(s)) = Ok(s) /\ Sound(Snapshot(s)) /\ \A x : Unused(s, x) => UnusedBy(Snapshot(s), x)
<1> DEFINE r == [kind |-> "ledger_snapshot_v1", state |-> s]
           j == <<r>>
<1>1. r \in Snapshots /\ r.state = s /\ r.kind = "ledger_snapshot_v1"
  BY DEF Snapshots, Good
<1>2. r \in Records /\ r \notin Events
  BY <1>1, RecordKinds DEF Records
<1> HIDE DEF r
<1>3. Len(j) = 1 /\ j[1] = r /\ j \in Seq(Records)
  BY <1>2
<1>4. Snapshot(s) = j
  BY DEF Snapshot, r
<1> HIDE DEF j
<1>5. Loading(j)[0] = Fresh /\ Loading(j)[1] = Read(Loading(j)[1 - 1], j[1])
  <2>1. Len(j) \in Nat /\ 1 \in 1..Len(j)
    BY <1>3
  <2> QED BY <2>1, LoadingSteps
<1>6. Fresh.ok = TRUE
  BY DEF Fresh
<1>7. Load(j) = Restore(s)
  <2>1. Loading(j)[1] = Read(Fresh, r)
    BY <1>3, <1>5
  <2>2. Read(Fresh, r) = Restore(s)
    BY <1>1, <1>6 DEF Read
  <2> QED BY <1>3, <2>1, <2>2 DEF Load
<1>8. Sound(j)
  BY <1>2, <1>3 DEF Sound
<1>9. \A x : Unused(s, x) => UnusedBy(j, x)
  BY <1>1, <1>2, <1>3 DEF UnusedBy, UnusedIn
<1> QED BY <1>4, <1>7, <1>8, <1>9, GoodIsRestored DEF Ok

LEMMA AppendSound ==
  ASSUME NEW j, Sound(j), NEW e \in Events, UnusedBy(j, e.id)
  PROVE  /\ Sound(Append(j, e))
         /\ \A x : UnusedBy(j, x) /\ e.id # x => UnusedBy(Append(j, e), x)
<1> DEFINE k == Append(j, e)
<1>1. j \in Seq(Records) /\ e \in Records
  BY DEF Sound, Records
<1>2. /\ k \in Seq(Records) /\ Len(j) \in Nat /\ Len(k) = Len(j) + 1 /\ k[Len(j) + 1] = e
      /\ \A n \in 1..Len(j) : k[n] = j[n]
  BY <1>1
<1> HIDE DEF k
<1>3. ASSUME NEW m \in 1..Len(k), NEW n \in 1..Len(k), m < n, k[n] \in Events
      PROVE  UnusedIn(k[m], k[n].id)
  <2>1. m \in 1..Len(j) /\ k[m] = j[m]
    BY <1>2, <1>3
  <2>2. CASE n = Len(j) + 1
    BY <1>2, <2>1, <2>2 DEF UnusedBy
  <2>3. CASE n # Len(j) + 1
    <3>1. n \in 1..Len(j) /\ k[n] = j[n]
      BY <1>2, <2>3
    <3> QED BY <1>3, <2>1, <3>1 DEF Sound
  <2> QED BY <2>2, <2>3
<1>4. e \notin Snapshots
  BY <1>1, RecordKinds
<1>5. ASSUME NEW x, UnusedBy(j, x), e.id # x PROVE UnusedBy(k, x)
  <2>1. \A n \in 1..Len(k) : n \in 1..Len(j) \/ n = Len(j) + 1
    BY <1>2
  <2>2. UnusedIn(e, x)
    BY <1>4, <1>5 DEF UnusedIn
  <2> QED BY <1>2, <1>5, <2>1, <2>2 DEF UnusedBy
<1> QED BY <1>2, <1>3, <1>5 DEF Sound, k

LEMMA FrontSound ==
  ASSUME NEW j, Sound(j)
  PROVE  Sound(Front(j)) /\ \A x : UnusedBy(j, x) => UnusedBy(Front(j), x)
<1> DEFINE k == Front(j)
<1>1. j \in Seq(Records) /\ Len(j) \in Nat
  BY DEF Sound
<1>2. k \in Seq(Records) /\ \A n \in 1..Len(k) : n \in 1..Len(j) /\ k[n] = j[n]
  BY <1>1 DEF Front
<1> HIDE DEF k
<1>3. ASSUME NEW m \in 1..Len(k), NEW n \in 1..Len(k), m < n, k[n] \in Events
      PROVE  UnusedIn(k[m], k[n].id)
  BY <1>2, <1>3 DEF Sound
<1> QED BY <1>2, <1>3 DEF Sound, UnusedBy, k

---------------------------------------------------------------------------
(* The ledger file under its commits.                                      *)
TxnRecs ==
  [event : Events, live : SUBSET Procs, phase : {"begun", "recovered", "done"}, ok : BOOLEAN]
Open(p) == txn[p] # NoTxn
Unwritten(p) == Open(p) /\ txn[p].phase \in {"begun", "recovered"}

Typed ==
  /\ txn \in [Procs -> {NoTxn} \cup TxnRecs]
  /\ leased \in SUBSET Procs
  /\ events \in 0..MaxEvents

\* A msg_id belongs to one commit, and is new to the file until that commit
\* writes.
Numbered ==
  /\ \A p \in Procs : Open(p) => txn[p].event.id <= events
  /\ \A p, q \in Procs : Open(p) /\ Open(q) /\ txn[p].event.id = txn[q].event.id => p = q
  /\ \A p \in Procs : Unwritten(p) => UnusedBy(journal, txn[p].event.id)
  /\ \A x \in MsgIds : x > events => UnusedBy(journal, x)

LedgerInv == Typed /\ Sound(journal) /\ Numbered

LEMMA Phases ==
  ASSUME Typed, NEW p \in Procs
  PROVE  /\ Open(p) <=> txn[p].phase # "none"
         /\ Open(p) => txn[p] \in TxnRecs
         /\ \A phase \in {"begun", "recovered", "done"} : InPhase(p, phase) => Open(p)
         /\ InPhase(p, "begun") \/ InPhase(p, "recovered") => Unwritten(p)
<1>1. NoTxn.phase = "none"
  BY DEF NoTxn
<1>2. txn[p] = NoTxn \/ txn[p] \in TxnRecs
  BY DEF Typed
<1>3. \A r \in TxnRecs : r.phase \in {"begun", "recovered", "done"} /\ r.phase # "none"
  BY DEF TxnRecs
<1> HIDE DEF NoTxn
<1> QED BY <1>1, <1>2, <1>3 DEF Open, Unwritten, InPhase

LEMMA StepMoves ==
  ASSUME Typed, NEW p \in Procs, Open(p), NEW phase \in {"begun", "recovered", "done"},
         NEW ok \in BOOLEAN, Step(p, phase, ok)
  PROVE  /\ txn' \in [Procs -> {NoTxn} \cup TxnRecs]
         /\ txn'[p] \in TxnRecs /\ txn'[p] # NoTxn
         /\ txn'[p].event = txn[p].event /\ txn'[p].live = txn[p].live
         /\ txn'[p].phase = phase /\ txn'[p].ok = ok
         /\ \A q \in Procs : q # p => txn'[q] = txn[q]
<1> DEFINE r == [txn[p] EXCEPT !.phase = phase, !.ok = ok]
<1>1. txn[p] \in TxnRecs /\ txn \in [Procs -> {NoTxn} \cup TxnRecs]
  BY Phases DEF Typed
<1>2. txn' = [txn EXCEPT ![p] = r]
  BY <1>1 DEF Step
<1>3. /\ r \in TxnRecs /\ r.event = txn[p].event /\ r.live = txn[p].live
      /\ r.phase = phase /\ r.ok = ok
  BY <1>1 DEF TxnRecs
<1> HIDE DEF r
<1>4. r # NoTxn
  BY <1>3 DEF NoTxn
<1> QED BY <1>1, <1>2, <1>3, <1>4

\* What a commit finds, and what it would leave.
LEMMA OutcomeIsGood ==
  ASSUME LedgerInv, NEW p \in Procs, Unwritten(p), NEW aged \in BOOLEAN
  PROVE  /\ Load(journal) = Ok(Contents) /\ Good(Contents)
         /\ Good(Pruned(p, aged)) /\ Good(Outcome(p, aged))
         /\ Unused(Pruned(p, aged), txn[p].event.id)
         /\ \A x \in MsgIds : UnusedBy(journal, x) /\ x # txn[p].event.id => Unused(Outcome(p, aged), x)
<1> DEFINE e == txn[p].event
<1>1. e \in Events /\ e.id \in MsgIds
  BY Phases, EventFields DEF LedgerInv, Unwritten, TxnRecs
<1>2. /\ Load(journal) = Ok(Contents) /\ Good(Contents)
      /\ \A x \in MsgIds : UnusedBy(journal, x) => Unused(Contents, x)
  BY LoadIsGood DEF LedgerInv, Contents
<1>3. Good(Pruned(p, aged)) /\ \A x \in MsgIds : UnusedBy(journal, x) => Unused(Pruned(p, aged), x)
  <2>1. Contents \in Ledgers
    BY <1>2 DEF Good
  <2> QED BY <1>2, <2>1, PruneKeeps, PruneNames DEF Pruned
<1>4. UnusedBy(journal, e.id)
  BY DEF LedgerInv, Numbered
<1>5. Unused(Pruned(p, aged), e.id)
  BY <1>1, <1>3, <1>4
<1>6. Good(Outcome(p, aged)) /\ \A x \in MsgIds : UnusedBy(journal, x) /\ x # e.id => Unused(Outcome(p, aged), x)
  <2> DEFINE s == Pruned(p, aged)
  <2>1. Good(s) /\ s \in Ledgers /\ Unused(s, e.id) /\ \A x \in MsgIds : UnusedBy(journal, x) => Unused(s, x)
    BY <1>3, <1>5 DEF Good
  <2>2. Outcome(p, aged) = IF Accepts(s, e) THEN Apply(s, e) ELSE s
    BY DEF Outcome
  <2> HIDE DEF s, e
  <2> QED BY <1>1, <2>1, <2>2, ApplyKeeps, ApplyNames
<1> QED BY <1>2, <1>3, <1>5, <1>6

\* However a write ends, the file stays sound.
LEMMA WriteIsSound ==
  ASSUME LedgerInv, NEW p \in Procs, Unwritten(p), NEW aged \in BOOLEAN,
         \/ journal' = journal \/ journal' = Front(journal)
         \/ journal' = Append(journal, txn[p].event)
         \/ journal' = Snapshot(Outcome(p, aged))
  PROVE  /\ Sound(journal')
         /\ \A x \in MsgIds : UnusedBy(journal, x) /\ x # txn[p].event.id => UnusedBy(journal', x)
<1> DEFINE e == txn[p].event
<1>1. e \in Events /\ Sound(journal) /\ UnusedBy(journal, e.id)
  BY Phases DEF LedgerInv, Numbered, Unwritten, TxnRecs
<1> HIDE DEF e
<1>2. CASE journal' = journal
  BY <1>1, <1>2
<1>3. CASE journal' = Front(journal)
  BY <1>1, <1>3, FrontSound
<1>4. CASE journal' = Append(journal, e)
  <2>1. Sound(Append(journal, e)) /\ \A x : UnusedBy(journal, x) /\ e.id # x => UnusedBy(Append(journal, e), x)
    BY <1>1, AppendSound
  <2> QED BY <1>4, <2>1 DEF e
<1>5. CASE journal' = Snapshot(Outcome(p, aged))
  <2>1. Good(Outcome(p, aged))
        /\ \A x \in MsgIds : UnusedBy(journal, x) /\ x # e.id => Unused(Outcome(p, aged), x)
    BY OutcomeIsGood DEF e
  <2> DEFINE s == Outcome(p, aged)
  <2>2. Sound(Snapshot(s)) /\ \A x : Unused(s, x) => UnusedBy(Snapshot(s), x)
    BY <2>1, LoadSnapshot
  <2> QED BY <1>5, <2>1, <2>2 DEF e
<1> QED BY <1>2, <1>3, <1>4, <1>5 DEF e

\* Nobody else's commit is disturbed by the end of one.
LEMMA OthersStay ==
  ASSUME LedgerInv, NEW p \in Procs, UNCHANGED <<leased, events>>, Sound(journal'),
         txn' \in [Procs -> {NoTxn} \cup TxnRecs], \A q \in Procs : q # p => txn'[q] = txn[q],
         \/ txn'[p] = NoTxn
         \/ Open(p) /\ txn'[p].event = txn[p].event /\ txn'[p].phase = "done"
         \/ Unwritten(p) /\ txn'[p].event = txn[p].event /\ UnusedBy(journal', txn[p].event.id),
         \A x \in MsgIds : UnusedBy(journal, x) /\ (Unwritten(p) => x # txn[p].event.id) => UnusedBy(journal', x)
  PROVE  LedgerInv'
<1>1. Typed'
  BY DEF LedgerInv, Typed
<1>2. ASSUME NEW q \in Procs, Open(q)' PROVE Open(q) /\ txn'[q].event = txn[q].event
  BY <1>2 DEF Open, Unwritten
<1>3. \A q \in Procs : Open(q) => txn[q].event.id \in MsgIds
  BY Phases, EventFields DEF LedgerInv, TxnRecs
<1>4. ASSUME NEW q \in Procs, Unwritten(q)' PROVE UnusedBy(journal', txn'[q].event.id)
  <2>1. CASE q = p
    BY <1>4, <2>1 DEF Unwritten, Open
  <2>2. CASE q # p
    <3>1. Unwritten(q) /\ txn'[q].event = txn[q].event
      BY <1>4, <2>2 DEF Unwritten, Open
    <3>2. Unwritten(p) => txn[q].event.id # txn[p].event.id
      BY <2>2, <3>1 DEF LedgerInv, Numbered, Unwritten
    <3>3. txn[q].event.id \in MsgIds /\ UnusedBy(journal, txn[q].event.id)
      BY <1>3, <3>1 DEF LedgerInv, Numbered, Unwritten
    <3> QED BY <3>1, <3>2, <3>3
  <2> QED BY <2>1, <2>2
<1>5. ASSUME NEW x \in MsgIds, x > events PROVE UnusedBy(journal', x)
  <2>1. UnusedBy(journal, x)
    BY <1>5 DEF LedgerInv, Numbered
  <2>2. Unwritten(p) => x # txn[p].event.id
    <3>1. Unwritten(p) => txn[p].event.id <= events /\ txn[p].event.id \in MsgIds
      BY <1>3 DEF LedgerInv, Numbered, Unwritten
    <3> QED BY <1>5, <3>1, StoreAssumption DEF LedgerInv, Typed, MsgIds
  <2> QED BY <2>1, <2>2
<1>6. Numbered'
  <2>1. \A q \in Procs : Open(q)' => txn'[q].event.id <= events'
    BY <1>2 DEF LedgerInv, Numbered
  <2>2. \A q, r \in Procs : Open(q)' /\ Open(r)' /\ txn'[q].event.id = txn'[r].event.id => q = r
    BY <1>2 DEF LedgerInv, Numbered
  <2> QED BY <1>4, <1>5, <2>1, <2>2 DEF Numbered
<1> QED BY <1>1, <1>6 DEF LedgerInv

---------------------------------------------------------------------------
LEMMA LedgerInitially == ASSUME StoreInit PROVE LedgerInv
<1>1. /\ journal \in Seq(Events) /\ Len(journal) <= MaxEvents /\ Len(journal) \in Nat
      /\ \A n \in 1..Len(journal) : journal[n].id = n
  BY StoreAssumption DEF StoreInit
<1>2. Typed
  BY <1>1, StoreAssumption DEF StoreInit, Typed
<1>3. \A n \in 1..Len(journal) : journal[n] \in Events /\ journal[n] \in Records /\ journal[n] \notin Snapshots
  BY <1>1, RecordKinds DEF Records
<1>4. Sound(journal)
  <2>1. journal \in Seq(Records)
    BY <1>1 DEF Records
  <2> QED BY <1>1, <1>3, <2>1 DEF Sound, UnusedIn
<1>5. Numbered
  <2>1. \A p \in Procs : ~Open(p)
    BY DEF StoreInit, Open
  <2>2. ASSUME NEW x \in MsgIds, x > events PROVE UnusedBy(journal, x)
    <3>1. \A n \in 1..Len(journal) : n # x
      BY <1>1, <2>2, StoreAssumption DEF StoreInit, MsgIds
    <3> QED BY <1>1, <1>3, <3>1 DEF UnusedBy, UnusedIn
  <2> QED BY <2>1, <2>2 DEF Numbered, Unwritten
<1> QED BY <1>2, <1>4, <1>5 DEF LedgerInv

\* dispatchSemantic hands a commit an event with a new msg_id.
LEMMA DraftsAreEvents ==
  ASSUME LedgerInv, NEW p \in leased, events < MaxEvents, NEW e \in Drafts(p)
  PROVE  e \in Events /\ e.id = events + 1 /\ e.from = p
<1>1. p \in Procs /\ leased \subseteq Procs /\ events + 1 \in MsgIds
  BY StoreAssumption DEF LedgerInv, Typed, MsgIds
<1>2. Contents \in Ledgers
  BY LoadIsGood DEF LedgerInv, Contents, Good
<1>3. CASE e \in [kind : {"claim"}, id : Msg, key : Keys, from : {p}, paths : WriteSets \ {{}}]
  BY <1>1, <1>3 DEF Events, Msg
<1>4. CASE e \in [kind : {"ask"}, id : Msg, key : Keys, from : {p}, to : leased \ {p}, askId : AskIds]
  BY <1>1, <1>4 DEF Events, Msg
<1>5. CASE e \in {[kind |-> "answer", id |-> events + 1, key |-> a.key, from |-> p, askId |-> a.askId] : a \in Contents.asks}
  <2>1. \A a \in Contents.asks : a.key \in Keys /\ a.askId \in AskIds
    BY <1>2 DEF Ledgers, AskRecs
  <2> QED BY <1>1, <1>5, <2>1 DEF Events
<1>6. CASE e \in [kind : {"release"}, id : Msg, key : Keys, from : {p}]
  BY <1>1, <1>6 DEF Events, Msg
<1>7. CASE e \in [kind : {"task_create"}, id : Msg, key : Keys, from : {p}, paths : WriteSets]
  BY <1>1, <1>7 DEF Events, Msg
<1>8. CASE e \in [kind : {"task_take", "task_finish"}, id : Msg, key : Keys, from : {p}, task : TaskIds]
  <2>1. TaskIds \subseteq MsgIds
    BY <1>2 DEF Ledgers, TaskRecs, TaskIds
  <2> QED BY <1>1, <1>8, <2>1 DEF Events, Msg
<1> QED BY <1>3, <1>4, <1>5, <1>6, <1>7, <1>8 DEF Drafts

LEMMA BeginKeeps ==
  ASSUME LedgerInv, NEW p \in Procs, BeginSome(p) PROVE LedgerInv'
<1>1. PICK e \in Drafts(p) : \E live \in {leased, NoView} : Begin(p, e, live)
  BY DEF BeginSome
<1>2. PICK live \in {leased, NoView} : Begin(p, e, live)
  BY <1>1
<1> DEFINE r == [event |-> e, live |-> live, phase |-> "begun", ok |-> FALSE]
<1>3. /\ p \in leased /\ events < MaxEvents /\ events' = events + 1
      /\ txn' = [txn EXCEPT ![p] = r] /\ journal' = journal /\ leased' = leased
  BY <1>2 DEF Begin, fileVars
<1>4. e \in Events /\ e.id = events + 1 /\ e.id \in MsgIds /\ events \in Nat
  BY <1>3, DraftsAreEvents, EventFields DEF LedgerInv, Typed
<1>5. r \in TxnRecs /\ r.event = e
  BY <1>4 DEF TxnRecs, LedgerInv, Typed, NoView
<1> HIDE DEF r
<1>6. txn'[p] = r /\ \A q \in Procs : q # p => txn'[q] = txn[q]
  BY <1>3 DEF LedgerInv, Typed
<1>7. Typed'
  <2>1. txn' \in [Procs -> {NoTxn} \cup TxnRecs]
    BY <1>3, <1>5 DEF LedgerInv, Typed
  <2> QED BY <1>3, <1>4, <2>1, StoreAssumption DEF LedgerInv, Typed
<1>8. Numbered'
  <2>1. \A q \in Procs : Open(q)' => (q = p /\ txn'[q].event = e) \/ (q # p /\ Open(q) /\ txn'[q] = txn[q])
    BY <1>5, <1>6 DEF Open
  <2>2. \A q \in Procs : Open(q) => txn[q].event.id <= events /\ txn[q].event.id \in Nat
    BY Phases, EventFields, StoreAssumption DEF LedgerInv, Numbered, TxnRecs, MsgIds
  <2>3. \A q \in Procs : Open(q)' => txn'[q].event.id <= events'
    BY <1>3, <1>4, <2>1, <2>2
  <2>4. \A q \in Procs : Open(q) => txn[q].event.id # e.id
    BY <1>4, <2>2
  <2>5. \A q, s \in Procs : Open(q)' /\ Open(s)' /\ txn'[q].event.id = txn'[s].event.id => q = s
    BY <2>1, <2>4 DEF LedgerInv, Numbered
  <2>6. UnusedBy(journal, e.id)
    BY <1>4 DEF LedgerInv, Numbered
  <2>7. \A q \in Procs : Unwritten(q)' => UnusedBy(journal, txn'[q].event.id)
    BY <2>1, <2>6 DEF LedgerInv, Numbered, Unwritten
  <2>8. \A x \in MsgIds : x > events' => UnusedBy(journal, x)
    BY <1>3, <1>4 DEF LedgerInv, Numbered, MsgIds
  <2> QED BY <1>3, <2>3, <2>5, <2>7, <2>8 DEF Numbered
<1> QED BY <1>3, <1>7, <1>8 DEF LedgerInv

\* A commit that closes without a write, or moves on to its next phase.
LEMMA CloseKeeps ==
  ASSUME LedgerInv, NEW p \in Procs, txn' = [txn EXCEPT ![p] = NoTxn],
         UNCHANGED <<journal, leased, events>>
  PROVE  LedgerInv'
<1>1. /\ txn' \in [Procs -> {NoTxn} \cup TxnRecs] /\ txn'[p] = NoTxn
      /\ \A q \in Procs : q # p => txn'[q] = txn[q]
  BY DEF LedgerInv, Typed
<1>2. Sound(journal')
  BY DEF LedgerInv
<1> QED BY <1>1, <1>2, OthersStay

LEMMA WriteKeeps ==
  ASSUME LedgerInv, NEW p \in Procs, InPhase(p, "recovered"), NEW aged \in BOOLEAN, NEW ok \in BOOLEAN,
         \/ journal' = journal \/ journal' = Front(journal)
         \/ journal' = Append(journal, txn[p].event)
         \/ journal' = Snapshot(Outcome(p, aged)),
         Step(p, "done", ok) \/ txn' = [txn EXCEPT ![p] = NoTxn],
         UNCHANGED <<leased, events>>
  PROVE  LedgerInv'
<1>1. Typed /\ Unwritten(p) /\ Open(p)
  BY Phases DEF LedgerInv, Unwritten
<1>2. /\ Sound(journal')
      /\ \A x \in MsgIds : UnusedBy(journal, x) /\ x # txn[p].event.id => UnusedBy(journal', x)
  BY <1>1, WriteIsSound
<1>3. CASE Step(p, "done", ok)
  <2>1. /\ txn' \in [Procs -> {NoTxn} \cup TxnRecs] /\ txn'[p].event = txn[p].event /\ txn'[p].phase = "done"
        /\ \A q \in Procs : q # p => txn'[q] = txn[q]
    BY <1>1, <1>3, StepMoves
  <2> QED BY <1>1, <1>2, <2>1, OthersStay
<1>4. CASE txn' = [txn EXCEPT ![p] = NoTxn]
  <2>1. /\ txn' \in [Procs -> {NoTxn} \cup TxnRecs] /\ txn'[p] = NoTxn
        /\ \A q \in Procs : q # p => txn'[q] = txn[q]
    BY <1>1, <1>4 DEF Typed
  <2> QED BY <1>1, <1>2, <2>1, OthersStay
<1> QED BY <1>3, <1>4

\* Each step of commitLedgerEvent, of the lock and of the registry.
LEMMA LedgerStep ==
  ASSUME LedgerInv, [StoreNext]_vars PROVE LedgerInv'
<1>1. CASE UNCHANGED vars
  BY <1>1 DEF vars, storeVars, lockVars, LedgerInv, Typed, Numbered, Open, Unwritten
<1>2. ASSUME NEW p \in Procs, BeginSome(p) PROVE LedgerInv'
  BY <1>2, BeginKeeps
<1>3. ASSUME NEW p \in Procs, Locking(p) PROVE LedgerInv'
  BY <1>3 DEF Locking, storeVars, LedgerInv, Typed, Numbered, Open, Unwritten
<1>4. ASSUME NEW p \in Procs, Refuse(p) PROVE LedgerInv'
  BY <1>4, CloseKeeps DEF Refuse, fileVars
<1>5. ASSUME NEW p \in Procs, Recover(p) PROVE LedgerInv'
  <2>1. Typed /\ Unwritten(p) /\ Open(p) /\ Step(p, "recovered", FALSE) /\ UNCHANGED <<journal, leased, events>>
    BY <1>5, Phases DEF Recover, LedgerInv, Unwritten
  <2>2. /\ txn' \in [Procs -> {NoTxn} \cup TxnRecs] /\ txn'[p].event = txn[p].event /\ txn'[p].phase = "recovered"
        /\ \A q \in Procs : q # p => txn'[q] = txn[q]
    BY <2>1, StepMoves
  <2>3. Sound(journal') /\ UnusedBy(journal', txn[p].event.id)
    BY <2>1 DEF LedgerInv, Numbered
  <2> QED BY <2>1, <2>2, <2>3, OthersStay
<1>6. ASSUME NEW p \in Procs, Acknowledge(p) PROVE LedgerInv'
  BY <1>6, CloseKeeps DEF Acknowledge, fileVars
<1>7. ASSUME NEW p \in Procs, NEW aged \in BOOLEAN, CommitGated(p, aged) PROVE LedgerInv'
  <2>1. InPhase(p, "recovered") /\ Step(p, "done", FALSE) /\ UNCHANGED <<journal, leased, events>>
    BY <1>7 DEF CommitGated, fileVars
  <2> QED BY <2>1, WriteKeeps
<1>8. ASSUME NEW p \in Procs, NEW aged \in BOOLEAN, NEW big \in BOOLEAN, Commit(p, aged, big) PROVE LedgerInv'
  <2> DEFINE ok == Accepts(Pruned(p, aged), txn[p].event)
  <2>1. InPhase(p, "recovered") /\ Step(p, "done", ok) /\ UNCHANGED <<leased, events>>
    BY <1>8 DEF Commit, Plan
  <2>2. \/ journal' = journal \/ journal' = Front(journal)
        \/ journal' = Append(journal, txn[p].event)
        \/ journal' = Snapshot(Outcome(p, aged))
    BY <1>8 DEF Commit, Replaced, Appended, Untouched, fileVars
  <2>3. ok \in BOOLEAN
    BY DEF Accepts, MayClaim, MayAsk, MayAnswer, MayRelease, MayCreate, MayTake, MayFinish
  <2> HIDE DEF ok
  <2> QED BY <2>1, <2>2, <2>3, WriteKeeps
<1>9. ASSUME NEW p \in Procs, NEW aged \in BOOLEAN, NEW big \in BOOLEAN, CommitFails(p, aged, big) PROVE LedgerInv'
  <2>1. InPhase(p, "recovered") /\ Step(p, "done", FALSE) /\ UNCHANGED <<leased, events>>
    BY <1>9 DEF CommitFails, Plan
  <2>2. journal' = journal \/ journal' = Append(journal, txn[p].event)
    BY <1>9 DEF CommitFails, HalfWritten, Untouched, fileVars
  <2> QED BY <2>1, <2>2, WriteKeeps
<1>10. ASSUME NEW p \in Procs, NEW aged \in BOOLEAN, NEW big \in BOOLEAN, CrashWriting(p, aged, big) PROVE LedgerInv'
  <2>1. InPhase(p, "recovered") /\ txn' = [txn EXCEPT ![p] = NoTxn] /\ UNCHANGED <<leased, events>>
    BY <1>10 DEF CrashWriting, Plan
  <2>2. \/ journal' = journal \/ journal' = Append(journal, txn[p].event)
        \/ journal' = Snapshot(Outcome(p, aged))
    BY <1>10 DEF CrashWriting, Replaced, HalfWritten
  <2> QED BY <2>1, <2>2, WriteKeeps
<1>11. ASSUME NEW p \in Procs, Die(p) PROVE LedgerInv'
  BY <1>11, CloseKeeps DEF Die, fileVars
<1>12. ASSUME NEW p \in Procs, LeaseLapses(p) \/ LeaseStarts(p) PROVE LedgerInv'
  <2>1. UNCHANGED <<txn, journal, events>> /\ leased' \subseteq Procs
    BY <1>12 DEF LeaseLapses, LeaseStarts, LedgerInv, Typed, fileVars
  <2> QED BY <2>1 DEF LedgerInv, Typed, Numbered, Open, Unwritten
<1> QED BY <1>1, <1>2, <1>3, <1>4, <1>5, <1>6, <1>7, <1>8, <1>9, <1>10, <1>11, <1>12 DEF StoreNext

---------------------------------------------------------------------------
(* Acknowledged facts.                                                     *)

\* How a fact that is in the ledger shows there: under its msg_id, and with
\* its author, its key and its addressee.
Link(s, f) ==
  \/ /\ f.kind = "claim"
     /\ \E c \in s.claims : c.id = f.id /\ c.key = f.key /\ c.from = f.from
     /\ \A t \in s.tasks : t.takeId # f.id
  \/ f.kind = "ask" /\ AskOf(f) \in s.asks
  \/ f.kind = "answer" /\ \E i \in DOMAIN s.answers : s.answers[i].id = f.id
  \/ /\ f.kind = "task_take"
     /\ \E t \in s.tasks : /\ t.takeId = f.id /\ t.status = "taken" /\ t.taker = f.from
                           /\ t.key = f.key /\ t.id = f.task

\* Past its recovery a commit holds the lock, and finds whole records.
Inside ==
  /\ pc \in [Procs -> Stages]
  /\ \A p \in Procs : Open(p) /\ txn[p].phase \in {"recovered", "done"} => pc[p] = "held"
  /\ \A p \in Procs : Open(p) /\ txn[p].phase = "recovered" => tail = "clean"

FactsInv ==
  /\ Inside
  /\ \A f \in owed : f \in Events /\ f.kind \in FactKinds /\ Link(Contents, f)
  /\ \A p \in Procs :
       Open(p) /\ txn[p].phase = "done" /\ txn[p].ok /\ txn[p].event.kind \in FactKinds
         => Link(Contents, txn[p].event)

LEMMA LinkIsNamed ==
  ASSUME NEW s, NEW f, Link(s, f), f.kind # "answer"
  PROVE  ~Unused(s, f.id)
BY DEF Link, Unused, AskOf

\* An accepted fact is in the ledger from its write on.
LEMMA FactIsLinked ==
  ASSUME NEW s, Good(s), NEW e \in Events, Accepts(s, e), Unused(s, e.id), e.kind \in FactKinds
  PROVE  Link(Apply(s, e), e)
<1> DEFINE n == Apply(s, e)
<1>0. s \in Ledgers
  BY DEF Good
<1>1. CASE e.kind = "claim"
  <2>1. n = Claimed(s, e)
    BY <1>1 DEF Apply
  <2>2. n.claims = s.claims \cup {ClaimOf(e, e.paths)} /\ n.tasks = s.tasks
    BY <1>0, <2>1 DEF Claimed, Ledgers
  <2>3. ClaimOf(e, e.paths).id = e.id /\ ClaimOf(e, e.paths).key = e.key /\ ClaimOf(e, e.paths).from = e.from
    BY DEF ClaimOf
  <2> HIDE DEF n
  <2>4. Link(n, e)
    BY <1>1, <2>2, <2>3 DEF Link, Unused
  <2> QED BY <2>4 DEF n
<1>2. CASE e.kind = "ask"
  <2>1. n = Asked(s, e)
    BY <1>2 DEF Apply
  <2>2. n.asks = s.asks \cup {AskOf(e)}
    BY <1>0, <2>1 DEF Asked, Ledgers
  <2> HIDE DEF n
  <2>3. Link(n, e)
    BY <1>2, <2>2 DEF Link
  <2> QED BY <2>3 DEF n
<1>3. CASE e.kind = "answer"
  <2> DEFINE given == [id |-> e.id, ask |-> AskIn(s, e.askId)]
             left == Latest(Append(s.answers, given), MaxResults)
  <2>1. n = Answered(s, e)
    BY <1>3 DEF Apply
  <2>2. n.answers = left
    BY <1>0, <2>1 DEF Answered, Ledgers
  <2>3. s.answers \in Seq(ReceiptRecs) /\ Len(s.answers) <= MaxResults
    BY <1>0 DEF Ledgers, Good, ReceiptsFit
  <2>4. given \in ReceiptRecs
    <3>1. PICK a \in s.asks : a.askId = e.askId
      BY <1>3 DEF Accepts, MayAnswer
    <3>2. AskIn(s, e.askId) = a
      BY <3>1, AskInIs DEF Good
    <3>3. a \in AskRecs
      BY <1>0 DEF Ledgers
    <3> QED BY <3>2, <3>3, EventFields DEF ReceiptRecs
  <2>5. given.id = e.id
    OBVIOUS
  <2> DEFINE w == Append(s.answers, given)
  <2>6. w[Len(s.answers) + 1] = given /\ Len(s.answers) \in Nat
    BY <2>3, <2>4
  <2> HIDE DEF given
  <2>7. /\ left \in Seq(ReceiptRecs) /\ Len(left) \in 1..(Len(s.answers) + 1)
        /\ \A i \in 1..Len(left) : left[i] = w[i + (Len(s.answers) + 1 - Len(left))]
    BY <2>3, <2>4, LatestKeeps
  <2> HIDE DEF left, w, n
  <2>8. Len(left) \in 1..Len(left) /\ Len(left) + (Len(s.answers) + 1 - Len(left)) = Len(s.answers) + 1
    BY <2>6, <2>7
  <2>9. Len(left) \in DOMAIN left /\ left[Len(left)].id = e.id
    BY <2>5, <2>6, <2>7, <2>8
  <2>10. Link(n, e)
    BY <1>3, <2>2, <2>9 DEF Link
  <2> QED BY <2>10 DEF n
<1>4. CASE e.kind = "task_take"
  <2>1. n = Took(s, e)
    BY <1>4 DEF Apply
  <2>2. n.tasks = {TakenBy(t, e) : t \in s.tasks}
    BY <1>0, <2>1 DEF Took, Ledgers
  <2>3. PICK t \in s.tasks : IsTask(t, e)
    BY <1>4 DEF Accepts, MayTake
  <2>4. TakenBy(t, e) = [t EXCEPT !.taker = e.from, !.takeId = e.id, !.status = "taken"] /\ t \in TaskRecs
    BY <1>0, <2>3 DEF TakenBy, Ledgers
  <2>5. /\ TakenBy(t, e).takeId = e.id /\ TakenBy(t, e).status = "taken" /\ TakenBy(t, e).taker = e.from
        /\ TakenBy(t, e).key = e.key /\ TakenBy(t, e).id = e.task
    BY <2>3, <2>4 DEF TaskRecs, IsTask
  <2> HIDE DEF n
  <2>6. Link(n, e)
    BY <1>4, <2>2, <2>5 DEF Link
  <2> QED BY <2>6 DEF n
<1> QED BY <1>1, <1>2, <1>3, <1>4 DEF FactKinds

\* The tasks of a state, each possibly with another status, still show the
\* pickups that stay taken.
LEMMA LinkMoves ==
  ASSUME NEW s \in Ledgers, NEW n, NEW f \in Events, Link(s, f),
         f.kind = "claim" => /\ \A c \in s.claims : c.id = f.id /\ c.key = f.key /\ c.from = f.from => c \in n.claims
                             /\ \A t \in n.tasks : t.takeId # f.id,
         f.kind = "ask" => AskOf(f) \in n.asks,
         f.kind = "answer" => \E i \in DOMAIN n.answers : n.answers[i].id = f.id,
         f.kind = "task_take" =>
           \A t \in s.tasks : t.takeId = f.id /\ t.status = "taken" /\ t.taker = f.from /\ t.key = f.key /\ t.id = f.task
             => t \in n.tasks
  PROVE  Link(n, f)
BY DEF Link

\* Nothing but its own ending removes a fact.
LEMMA LinkIsKept ==
  ASSUME NEW s, Good(s), NEW e \in Events, Accepts(s, e), Unused(s, e.id),
         NEW f \in Events, Link(s, f), ~EndedBy(f, e), f.kind = "answer" => s.answers = Contents.answers
  PROVE  Link(Apply(s, e), f)
<1> DEFINE n == Apply(s, e)
<1>0. s \in Ledgers
  BY DEF Good
<1>a. f.kind # "answer" => f.id # e.id
  BY LinkIsNamed
<1>t. \A t \in s.tasks : f.kind = "claim" => t.takeId # f.id
  BY DEF Link
<1>r. f.kind = "answer" => \E i \in DOMAIN s.answers : s.answers[i].id = f.id
  BY DEF Link
<1>q. f.kind = "ask" => AskOf(f) \in s.asks
  BY DEF Link
<1>1. CASE e.kind = "claim"
  <2>1. n = Claimed(s, e)
    BY <1>1 DEF Apply
  <2>2. s.claims \subseteq n.claims /\ n.asks = s.asks /\ n.answers = s.answers /\ n.tasks = s.tasks
    BY <1>0, <2>1 DEF Claimed, Ledgers
  <2> HIDE DEF n
  <2>3. Link(n, f)
    BY <2>2 DEF Link
  <2> QED BY <2>3 DEF n
<1>2. CASE e.kind = "ask"
  <2>1. n = Asked(s, e)
    BY <1>2 DEF Apply
  <2>2. n.claims = s.claims /\ s.asks \subseteq n.asks /\ n.answers = s.answers /\ n.tasks = s.tasks
    BY <1>0, <2>1 DEF Asked, Ledgers
  <2> HIDE DEF n
  <2>3. Link(n, f)
    BY <2>2 DEF Link
  <2> QED BY <2>3 DEF n
<1>3. CASE e.kind = "answer"
  <2> DEFINE given == [id |-> e.id, ask |-> AskIn(s, e.askId)]
             w == Append(s.answers, given)
             left == Latest(w, MaxResults)
  <2>1. n = Answered(s, e)
    BY <1>3 DEF Apply
  <2>2. n.claims = s.claims /\ n.asks = {a \in s.asks : a.askId # e.askId} /\ n.answers = left /\ n.tasks = s.tasks
    BY <1>0, <2>1 DEF Answered, Ledgers
  <2>3. ASSUME f.kind = "answer" PROVE \E i \in DOMAIN n.answers : n.answers[i].id = f.id
    <3>1. s.answers \in Seq(ReceiptRecs) /\ Len(s.answers) \in Nat
      BY <1>0 DEF Ledgers
    <3>2. Len(s.answers) < MaxResults
      BY <1>3, <2>3, <3>1, StoreAssumption DEF EndedBy
    <3>3. Len(w) = Len(s.answers) + 1 /\ \A i \in 1..Len(s.answers) : w[i] = s.answers[i]
      BY <3>1
    <3> HIDE DEF w
    <3>4. left = w
      BY <3>1, <3>2, <3>3, StoreAssumption DEF Latest
    <3>5. PICK i \in DOMAIN s.answers : s.answers[i].id = f.id
      BY <1>r, <2>3
    <3>6. i \in 1..Len(s.answers)
      BY <3>1, <3>5
    <3>7. DOMAIN w = 1..Len(w)
      BY <3>1 DEF w
    <3>8. i \in DOMAIN w /\ w[i] = s.answers[i]
      BY <3>1, <3>3, <3>6, <3>7
    <3> QED BY <2>2, <3>4, <3>5, <3>8
  <2>4. ASSUME f.kind = "ask" PROVE AskOf(f) \in n.asks
    <3>1. AskOf(f) \in s.asks /\ AskOf(f).askId = f.askId /\ AskOf(f).to = f.to
      BY <1>q, <2>4 DEF AskOf
    <3>2. PICK a \in s.asks : a.askId = e.askId /\ a.to = e.from
      BY <1>3 DEF Accepts, MayAnswer
    <3>3. f.askId # e.askId
      <4>1. SUFFICES ASSUME f.askId = e.askId PROVE FALSE
        OBVIOUS
      <4>2. AskOf(f) = a
        BY <3>1, <3>2, <4>1 DEF Good, AsksFit
      <4> QED BY <1>3, <2>4, <3>1, <3>2, <4>1, <4>2 DEF EndedBy
    <3> QED BY <2>2, <3>1, <3>3
  <2> HIDE DEF n, left, w
  <2>5. Link(n, f)
    BY <1>0, <1>t, <2>2, <2>3, <2>4, LinkMoves
  <2> QED BY <2>5 DEF n
<1>4. CASE e.kind = "release"
  <2>1. n = Released(s, e)
    BY <1>4 DEF Apply
  <2>2. /\ n.claims = {c \in s.claims : ~Mine(c, e)} /\ n.asks = {a \in s.asks : ~Mine(a, e)}
        /\ n.answers = s.answers /\ n.tasks = {GivenUp(t, e) : t \in s.tasks}
    BY <1>0, <2>1 DEF Released, Ledgers
  <2>3. f.kind # "answer" => ~(e.from = f.from /\ e.key = f.key)
    BY <1>4 DEF EndedBy
  <2> HIDE DEF n
  <2>4. ASSUME f.kind = "claim" PROVE \A t \in n.tasks : t.takeId # f.id
    <3>1. \A t \in s.tasks : GivenUp(t, e).takeId = t.takeId
      BY <1>0 DEF GivenUp, Ledgers, TaskRecs
    <3> QED BY <1>t, <2>2, <2>4, <3>1
  <2>5. f.kind = "claim" => \A c \in s.claims : c.id = f.id /\ c.key = f.key /\ c.from = f.from => c \in n.claims
    BY <2>2, <2>3 DEF Mine
  <2>6. f.kind = "ask" => AskOf(f) \in n.asks
    BY <1>q, <2>2, <2>3 DEF Mine, AskOf
  <2>7. ASSUME f.kind = "task_take", NEW t \in s.tasks, t.status = "taken", t.taker = f.from, t.key = f.key
        PROVE  t \in n.tasks
    <3>1. Owner(t) = f.from
      BY <1>0, <2>7 DEF Owner, Good, TasksFit, TasksParse
    <3>2. GivenUp(t, e) = t
      BY <2>3, <2>7, <3>1 DEF GivenUp, MineToEnd
    <3> QED BY <2>2, <3>2
  <2>8. Link(n, f)
    BY <1>0, <1>r, <2>2, <2>4, <2>5, <2>6, <2>7, LinkMoves
  <2> QED BY <2>8 DEF n
<1>5. CASE e.kind = "task_create"
  <2>1. n = Created(s, e)
    BY <1>5 DEF Apply
  <2>2. n.claims = s.claims /\ n.asks = s.asks /\ n.answers = s.answers /\ n.tasks = s.tasks \cup {NewTask(e)}
    BY <1>0, <2>1 DEF Created, Ledgers
  <2>3. NewTask(e).takeId = 0 /\ f.id # 0
    BY StoreAssumption, EventFields DEF NewTask, MsgIds
  <2> HIDE DEF n
  <2>4. Link(n, f)
    BY <1>0, <1>t, <1>r, <1>q, <2>2, <2>3, LinkMoves
  <2> QED BY <2>4 DEF n
<1>6. CASE e.kind = "task_take"
  <2>1. n = Took(s, e)
    BY <1>6 DEF Apply
  <2>2. s.claims \subseteq n.claims /\ n.asks = s.asks /\ n.answers = s.answers /\ n.tasks = {TakenBy(t, e) : t \in s.tasks}
    BY <1>0, <2>1 DEF Took, Ledgers
  <2> HIDE DEF n
  <2>3. ASSUME f.kind = "claim" PROVE \A t \in n.tasks : t.takeId # f.id
    <3>1. \A t \in s.tasks : TakenBy(t, e).takeId \in {t.takeId, e.id}
      BY <1>0 DEF TakenBy, Ledgers, TaskRecs
    <3> QED BY <1>t, <1>a, <2>2, <2>3, <3>1
  <2>4. ASSUME NEW t \in s.tasks, t.status = "taken" PROVE t \in n.tasks
    <3>1. PICK u \in s.tasks : IsTask(u, e) /\ u.status = "open"
      BY <1>6 DEF Accepts, MayTake
    <3>2. ~IsTask(t, e)
      BY <2>4, <3>1 DEF IsTask, Good, TasksFit, TasksParse
    <3>3. TakenBy(t, e) = t
      BY <3>2 DEF TakenBy
    <3> QED BY <2>2, <3>3
  <2>5. Link(n, f)
    BY <1>0, <1>r, <1>q, <2>2, <2>3, <2>4, LinkMoves
  <2> QED BY <2>5 DEF n
<1>7. CASE e.kind = "task_finish"
  <2>1. n = Finished(s, e)
    BY <1>7 DEF Apply
  <2>2. /\ n.claims = {c \in s.claims : \A t \in s.tasks : ~(IsTask(t, e) /\ t.takeId = c.id)}
        /\ n.asks = s.asks /\ n.answers = s.answers /\ n.tasks = {FinishedBy(t, e) : t \in s.tasks}
    BY <1>0, <2>1 DEF Finished, Ledgers
  <2> HIDE DEF n
  <2>3. ASSUME f.kind = "claim" PROVE \A t \in n.tasks : t.takeId # f.id
    <3>1. \A t \in s.tasks : FinishedBy(t, e).takeId = t.takeId
      BY <1>0 DEF FinishedBy, Ledgers, TaskRecs
    <3> QED BY <1>t, <2>2, <2>3, <3>1
  <2>4. f.kind = "claim" => \A c \in s.claims : c.id = f.id /\ c.key = f.key /\ c.from = f.from => c \in n.claims
    BY <1>t, <2>2
  <2>5. ASSUME f.kind = "task_take", NEW t \in s.tasks, t.taker = f.from, t.key = f.key, t.id = f.task
        PROVE  t \in n.tasks
    <3>1. PICK u \in s.tasks : IsTask(u, e) /\ u.taker = e.from
      BY <1>7 DEF Accepts, MayFinish
    <3>2. ~IsTask(t, e)
      <4>1. SUFFICES ASSUME IsTask(t, e) PROVE FALSE
        OBVIOUS
      <4>2. t = u
        BY <3>1, <4>1 DEF IsTask, Good, TasksFit, TasksParse
      <4> QED BY <1>7, <2>5, <3>1, <4>1, <4>2 DEF EndedBy, IsTask
    <3>3. FinishedBy(t, e) = t
      BY <3>2 DEF FinishedBy
    <3> QED BY <2>2, <3>3
  <2>6. Link(n, f)
    BY <1>0, <1>r, <1>q, <2>2, <2>3, <2>4, <2>5, LinkMoves
  <2> QED BY <2>6 DEF n
<1> QED BY <1>1, <1>2, <1>3, <1>4, <1>5, <1>6, <1>7, EventFields

\* A prune forgets no fact whose parties are live and whose receipt is young.
LEMMA LinkIsSpared ==
  ASSUME NEW s, Good(s), NEW live, NEW aged \in BOOLEAN, NEW f \in Events, f.kind \in FactKinds,
         Link(s, f), PartyOf(f) \subseteq live, ~(f.kind = "answer" /\ aged)
  PROVE  /\ Link(Prune(s, live, aged), f)
         /\ f.kind = "answer" => Prune(s, live, aged).answers = s.answers
<1> DEFINE n == Prune(s, live, aged)
<1>0. s \in Ledgers
  BY DEF Good
<1>1. /\ n.claims = {c \in s.claims : c.from \in live}
      /\ n.asks = {a \in s.asks : {a.from, a.to} \subseteq live}
      /\ n.answers = IF aged THEN <<>> ELSE s.answers
      /\ n.tasks = {Stale(t, live) : t \in {u \in s.tasks : ~(aged /\ Terminal(u))}}
  BY <1>0 DEF Prune, Ledgers
<1> HIDE DEF n
<1>2. ASSUME f.kind = "claim" PROVE \A t \in n.tasks : t.takeId # f.id
  <2>1. \A t \in s.tasks : Stale(t, live).takeId = t.takeId
    BY <1>0 DEF Stale, Ledgers, TaskRecs
  <2> QED BY <1>1, <1>2, <2>1 DEF Link
<1>3. f.kind = "claim" => \A c \in s.claims : c.id = f.id /\ c.key = f.key /\ c.from = f.from => c \in n.claims
  BY <1>1 DEF PartyOf
<1>4. f.kind = "ask" => AskOf(f) \in n.asks
  BY <1>1 DEF PartyOf, AskOf, Link
<1>5. f.kind = "answer" => n.answers = s.answers
  BY <1>1
<1>6. f.kind = "answer" => \E i \in DOMAIN n.answers : n.answers[i].id = f.id
  BY <1>5 DEF Link
<1>7. ASSUME f.kind = "task_take", NEW t \in s.tasks, t.status = "taken", t.taker = f.from PROVE t \in n.tasks
  <2>1. Owner(t) \in live /\ Unfinished(t)
    BY <1>0, <1>7 DEF Owner, PartyOf, Unfinished, Good, TasksFit, TasksParse
  <2>2. Stale(t, live) = t /\ ~Terminal(t)
    BY <2>1 DEF Stale, Terminal
  <2> QED BY <1>1, <2>2
<1>8. Link(n, f)
  BY <1>0, <1>2, <1>3, <1>4, <1>6, <1>7, LinkMoves
<1> QED BY <1>5, <1>8 DEF n

---------------------------------------------------------------------------
\* A commit works on the lock only through its own protocol.
LEMMA StoreStepsTheLock == ASSUME StoreNext PROVE [LockNext]_lockVars
<1>1. ASSUME NEW p \in Procs, BeginSome(p) PROVE Contend(p)
  BY <1>1 DEF BeginSome, Begin
<1>2. ASSUME NEW p \in Procs, Locking(p) PROVE Create(p) \/ WritePayload(p) \/ Judge(p) \/ Steal(p)
  BY <1>2 DEF Locking
<1>3. ASSUME NEW p \in Procs, Refuse(p) PROVE PayloadFails(p) \/ GiveUp(p)
  BY <1>3 DEF Refuse
<1>4. ASSUME NEW p \in Procs, Recover(p) \/ LeaseLapses(p) \/ LeaseStarts(p) PROVE UNCHANGED lockVars
  BY <1>4 DEF Recover, LeaseLapses, LeaseStarts, lockVars
<1>5. ASSUME NEW p \in Procs, Acknowledge(p) PROVE Release(p)
  BY <1>5 DEF Acknowledge
<1>6. ASSUME NEW p \in Procs, NEW aged \in BOOLEAN, CommitGated(p, aged) PROVE UNCHANGED lockVars
  BY <1>6 DEF CommitGated, lockVars
<1>7. ASSUME NEW p \in Procs, NEW aged \in BOOLEAN, NEW big \in BOOLEAN, Commit(p, aged, big) \/ CommitFails(p, aged, big)
      PROVE  UNCHANGED lockVars
  BY <1>7 DEF Commit, CommitFails, lockVars
<1>8. ASSUME NEW p \in Procs, NEW aged \in BOOLEAN, NEW big \in BOOLEAN, CrashWriting(p, aged, big) PROVE Crash(p)
  BY <1>8 DEF CrashWriting
<1>9. ASSUME NEW p \in Procs, Die(p) PROVE Crash(p)
  BY <1>9 DEF Die
<1> QED BY <1>1, <1>2, <1>3, <1>4, <1>5, <1>6, <1>7, <1>8, <1>9 DEF StoreNext, LockNext

\* A commit past its recovery stays in the lock until it has closed.
LEMMA InsideKeeps ==
  ASSUME Inside, Typed, NEW p \in Procs, NEW stage \in Stages,
         (pc' = pc \/ pc' = [pc EXCEPT ![p] = stage]),
         \A q \in Procs : q # p => txn'[q] = txn[q],
         \/ txn'[p] = NoTxn
         \/ txn'[p].phase = "begun"
         \/ pc'[p] = "held" /\ (txn'[p].phase = "recovered" => tail' = "clean")
         \/ txn'[p] = txn[p] /\ tail' = tail /\ pc[p] # "held",
         \A q \in Procs : Open(q) /\ txn[q].phase = "recovered" /\ q # p => tail' = "clean"
  PROVE  Inside'
<1>1. pc' \in [Procs -> Stages] /\ \A q \in Procs : q # p => pc'[q] = pc[q]
  BY DEF Inside
<1>2. \A q \in Procs : Open(q)' /\ txn'[q].phase \in {"recovered", "done"} => pc'[q] = "held"
  BY <1>1 DEF Inside, Open
<1>3. \A q \in Procs : Open(q)' /\ txn'[q].phase = "recovered" => tail' = "clean"
  BY <1>1 DEF Inside, Open
<1> QED BY <1>1, <1>2, <1>3 DEF Inside

LEMMA InsideStep ==
  ASSUME LedgerInv, Inside, OneTransactionAtATime, StoreNext PROVE Inside'
<1>0. Typed /\ pc \in [Procs -> Stages] /\ \A s \in Stages, p \in Procs : Goto(p, s) => pc' = [pc EXCEPT ![p] = s]
  BY DEF LedgerInv, Inside, Goto
<1>s. \A p \in Procs : \A q \in Procs :
        q # p => ([txn EXCEPT ![p] = NoTxn][q] = txn[q] /\ [txn EXCEPT ![p] = NoTxn][p] = NoTxn)
  BY <1>0 DEF Typed
<1>c. \A q \in Procs : Open(q) /\ txn[q].phase = "recovered" => tail = "clean"
  BY DEF Inside
<1>h. \A p, q \in Procs : pc[p] = "held" /\ Open(q) /\ txn[q].phase = "recovered" => q = p
  BY DEF Inside, OneTransactionAtATime
<1>n. ASSUME NEW p \in Procs, txn' = [txn EXCEPT ![p] = NoTxn]
      PROVE  txn'[p] = NoTxn /\ \A q \in Procs : q # p => txn'[q] = txn[q]
  BY <1>0, <1>n DEF Typed
<1>1. ASSUME NEW p \in Procs, BeginSome(p) PROVE Inside'
  <2>1. PICK e \in Drafts(p) : \E live \in {leased, NoView} : Begin(p, e, live)
    BY <1>1 DEF BeginSome
  <2>2. PICK live \in {leased, NoView} : Begin(p, e, live)
    BY <2>1
  <2> DEFINE r == [event |-> e, live |-> live, phase |-> "begun", ok |-> FALSE]
  <2>3. txn' = [txn EXCEPT ![p] = r] /\ tail' = tail /\ pc' = [pc EXCEPT ![p] = "contend"]
    BY <2>2 DEF Begin, fileVars, Contend, Goto
  <2>4. r.phase = "begun"
    OBVIOUS
  <2> HIDE DEF r
  <2>5. txn'[p].phase = "begun" /\ \A q \in Procs : q # p => txn'[q] = txn[q]
    BY <1>0, <2>3, <2>4 DEF Typed
  <2>6. "contend" \in Stages
    BY DEF Stages
  <2> QED BY <1>0, <1>c, <2>3, <2>5, <2>6, InsideKeeps
<1>2. ASSUME NEW p \in Procs, Locking(p) PROVE Inside'
  <2>1. txn' = txn /\ tail' = tail
    BY <1>2 DEF Locking, storeVars
  <2>2. pc[p] # "held" /\ \E s \in Stages : pc' = [pc EXCEPT ![p] = s]
    BY <1>2 DEF Locking, Create, WritePayload, Judge, Steal, Goto, Stages
  <2>3. PICK s \in Stages : pc' = [pc EXCEPT ![p] = s]
    BY <2>2
  <2> QED BY <1>0, <1>c, <2>1, <2>2, <2>3, InsideKeeps
<1>3. ASSUME NEW p \in Procs, Refuse(p) PROVE Inside'
  <2>1. txn' = [txn EXCEPT ![p] = NoTxn] /\ tail' = tail /\ pc' = [pc EXCEPT ![p] = "idle"]
    BY <1>3 DEF Refuse, PayloadFails, GiveUp, Goto, fileVars
  <2>2. "idle" \in Stages
    BY DEF Stages
  <2> QED BY <1>0, <1>c, <1>n, <2>1, <2>2, InsideKeeps
<1>4. ASSUME NEW p \in Procs, Recover(p) PROVE Inside'
  <2>1. pc' = pc /\ pc[p] = "held" /\ tail' = "clean" /\ Step(p, "recovered", FALSE) /\ Open(p) /\ "held" \in Stages
    BY <1>4, <1>0, Phases DEF Recover, InPhase, lockVars, Stages
  <2>2. \A q \in Procs : q # p => txn'[q] = txn[q]
    BY <1>0, <2>1, StepMoves
  <2> QED BY <1>0, <2>1, <2>2, InsideKeeps
<1>5. ASSUME NEW p \in Procs, Acknowledge(p) PROVE Inside'
  <2>1. txn' = [txn EXCEPT ![p] = NoTxn] /\ tail' = tail /\ pc' = [pc EXCEPT ![p] = "idle"]
    BY <1>5 DEF Acknowledge, Release, Goto, fileVars
  <2>2. "idle" \in Stages
    BY DEF Stages
  <2> QED BY <1>0, <1>c, <1>n, <2>1, <2>2, InsideKeeps
<1>6. ASSUME NEW p \in Procs, InPhase(p, "recovered"), NEW ok \in BOOLEAN, Step(p, "done", ok), UNCHANGED lockVars
      PROVE  Inside'
  <2>1. pc' = pc /\ pc[p] = "held" /\ Open(p) /\ "held" \in Stages
    BY <1>6, <1>0, Phases DEF InPhase, lockVars, Stages
  <2>2. txn'[p].phase = "done" /\ \A q \in Procs : q # p => txn'[q] = txn[q]
    BY <1>0, <1>6, <2>1, StepMoves
  <2> QED BY <1>0, <1>h, <2>1, <2>2, InsideKeeps
<1>7. ASSUME NEW p \in Procs, NEW aged \in BOOLEAN, CommitGated(p, aged) PROVE Inside'
  <2>1. InPhase(p, "recovered") /\ Step(p, "done", FALSE) /\ UNCHANGED lockVars
    BY <1>7 DEF CommitGated, lockVars
  <2> QED BY <1>6, <2>1
<1>8. ASSUME NEW p \in Procs, NEW aged \in BOOLEAN, NEW big \in BOOLEAN, Commit(p, aged, big) PROVE Inside'
  <2> DEFINE ok == Accepts(Pruned(p, aged), txn[p].event)
  <2>1. InPhase(p, "recovered") /\ Step(p, "done", ok) /\ UNCHANGED lockVars
    BY <1>8 DEF Commit, Plan, lockVars
  <2>2. ok \in BOOLEAN
    BY DEF Accepts, MayClaim, MayAsk, MayAnswer, MayRelease, MayCreate, MayTake, MayFinish
  <2> HIDE DEF ok
  <2> QED BY <1>6, <2>1, <2>2
<1>9. ASSUME NEW p \in Procs, NEW aged \in BOOLEAN, NEW big \in BOOLEAN, CommitFails(p, aged, big) PROVE Inside'
  <2>1. InPhase(p, "recovered") /\ Step(p, "done", FALSE) /\ UNCHANGED lockVars
    BY <1>9 DEF CommitFails, Plan, lockVars
  <2> QED BY <1>6, <2>1
<1>10. ASSUME NEW p \in Procs, NEW aged \in BOOLEAN, NEW big \in BOOLEAN, CrashWriting(p, aged, big) PROVE Inside'
  <2>1. txn' = [txn EXCEPT ![p] = NoTxn] /\ pc[p] = "held" /\ pc' = [pc EXCEPT ![p] = "dead"]
    BY <1>10 DEF CrashWriting, Plan, InPhase, Crash, Goto
  <2>2. "dead" \in Stages
    BY DEF Stages
  <2> QED BY <1>0, <1>h, <1>n, <2>1, <2>2, InsideKeeps
<1>11. ASSUME NEW p \in Procs, Die(p) PROVE Inside'
  <2>1. txn' = [txn EXCEPT ![p] = NoTxn] /\ tail' = tail /\ pc' = [pc EXCEPT ![p] = "dead"]
    BY <1>11 DEF Die, Crash, Goto, fileVars
  <2>2. "dead" \in Stages
    BY DEF Stages
  <2> QED BY <1>0, <1>c, <1>n, <2>1, <2>2, InsideKeeps
<1>12. ASSUME NEW p \in Procs, LeaseLapses(p) \/ LeaseStarts(p) PROVE Inside'
  <2>1. UNCHANGED <<pc, txn, tail>>
    BY <1>12 DEF LeaseLapses, LeaseStarts, lockVars, fileVars
  <2> QED BY <2>1 DEF Inside, Open
<1> QED BY <1>1, <1>2, <1>3, <1>4, <1>5, <1>7, <1>8, <1>9, <1>10, <1>11, <1>12 DEF StoreNext

\* What a reader finds after a write.
LEMMA WriteReads ==
  ASSUME LedgerInv, NEW p \in Procs, Unwritten(p), NEW aged \in BOOLEAN
  PROVE  /\ Load(Snapshot(Outcome(p, aged))).state = Outcome(p, aged)
         /\ Pruned(p, aged) = Contents => Load(Append(journal, txn[p].event)).state = Outcome(p, aged)
<1> DEFINE e == txn[p].event
<1>1. /\ Load(journal) = Ok(Contents) /\ Good(Contents) /\ Good(Outcome(p, aged))
      /\ Unused(Pruned(p, aged), e.id)
  BY OutcomeIsGood
<1>2. e \in Events /\ e \in Records /\ e \notin Snapshots /\ journal \in Seq(Records)
  <2>1. e \in Events
    BY Phases DEF LedgerInv, Unwritten, TxnRecs
  <2> QED BY <2>1, RecordKinds DEF LedgerInv, Sound, Records
<1>3. Load(Snapshot(Outcome(p, aged))) = Ok(Outcome(p, aged))
  BY <1>1, LoadSnapshot
<1>4. ASSUME Pruned(p, aged) = Contents PROVE Load(Append(journal, e)).state = Outcome(p, aged)
  <2> DEFINE s == Contents
  <2>1. Outcome(p, aged) = After(s, e)
    BY <1>2, <1>4 DEF Outcome, After
  <2>2. Good(s) /\ Unused(s, e.id) /\ Load(journal) = Ok(s)
    BY <1>1, <1>4
  <2> HIDE DEF s, e
  <2>3. Read(Ok(s), e) = Ok(After(s, e))
    BY <1>2, <2>2, ReadKeeps
  <2>4. Load(Append(journal, e)) = Read(Load(journal), e)
    BY <1>2, LoadAppend
  <2> QED BY <2>1, <2>2, <2>3, <2>4 DEF Ok
<1> QED BY <1>3, <1>4 DEF Ok

\* A commit forgets only what it may.
LEMMA OwedSurvives ==
  ASSUME LedgerInv, FactsInv, NEW p \in Procs, Unwritten(p), NEW aged \in BOOLEAN,
         NEW f \in owed, f \notin Forgivable(p, aged)
  PROVE  Link(Outcome(p, aged), f)
<1> DEFINE e == txn[p].event
           s == Pruned(p, aged)
<1>1. f \in Events /\ f.kind \in FactKinds /\ Link(Contents, f)
  BY DEF FactsInv
<1>2. ~EndedBy(f, e) /\ (txn[p].live # NoView => PartyOf(f) \subseteq txn[p].live /\ ~(f.kind = "answer" /\ aged))
  BY DEF Forgivable
<1>3. Good(Contents) /\ Good(s) /\ Unused(s, e.id) /\ e \in Events
  BY OutcomeIsGood, Phases DEF LedgerInv, Unwritten, TxnRecs
<1>4. Link(s, f) /\ (f.kind = "answer" => s.answers = Contents.answers)
  BY <1>1, <1>2, <1>3, LinkIsSpared DEF Pruned
<1>5. Outcome(p, aged) = IF Accepts(s, e) THEN Apply(s, e) ELSE s
  BY DEF Outcome
<1> HIDE DEF s, e
<1> QED BY <1>1, <1>2, <1>3, <1>4, <1>5, LinkIsKept

LEMMA QuietKeeps ==
  ASSUME FactsInv, Inside', Contents' = Contents, owed' \subseteq owed,
         \A q \in Procs : Open(q)' /\ txn'[q].phase = "done" /\ txn'[q].ok => txn'[q] = txn[q]
  PROVE  FactsInv'
<1>1. \A f \in owed' : f \in Events /\ f.kind \in FactKinds /\ Link(Contents', f)
  BY DEF FactsInv
<1>2. \A q \in Procs :
        Open(q)' /\ txn'[q].phase = "done" /\ txn'[q].ok /\ txn'[q].event.kind \in FactKinds
          => Link(Contents', txn'[q].event)
  BY DEF FactsInv, Open
<1> QED BY <1>1, <1>2 DEF FactsInv

LEMMA WriteLinks ==
  ASSUME LedgerInv, FactsInv, OneTransactionAtATime, Inside', NEW p \in Procs, InPhase(p, "recovered"),
         NEW aged \in BOOLEAN, owed' = owed \ Forgivable(p, aged),
         Contents' = Contents \/ Contents' = Outcome(p, aged),
         \A q \in Procs : q # p => txn'[q] = txn[q],
         \/ txn'[p] = NoTxn
         \/ /\ txn'[p].event = txn[p].event
            /\ txn'[p].ok => Accepts(Pruned(p, aged), txn[p].event) /\ Contents' = Outcome(p, aged)
  PROVE  FactsInv'
<1>1. Unwritten(p) /\ pc[p] = "held"
  BY Phases DEF LedgerInv, InPhase
<1>2. \A f \in owed' : f \in Events /\ f.kind \in FactKinds /\ Link(Contents', f)
  BY <1>1, OwedSurvives DEF FactsInv
<1>3. ASSUME NEW q \in Procs, Open(q)', txn'[q].phase = "done", txn'[q].ok, txn'[q].event.kind \in FactKinds
      PROVE  Link(Contents', txn'[q].event)
  <2>1. CASE q = p
    <3> DEFINE e == txn[p].event
               s == Pruned(p, aged)
    <3>1. txn'[q].event = e /\ Accepts(s, e) /\ Contents' = Outcome(p, aged)
      BY <1>3, <2>1 DEF Open
    <3>2. Good(s) /\ Unused(s, e.id) /\ e \in Events
      BY <1>1, OutcomeIsGood, Phases DEF LedgerInv, Unwritten, TxnRecs
    <3>3. Outcome(p, aged) = Apply(s, e)
      BY <3>1 DEF Outcome
    <3> HIDE DEF s, e
    <3>4. Link(Apply(s, e), e)
      BY <1>3, <3>1, <3>2, FactIsLinked
    <3> QED BY <3>1, <3>3, <3>4
  <2>2. CASE q # p
    <3>1. Open(q) /\ txn[q].phase = "done"
      BY <1>3, <2>2 DEF Open
    <3>2. pc[q] = "held"
      BY <3>1 DEF FactsInv, Inside
    <3> QED BY <1>1, <2>2, <3>2 DEF OneTransactionAtATime
  <2> QED BY <2>1, <2>2
<1> QED BY <1>2, <1>3 DEF FactsInv

\* What was read from a journal of new events names the events it came from.
Traced(j, s) ==
  /\ \A c \in s.claims : /\ c.id \in 1..Len(j)
                         /\ c.key = j[c.id].key /\ c.from = j[c.id].from
  /\ \A a \in s.asks : a.id \in 1..Len(j) /\ a = AskOf(j[a.id])
  /\ \A t \in s.tasks : t.takeId # 0 =>
       /\ t.takeId \in 1..Len(j) /\ j[t.takeId].kind = "task_take"
       /\ t.key = j[t.takeId].key /\ t.id = j[t.takeId].task /\ t.taker = j[t.takeId].from

LEMMA EventIsTraced ==
  ASSUME NEW j, NEW s \in Ledgers, Traced(j, s), NEW n \in 1..Len(j), j[n] \in Events, j[n].id = n,
         Accepts(s, j[n]), Len(j) \in Nat
  PROVE  Traced(j, Apply(s, j[n]))
<1> DEFINE e == j[n]
           m == Apply(s, e)
<1> USE DEF Traced
<1>1. CASE e.kind = "claim"
  <2>1. m = Claimed(s, e)
    BY <1>1 DEF Apply
  <2>2. m.claims = s.claims \cup {ClaimOf(e, e.paths)} /\ m.asks = s.asks /\ m.tasks = s.tasks
    BY <2>1 DEF Claimed, Ledgers
  <2>3. ClaimOf(e, e.paths).id = n /\ ClaimOf(e, e.paths).key = j[n].key /\ ClaimOf(e, e.paths).from = j[n].from
    BY DEF ClaimOf
  <2> HIDE DEF m, e
  <2>4. Traced(j, m)
    BY <2>2, <2>3
  <2> QED BY <2>4 DEF m, e
<1>2. CASE e.kind = "ask"
  <2>1. m = Asked(s, e)
    BY <1>2 DEF Apply
  <2>2. m.claims = s.claims /\ m.asks = s.asks \cup {AskOf(e)} /\ m.tasks = s.tasks
    BY <2>1 DEF Asked, Ledgers
  <2>3. AskOf(e).id = n /\ AskOf(e) = AskOf(j[n])
    BY DEF AskOf
  <2> HIDE DEF m, e
  <2>4. Traced(j, m)
    BY <2>2, <2>3
  <2> QED BY <2>4 DEF m, e
<1>3. CASE e.kind = "answer"
  <2>1. m = Answered(s, e)
    BY <1>3 DEF Apply
  <2>2. m.claims = s.claims /\ m.asks \subseteq s.asks /\ m.tasks = s.tasks
    BY <2>1 DEF Answered, Ledgers
  <2> HIDE DEF m, e
  <2>3. Traced(j, m)
    BY <2>2
  <2> QED BY <2>3 DEF m, e
<1>4. CASE e.kind = "release"
  <2>1. m = Released(s, e)
    BY <1>4 DEF Apply
  <2>2. m.claims \subseteq s.claims /\ m.asks \subseteq s.asks /\ m.tasks = {GivenUp(t, e) : t \in s.tasks}
    BY <2>1 DEF Released, Ledgers
  <2>3. \A t \in s.tasks : /\ GivenUp(t, e).takeId = t.takeId /\ GivenUp(t, e).key = t.key
                           /\ GivenUp(t, e).id = t.id /\ GivenUp(t, e).taker = t.taker
    BY DEF GivenUp, Ledgers, TaskRecs
  <2> HIDE DEF m, e
  <2>4. Traced(j, m)
    BY <2>2, <2>3
  <2> QED BY <2>4 DEF m, e
<1>5. CASE e.kind = "task_create"
  <2>1. m = Created(s, e)
    BY <1>5 DEF Apply
  <2>2. m.claims = s.claims /\ m.asks = s.asks /\ m.tasks = s.tasks \cup {NewTask(e)}
    BY <2>1 DEF Created, Ledgers
  <2>3. NewTask(e).takeId = 0
    BY DEF NewTask
  <2> HIDE DEF m, e
  <2>4. Traced(j, m)
    BY <2>2, <2>3
  <2> QED BY <2>4 DEF m, e
<1>6. CASE e.kind = "task_take"
  <2> DEFINE new == IF PathsOf(s, e) = {} THEN {} ELSE {ClaimOf(e, PathsOf(s, e))}
  <2>1. m = Took(s, e)
    BY <1>6 DEF Apply
  <2>2. m.claims = s.claims \cup new /\ m.asks = s.asks /\ m.tasks = {TakenBy(t, e) : t \in s.tasks}
    BY <2>1 DEF Took, Ledgers
  <2>3. \A c \in new : c.id = n /\ c.key = j[n].key /\ c.from = j[n].from
    BY DEF ClaimOf
  <2>4. \A t \in s.tasks : IsTask(t, e) =>
          /\ TakenBy(t, e).takeId = n /\ TakenBy(t, e).key = j[n].key
          /\ TakenBy(t, e).id = j[n].task /\ TakenBy(t, e).taker = j[n].from
    BY DEF TakenBy, Ledgers, TaskRecs, IsTask
  <2>5. \A t \in s.tasks : ~IsTask(t, e) => TakenBy(t, e) = t
    BY DEF TakenBy
  <2>6. j[n].kind = "task_take"
    BY <1>6
  <2> HIDE DEF m, e, new
  <2>7. Traced(j, m)
    <3>1. \A c \in m.claims : c.id \in 1..Len(j) /\ c.key = j[c.id].key /\ c.from = j[c.id].from
      BY <2>2, <2>3
    <3>2. ASSUME NEW u \in m.tasks, u.takeId # 0
          PROVE  /\ u.takeId \in 1..Len(j) /\ j[u.takeId].kind = "task_take"
                 /\ u.key = j[u.takeId].key /\ u.id = j[u.takeId].task /\ u.taker = j[u.takeId].from
      <4>1. PICK t \in s.tasks : u = TakenBy(t, e)
        BY <2>2
      <4> QED BY <2>4, <2>5, <2>6, <3>2, <4>1
    <3> QED BY <2>2, <3>1, <3>2
  <2> QED BY <2>7 DEF m, e
<1>7. CASE e.kind = "task_finish"
  <2>1. m = Finished(s, e)
    BY <1>7 DEF Apply
  <2>2. m.claims \subseteq s.claims /\ m.asks = s.asks /\ m.tasks = {FinishedBy(t, e) : t \in s.tasks}
    BY <2>1 DEF Finished, Ledgers
  <2>3. \A t \in s.tasks : /\ FinishedBy(t, e).takeId = t.takeId /\ FinishedBy(t, e).key = t.key
                           /\ FinishedBy(t, e).id = t.id /\ FinishedBy(t, e).taker = t.taker
    BY DEF FinishedBy, Ledgers, TaskRecs
  <2> HIDE DEF m, e
  <2>4. Traced(j, m)
    BY <2>2, <2>3
  <2> QED BY <2>4 DEF m, e
<1>8. e \in Events
  OBVIOUS
<1> HIDE DEF e, m
<1> QED BY <1>1, <1>2, <1>3, <1>4, <1>5, <1>6, <1>7, <1>8, EventFields DEF e, m

LEMMA HistoryIsTraced ==
  ASSUME StoreInit PROVE Traced(journal, Contents)
<1> DEFINE j == journal
           L == Len(j)
           Done == {n \in 0..L : Traced(j, Loading(j)[n].state)}
<1>1. /\ j \in Seq(Events) /\ L \in Nat /\ \A n \in 1..L : j[n] \in Events /\ j[n].id = n
  BY StoreAssumption DEF StoreInit
<1>2. Sound(j)
  BY LedgerInitially DEF LedgerInv
<1>3. Loading(j)[0] = Fresh /\ \A n \in 1..L : Loading(j)[n] = Read(Loading(j)[n - 1], j[n])
  BY <1>1, LoadingSteps
<1>4. 0 \in Done
  <2>1. Loading(j)[0].state = EmptyLedger
    BY <1>3 DEF Fresh
  <2>2. Traced(j, EmptyLedger)
    BY DEF Traced, EmptyLedger
  <2> QED BY <1>1, <2>1, <2>2
<1>5. ASSUME NEW n \in 0..(L - 1), n \in Done PROVE n + 1 \in Done
  <2> DEFINE s == Loading(j)[n].state
             e == j[n + 1]
  <2>1. n + 1 \in 1..L /\ n + 1 \in 0..L /\ (n + 1) - 1 = n /\ n \in 0..L
    BY <1>1
  <2>2. Loading(j)[n] = Ok(s) /\ s \in Ledgers /\ Traced(j, s)
    BY <1>2, <1>5, <2>1, LoadingIsGood DEF LoadsGood, Good
  <2>3. e \in Events /\ e.id = n + 1 /\ e.kind # "ledger_snapshot_v1"
    BY <1>1, <2>1, EventFields
  <2>4. Loading(j)[n + 1] = Read(Ok(s), e)
    BY <1>3, <2>1, <2>2
  <2> HIDE DEF s
  <2>5. CASE Accepts(s, e)
    <3>1. Traced(j, Apply(s, e))
      BY <1>1, <2>1, <2>2, <2>3, <2>5, EventIsTraced
    <3> HIDE DEF e
    <3>2. Read(Ok(s), e) = [Ok(s) EXCEPT !.state = Apply(s, e)]
      BY <2>3, <2>5 DEF Read, Ok
    <3>3. [Ok(s) EXCEPT !.state = Apply(s, e)].state = Apply(s, e)
      BY DEF Ok
    <3> QED BY <2>1, <2>4, <3>1, <3>2, <3>3
  <2>6. CASE ~Accepts(s, e)
    <3> HIDE DEF e
    <3>1. Read(Ok(s), e) = Ok(s)
      BY <2>3, <2>6 DEF Read, Ok
    <3> QED BY <2>1, <2>2, <2>4, <3>1 DEF Ok
  <2> QED BY <2>5, <2>6
<1> HIDE DEF Done
<1>6. \A n \in 0..L : n \in Done
  BY <1>1, <1>4, <1>5, UpTo
<1>7. L \in Done
  BY <1>1, <1>6
<1> QED BY <1>7 DEF Done, Contents, Load

LEMMA FactsInitially == ASSUME StoreInit PROVE FactsInv
<1>1. \A p \in Procs : ~Open(p)
  BY DEF StoreInit, Open
<1>2. Inside
  BY <1>1 DEF StoreInit, LockInit, Inside, Stages
<1>3. ASSUME NEW f \in owed PROVE f \in Events /\ f.kind \in FactKinds /\ Link(Contents, f)
  <2>1. /\ journal \in Seq(Events) /\ Len(journal) \in Nat
        /\ \A n \in 1..Len(journal) : journal[n] \in Events /\ journal[n].id = n
    BY StoreAssumption DEF StoreInit
  <2>2. f \in ToSet(journal) /\ f.kind \in FactKinds /\ Present(Contents, f)
    BY DEF StoreInit
  <2>3. PICK n \in 1..Len(journal) : f = journal[n]
    BY <2>1, <2>2 DEF ToSet
  <2>4. f \in Events /\ f.id = n /\ f.id # 0
    BY <2>1, <2>3
  <2>5. /\ \A c \in Contents.claims : c.id = f.id => c.key = f.key /\ c.from = f.from
        /\ \A a \in Contents.asks : a.id = f.id => a = AskOf(f)
        /\ \A t \in Contents.tasks : t.takeId = f.id =>
             f.kind = "task_take" /\ t.key = f.key /\ t.id = f.task /\ t.taker = f.from
    BY <2>3, <2>4, HistoryIsTraced DEF Traced
  <2>6. Link(Contents, f)
    BY <2>2, <2>5 DEF Link, Present, FactKinds
  <2> QED BY <2>2, <2>4, <2>6
<1> QED BY <1>1, <1>2, <1>3 DEF FactsInv

LEMMA FactsStep ==
  ASSUME LedgerInv, FactsInv, OneTransactionAtATime, [StoreNext]_vars PROVE FactsInv'
<1>1. CASE UNCHANGED vars
  BY <1>1 DEF vars, lockVars, storeVars, FactsInv, Inside, Open, Contents, Link
<1> SUFFICES ASSUME StoreNext PROVE FactsInv'
  BY <1>1
<1>2. Inside' /\ Typed
  BY InsideStep DEF FactsInv, LedgerInv
<1>j. journal' = journal => Contents' = Contents
  BY DEF Contents
<1>3. ASSUME NEW p \in Procs, BeginSome(p) PROVE FactsInv'
  <2>1. PICK e \in Drafts(p) : \E live \in {leased, NoView} : Begin(p, e, live)
    BY <1>3 DEF BeginSome
  <2>2. PICK live \in {leased, NoView} : Begin(p, e, live)
    BY <2>1
  <2> DEFINE r == [event |-> e, live |-> live, phase |-> "begun", ok |-> FALSE]
  <2>3. txn' = [txn EXCEPT ![p] = r] /\ journal' = journal /\ owed' = owed
    BY <2>2 DEF Begin, fileVars
  <2>4. r.phase = "begun"
    OBVIOUS
  <2> HIDE DEF r
  <2>5. txn'[p] = r /\ \A q \in Procs : q # p => txn'[q] = txn[q]
    BY <1>2, <2>3 DEF Typed
  <2> QED BY <1>2, <1>j, <2>3, <2>4, <2>5, QuietKeeps
<1>4. ASSUME NEW p \in Procs, Locking(p) \/ LeaseLapses(p) \/ LeaseStarts(p) PROVE FactsInv'
  <2>1. txn' = txn /\ journal' = journal /\ owed' = owed
    BY <1>4 DEF Locking, LeaseLapses, LeaseStarts, storeVars, fileVars
  <2> QED BY <1>2, <1>j, <2>1, QuietKeeps
<1>5. ASSUME NEW p \in Procs, Refuse(p) \/ Die(p) PROVE FactsInv'
  <2>1. txn' = [txn EXCEPT ![p] = NoTxn] /\ journal' = journal /\ owed' = owed
    BY <1>5 DEF Refuse, Die, fileVars
  <2>2. txn'[p] = NoTxn /\ \A q \in Procs : q # p => txn'[q] = txn[q]
    BY <1>2, <2>1 DEF Typed
  <2> QED BY <1>2, <1>j, <2>1, <2>2, QuietKeeps DEF Open
<1>6. ASSUME NEW p \in Procs, Recover(p) PROVE FactsInv'
  <2>1. Step(p, "recovered", FALSE) /\ Open(p) /\ journal' = journal /\ owed' = owed
    BY <1>2, <1>6, Phases DEF Recover
  <2>2. txn'[p].phase = "recovered" /\ \A q \in Procs : q # p => txn'[q] = txn[q]
    BY <1>2, <2>1, StepMoves
  <2> QED BY <1>2, <1>j, <2>1, <2>2, QuietKeeps
<1>7. ASSUME NEW p \in Procs, Acknowledge(p) PROVE FactsInv'
  <2>1. /\ InPhase(p, "done") /\ Open(p) /\ journal' = journal /\ txn' = [txn EXCEPT ![p] = NoTxn]
        /\ owed' = IF txn[p].ok /\ txn[p].event.kind \in FactKinds THEN owed \cup {txn[p].event} ELSE owed
    BY <1>2, <1>7, Phases DEF Acknowledge, fileVars
  <2>2. txn'[p] = NoTxn /\ \A q \in Procs : q # p => txn'[q] = txn[q]
    BY <1>2, <2>1 DEF Typed
  <2>3. Contents' = Contents
    BY <1>j, <2>1
  <2>4. txn[p].event \in Events /\ txn[p].phase = "done"
    BY <1>2, <2>1, Phases DEF TxnRecs, InPhase
  <2>5. \A f \in owed' : f \in Events /\ f.kind \in FactKinds /\ Link(Contents', f)
    BY <2>1, <2>3, <2>4 DEF FactsInv
  <2>6. \A q \in Procs :
          Open(q)' /\ txn'[q].phase = "done" /\ txn'[q].ok /\ txn'[q].event.kind \in FactKinds
            => Link(Contents', txn'[q].event)
    BY <2>2, <2>3 DEF FactsInv, Open
  <2> QED BY <1>2, <2>5, <2>6 DEF FactsInv
<1>8. ASSUME NEW p \in Procs, NEW aged \in BOOLEAN, CommitGated(p, aged) PROVE FactsInv'
  <2>1. InPhase(p, "recovered") /\ Step(p, "done", FALSE) /\ journal' = journal /\ owed' = owed
    BY <1>8 DEF CommitGated, fileVars
  <2>2. txn'[p].ok = FALSE /\ \A q \in Procs : q # p => txn'[q] = txn[q]
    BY <1>2, <2>1, Phases, StepMoves
  <2> QED BY <1>2, <1>j, <2>1, <2>2, QuietKeeps
<1>w. ASSUME NEW p \in Procs, InPhase(p, "recovered"), NEW aged \in BOOLEAN
      PROVE  /\ tail = "clean"
             /\ journal' = Snapshot(Outcome(p, aged)) => Contents' = Outcome(p, aged)
             /\ Pruned(p, aged) = Contents /\ journal' = Append(journal, txn[p].event)
                  => Contents' = Outcome(p, aged)
  <2>1. Unwritten(p) /\ txn[p].phase = "recovered"
    BY <1>2, <1>w, Phases DEF InPhase
  <2> QED BY <2>1, WriteReads DEF Contents, FactsInv, Inside, Unwritten
<1>9. ASSUME NEW p \in Procs, NEW aged \in BOOLEAN, NEW big \in BOOLEAN, Commit(p, aged, big) PROVE FactsInv'
  <2> DEFINE ok == Accepts(Pruned(p, aged), txn[p].event)
  <2>1. /\ InPhase(p, "recovered") /\ Step(p, "done", ok) /\ owed' = owed \ Forgivable(p, aged)
        /\ IF MustCompact(p, aged, big) THEN Replaced(Outcome(p, aged))
           ELSE IF ok THEN Appended(txn[p].event) ELSE Untouched
    BY <1>9 DEF Commit, Plan
  <2>2. ok \in BOOLEAN
    BY DEF Accepts, MayClaim, MayAsk, MayAnswer, MayRelease, MayCreate, MayTake, MayFinish
  <2>3. \/ Contents' = Outcome(p, aged)
        \/ ~ok /\ Contents' = Contents
    <3>1. CASE MustCompact(p, aged, big)
      BY <1>w, <2>1, <3>1 DEF Replaced
    <3>2. CASE ~MustCompact(p, aged, big) /\ ok
      <4>1. Pruned(p, aged) = Contents
        BY <3>2 DEF MustCompact
      <4>2. journal' = Append(journal, txn[p].event)
        BY <1>w, <2>1, <3>2 DEF Appended
      <4> QED BY <1>w, <2>1, <4>1, <4>2
    <3>3. CASE ~MustCompact(p, aged, big) /\ ~ok
      BY <1>j, <2>1, <3>3 DEF Untouched, fileVars
    <3> QED BY <3>1, <3>2, <3>3
  <2> HIDE DEF ok
  <2>4. txn'[p].event = txn[p].event /\ txn'[p].ok = ok /\ \A q \in Procs : q # p => txn'[q] = txn[q]
    BY <1>2, <2>1, <2>2, Phases, StepMoves
  <2>5. txn'[p].ok => Accepts(Pruned(p, aged), txn[p].event) /\ Contents' = Outcome(p, aged)
    BY <2>3, <2>4 DEF ok
  <2> QED BY <1>2, <2>1, <2>3, <2>4, <2>5, WriteLinks
<1>10. ASSUME NEW p \in Procs, NEW aged \in BOOLEAN, NEW big \in BOOLEAN, CommitFails(p, aged, big) PROVE FactsInv'
  <2>1. /\ InPhase(p, "recovered") /\ Step(p, "done", FALSE) /\ owed' = owed \ Forgivable(p, aged)
        /\ IF MustCompact(p, aged, big) THEN Untouched
           ELSE Accepts(Pruned(p, aged), txn[p].event) /\ (Untouched \/ HalfWritten(txn[p].event))
    BY <1>10 DEF CommitFails, Plan
  <2>2. Contents' = Contents \/ Contents' = Outcome(p, aged)
    BY <1>w, <1>j, <2>1 DEF MustCompact, Untouched, HalfWritten, fileVars
  <2>3. txn'[p].event = txn[p].event /\ txn'[p].ok = FALSE /\ \A q \in Procs : q # p => txn'[q] = txn[q]
    BY <1>2, <2>1, Phases, StepMoves
  <2> QED BY <1>2, <2>1, <2>2, <2>3, WriteLinks
<1>11. ASSUME NEW p \in Procs, NEW aged \in BOOLEAN, NEW big \in BOOLEAN, CrashWriting(p, aged, big) PROVE FactsInv'
  <2>1. /\ InPhase(p, "recovered") /\ txn' = [txn EXCEPT ![p] = NoTxn] /\ owed' = owed \ Forgivable(p, aged)
        /\ IF MustCompact(p, aged, big) THEN Replaced(Outcome(p, aged))
           ELSE Accepts(Pruned(p, aged), txn[p].event) /\ HalfWritten(txn[p].event)
    BY <1>11 DEF CrashWriting, Plan
  <2>2. Contents' = Contents \/ Contents' = Outcome(p, aged)
    BY <1>w, <1>j, <2>1 DEF MustCompact, Replaced, HalfWritten
  <2>3. txn'[p] = NoTxn /\ \A q \in Procs : q # p => txn'[q] = txn[q]
    BY <1>2, <2>1 DEF Typed
  <2> QED BY <1>2, <2>1, <2>2, <2>3, WriteLinks
<1> QED BY <1>3, <1>4, <1>5, <1>6, <1>7, <1>8, <1>9, <1>10, <1>11 DEF StoreNext

LEMMA FactsShow == ASSUME FactsInv PROVE AckedFactsDurable
BY DEF FactsInv, AckedFactsDurable, Link, Present, AskOf

---------------------------------------------------------------------------
(* The ledger among the shared files: it starts with a history, or rests   *)
(* while another part runs.                                                *)
LEMMA LedgerStarts ==
  ASSUME FilesInit PROVE LedgerInv /\ FactsInv /\ LockInit
<1>1. CASE StoreInit
  BY <1>1, LedgerInitially, FactsInitially DEF StoreInit
<1>2. CASE NoLedger
  <2>1. journal = <<>> /\ Len(journal) = 0 /\ journal \in Seq(Records)
    BY <1>2 DEF NoLedger
  <2>2. Sound(journal) /\ \A x : UnusedBy(journal, x)
    BY <2>1 DEF Sound, UnusedBy
  <2>3. \A p \in Procs : ~Open(p)
    BY <1>2 DEF NoLedger, Open
  <2>4. LedgerInv
    BY <1>2, <2>2, <2>3, StoreAssumption DEF NoLedger, LedgerInv, Typed, Numbered, Unwritten
  <2>5. FactsInv
    BY <1>2, <2>3 DEF NoLedger, LockInit, FactsInv, Inside, Stages
  <2> QED BY <1>2, <2>4, <2>5 DEF NoLedger
<1> QED BY <1>1, <1>2 DEF FilesInit

LEMMA LedgerMoves ==
  ASSUME [FilesNext]_filesVars PROVE [StoreNext]_vars /\ [LockNext]_lockVars
<1>1. [StoreNext]_vars
  BY DEF FilesNext, filesVars, ledgerVars, vars
<1> QED BY <1>1, StoreStepsTheLock DEF vars, lockVars

\* The commits of the ledger use the lock as its protocol says: what holds of
\* the lock alone holds under them.
THEOREM CommitsUseTheLock == FilesSpec => LockSpec
<1>1. FilesInit => LockInit
  BY LedgerStarts
<1>2. [FilesNext]_filesVars => [LockNext]_lockVars
  BY LedgerMoves
<1> QED BY <1>1, <1>2, PTL DEF FilesSpec, LockSpec

\* Whatever crashes, failed writes, stolen locks and compactions do to the
\* ledger file, it holds events with distinct msg_ids, or a state that the
\* snapshot parser rebuilds.
THEOREM LedgerStaysSound == FilesSpec => []LedgerInv
<1>1. FilesInit => LedgerInv
  BY LedgerStarts
<1>2. LedgerInv /\ [FilesNext]_filesVars => LedgerInv'
  BY LedgerStep, LedgerMoves
<1> QED BY <1>1, <1>2, PTL DEF FilesSpec

\* The ledger file always loads, and the snapshot a compaction would write
\* reads back as exactly the same state (parseSnapshot, ledger.ts:197-261).
THEOREM LedgerAlwaysReadable == FilesSpec => []LedgerReadable
<1>1. LedgerInv => LedgerReadable
  <2> SUFFICES ASSUME LedgerInv PROVE LedgerReadable
    OBVIOUS
  <2>1. Load(journal) = Ok(Contents) /\ Good(Contents)
    BY LoadIsGood DEF LedgerInv, Contents
  <2>2. Load(Snapshot(Contents)) = Ok(Contents)
    BY <2>1, LoadSnapshot
  <2>3. Load(journal).ok = TRUE
    BY <2>1 DEF Ok
  <2> QED BY <2>2, <2>3 DEF LedgerReadable, Ok
<1> QED BY <1>1, LedgerStaysSound, PTL

\* A write task is taken exactly while its taker holds its claim: pickup,
\* finish, release and lease loss move both.
THEOREM TakersHoldTheirClaims == FilesSpec => []TakenIffClaimed
<1>1. LedgerInv => TakenIffClaimed
  <2> SUFFICES ASSUME LedgerInv PROVE TakenIffClaimed
    OBVIOUS
  <2>1. TakersClaim(Contents) /\ ClaimsOfTakers(Contents)
    BY LoadIsGood DEF LedgerInv, Contents, Good, TasksFit
  <2> QED BY <2>1 DEF TakenIffClaimed, TakersClaim, ClaimsOfTakers
<1> QED BY <1>1, LedgerStaysSound, PTL

\* While the lock keeps commits apart, no crash, torn append, failed write,
\* recovery, prune or compaction loses a claim, question, answer or pickup
\* that a session was told is in the ledger.
THEOREM AckedFactsAreDurable ==
  FilesSpec /\ []OneTransactionAtATime => []AckedFactsDurable
<1>1. FilesInit => FactsInv
  BY LedgerStarts
<1>2. LedgerInv /\ OneTransactionAtATime /\ FactsInv /\ [FilesNext]_filesVars => FactsInv'
  BY FactsStep, LedgerMoves
<1>3. FactsInv => AckedFactsDurable
  BY FactsShow
<1> QED BY <1>1, <1>2, <1>3, LedgerStaysSound, PTL DEF FilesSpec

\* Any number of sessions: as long as none has died, the lock does keep their
\* commits apart, and nothing acknowledged is lost.
THEOREM FactsLastInTheCalm == FilesSpec => [](Calm => AckedFactsDurable)
<1>1. FilesInit => (Calm => FactsInv)
  BY LedgerStarts
<1>2. LockInv /\ [LockNext]_lockVars /\ Calm' => Calm
  BY DEF LockInv, LockTypeOK, LockNext, lockVars, Calm, Dead, Contend, Create, WritePayload, PayloadFails,
         Judge, Steal, GiveUp, Release, Crash, Goto, Stages
<1>3. LockInv => (Calm => OneTransactionAtATime)
  BY DEF LockInv, OwnerInside, OneTransactionAtATime
<1>4. LedgerInv /\ LockInv /\ (Calm => FactsInv) /\ [FilesNext]_filesVars => (Calm => FactsInv)'
  BY <1>2, <1>3, LedgerMoves, FactsStep
<1>5. FactsInv => AckedFactsDurable
  BY FactsShow
<1> QED BY <1>1, <1>4, <1>5, LedgerStaysSound, LockInvariant, CommitsUseTheLock, PTL DEF FilesSpec

====
