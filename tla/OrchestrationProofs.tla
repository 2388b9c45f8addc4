---- MODULE OrchestrationProofs ----
(***************************************************************************)
(* What a supervisor sets to work and hears of it, for any flows.          *)
(***************************************************************************)
EXTENDS DelegationProofs, PersonaProofs, SequenceTheorems, FiniteSetTheorems, WellFoundedInduction, TLAPS

---------------------------------------------------------------------------
\* A set of numbers below a bound has a greatest one.
LEMMA GreatestOf ==
  ASSUME NEW n \in Nat, NEW E \in SUBSET (1..n), E # {}
  PROVE  F!Max(E) \in E /\ \A y \in E : y <= F!Max(E)
<1> DEFINE Up == {n - y : y \in E}
           Less == OpToRel(<, Nat)
<1>1. Up \subseteq Nat /\ Up # {}
  <2>1. \A y \in E : y \in 1..n /\ n - y \in Nat
    OBVIOUS
  <2> QED BY <2>1
<1>2. IsWellFoundedOn(Less, Nat)
  BY NatLessThanWellFounded
<1>3. \A x, y \in Nat : y < x => <<y, x>> \in Less
  BY DEF OpToRel
<1> HIDE DEF Less
<1>4. PICK m \in Up : \A y \in Up : <<y, m>> \notin Less
  BY <1>1, <1>2, WFMin
<1>5. PICK x \in E : m = n - x
  BY <1>4
<1>6. \A y \in E : x >= y
  <2> SUFFICES ASSUME NEW y \in E, x < y PROVE FALSE
    OBVIOUS
  <2>1. n - y \in Up /\ n - y \in Nat /\ m \in Nat /\ n - y < m
    BY <1>5
  <2> QED BY <1>3, <1>4, <2>1
<1>7. F!Max(E) \in E /\ \A y \in E : F!Max(E) >= y
  BY <1>6 DEF F!Max
<1> QED BY <1>7

---------------------------------------------------------------------------
(* The journal of a flow *)

LinesOf(Q) == [phase : Q \cup {"torn"}, ok : BOOLEAN, out : Int, ref : BOOLEAN, approved : BOOLEAN]

\* A phase whose line a resume can use, and whose approval it finds.
Kept(j, p) == F!Resumed(j, p).ok
Approved(j, p) == F!Resumed(j, p).ok /\ F!Resumed(j, p).approved

Since(j, p) == {i \in 1..Len(j) : j[i].phase = p /\ \A k \in i..Len(j) : j[k].phase = p => j[k].ok}

LEMMA ResumedIs ==
  ASSUME NEW j, NEW p, DOMAIN j = 1..Len(j)
  PROVE  /\ Since(j, p) = {} => F!Resumed(j, p) = [ok |-> FALSE, approved |-> FALSE]
         /\ Since(j, p) # {} =>
              F!Resumed(j, p) = [j[F!Max(Since(j, p))] EXCEPT !.approved = \E i \in Since(j, p) : j[i].approved]
BY DEF F!Resumed, Since

\* What the line of the last success says, whole.
LEMMA ResumedHas ==
  ASSUME NEW Q, NEW j \in Seq(LinesOf(Q)), NEW p
  PROVE  /\ F!Resumed(j, p).ok \in BOOLEAN /\ F!Resumed(j, p).approved \in BOOLEAN
         /\ F!Resumed(j, p).ok <=> Since(j, p) # {}
         /\ Since(j, p) # {} => F!Resumed(j, p) \in LinesOf(Q)
         /\ Since(j, p) # {} => (F!Resumed(j, p).approved <=> \E i \in Since(j, p) : j[i].approved)
<1>0. DOMAIN j = 1..Len(j)
  OBVIOUS
<1>1. CASE Since(j, p) = {}
  <2>1. F!Resumed(j, p) = [ok |-> FALSE, approved |-> FALSE]
    BY <1>0, <1>1, ResumedIs
  <2>2. F!Resumed(j, p).ok = FALSE /\ F!Resumed(j, p).approved = FALSE
    BY <2>1
  <2> QED BY <1>1, <2>2
<1>2. CASE Since(j, p) # {}
  <2>1. Since(j, p) \in SUBSET (1..Len(j)) /\ Len(j) \in Nat
    BY DEF Since
  <2>2. F!Max(Since(j, p)) \in Since(j, p)
    BY <1>2, <2>1, GreatestOf
  <2>3. j[F!Max(Since(j, p))] \in LinesOf(Q) /\ j[F!Max(Since(j, p))].ok
    BY <2>2 DEF Since
  <2> DEFINE top == j[F!Max(Since(j, p))]
             a == \E i \in Since(j, p) : j[i].approved
  <2>4. a \in BOOLEAN
    OBVIOUS
  <2>5. F!Resumed(j, p) = [top EXCEPT !.approved = a]
    BY <1>0, <1>2, ResumedIs
  <2> HIDE DEF top, a
  <2>6. top \in LinesOf(Q) /\ top.ok
    BY <2>3 DEF top
  <2>7. F!Resumed(j, p) \in LinesOf(Q) /\ F!Resumed(j, p).ok = top.ok /\ F!Resumed(j, p).approved = a
    BY <2>4, <2>5, <2>6 DEF LinesOf
  <2> QED BY <1>2, <2>6, <2>7, <2>4 DEF a
<1> QED BY <1>1, <1>2

\* Lines of other phases, after it, change nothing for a phase.
LEMMA OthersLinesKeep ==
  ASSUME NEW Q, NEW j \in Seq(LinesOf(Q)), NEW l \in Seq(LinesOf(Q)), NEW p,
         \A i \in 1..Len(l) : l[i].phase # p
  PROVE  F!Resumed(j \o l, p) = F!Resumed(j, p)
<1> DEFINE w == j \o l
<1>0. DOMAIN w = 1..Len(w) /\ DOMAIN j = 1..Len(j)
  OBVIOUS
<1>1. w \in Seq(LinesOf(Q)) /\ Len(w) = Len(j) + Len(l) /\ Len(j) \in Nat /\ Len(l) \in Nat
  OBVIOUS
<1>2. \A i \in 1..Len(j) : w[i] = j[i]
  OBVIOUS
<1>3. \A i \in 1..Len(w) : i \notin 1..Len(j) => w[i].phase # p
  <2> TAKE i \in 1..Len(w)
  <2> HAVE i \notin 1..Len(j)
  <2>1. i - Len(j) \in 1..Len(l) /\ w[i] = l[i - Len(j)]
    BY <1>1
  <2> QED BY <2>1
<1> HIDE DEF w
<1>4. Since(w, p) = Since(j, p)
  <2>1. ASSUME NEW i \in Since(w, p) PROVE i \in Since(j, p)
    <3>1. i \in 1..Len(j) /\ w[i].phase = p
      BY <1>3, <2>1 DEF Since
    <3>2. \A k \in i..Len(j) : k \in i..Len(w) /\ k \in 1..Len(j)
      BY <1>1, <3>1
    <3> QED BY <1>2, <2>1, <3>1, <3>2 DEF Since
  <2>2. ASSUME NEW i \in Since(j, p) PROVE i \in Since(w, p)
    <3>1. i \in 1..Len(j) /\ i \in 1..Len(w) /\ w[i].phase = p
      BY <1>1, <1>2, <2>2 DEF Since
    <3>2. \A k \in i..Len(w) : w[k].phase = p => k \in i..Len(j) /\ k \in 1..Len(j)
      BY <1>1, <1>3, <3>1
    <3> QED BY <1>2, <2>2, <3>1, <3>2 DEF Since
  <2> QED BY <2>1, <2>2
<1>5. CASE Since(j, p) = {}
  BY <1>0, <1>1, <1>4, <1>5, ResumedIs DEF w
<1>6. CASE Since(j, p) # {}
  <2>1. Since(j, p) \subseteq 1..Len(j)
    BY DEF Since
  <2>2. F!Max(Since(j, p)) \in Since(j, p)
    BY <1>1, <1>6, <2>1, GreatestOf
  <2>3. w[F!Max(Since(j, p))] = j[F!Max(Since(j, p))] /\ \A i \in Since(j, p) : w[i] = j[i]
    BY <1>2, <2>1, <2>2
  <2>4. (\E i \in Since(j, p) : w[i].approved) <=> (\E i \in Since(j, p) : j[i].approved)
    BY <2>3
  <2>5. F!Resumed(w, p) = [w[F!Max(Since(w, p))] EXCEPT !.approved = \E i \in Since(w, p) : w[i].approved]
    BY <1>0, <1>1, <1>4, <1>6, ResumedIs
  <2>6. F!Resumed(j, p) = [j[F!Max(Since(j, p))] EXCEPT !.approved = \E i \in Since(j, p) : j[i].approved]
    BY <1>0, <1>6, ResumedIs
  <2> DEFINE a == \E i \in Since(j, p) : w[i].approved
             b == \E i \in Since(j, p) : j[i].approved
  <2>7. a = b
    BY <2>4
  <2>8. F!Resumed(w, p) = [j[F!Max(Since(j, p))] EXCEPT !.approved = a]
    BY <1>4, <2>3, <2>5
  <2>9. F!Resumed(j, p) = [j[F!Max(Since(j, p))] EXCEPT !.approved = b]
    BY <2>6
  <2> HIDE DEF a, b
  <2> QED BY <2>7, <2>8, <2>9 DEF w
<1> QED BY <1>5, <1>6

\* A phase with a line that says it failed, and no later success, is run again.
LEMMA FailureForgets ==
  ASSUME NEW Q, NEW j \in Seq(LinesOf(Q)), NEW l \in Seq(LinesOf(Q)), NEW p,
         \A i \in 1..Len(l) : ~l[i].ok, \E i \in 1..Len(l) : l[i].phase = p
  PROVE  ~Kept(j \o l, p)
<1> DEFINE w == j \o l
<1>0. DOMAIN w = 1..Len(w) /\ DOMAIN j = 1..Len(j)
  OBVIOUS
<1>1. w \in Seq(LinesOf(Q)) /\ Len(w) = Len(j) + Len(l) /\ Len(j) \in Nat /\ Len(l) \in Nat
  OBVIOUS
<1>2. PICK i \in 1..Len(l) : l[i].phase = p
  OBVIOUS
<1>3. Len(j) + i \in 1..Len(w) /\ w[Len(j) + i] = l[i]
  BY <1>1
<1>4. \A k \in 1..Len(w) : k > Len(j) => ~w[k].ok
  <2> TAKE k \in 1..Len(w)
  <2> HAVE k > Len(j)
  <2>1. k - Len(j) \in 1..Len(l) /\ w[k] = l[k - Len(j)]
    BY <1>1
  <2> QED BY <2>1
<1> HIDE DEF w
<1>5. Since(w, p) = {}
  <2> SUFFICES ASSUME NEW k \in Since(w, p) PROVE FALSE
    OBVIOUS
  <2>1. k \in 1..Len(w) /\ w[k].phase = p /\ \A n \in k..Len(w) : w[n].phase = p => w[n].ok
    BY DEF Since
  <2>2. CASE k > Len(j)
    BY <1>4, <2>1, <2>2, <1>1
  <2>3. CASE ~(k > Len(j))
    <3>1. Len(j) + i \in k..Len(w)
      BY <1>1, <1>3, <2>1, <2>3
    <3> QED BY <1>2, <1>3, <2>1, <3>1
  <2> QED BY <2>2, <2>3
<1> QED BY <1>0, <1>1, <1>5, ResumedIs DEF w, Kept

LEMMA OneMore ==
  ASSUME NEW Q, NEW j \in Seq(Q), NEW e \in Q
  PROVE  /\ <<e>> \in Seq(Q) /\ Append(j, e) = j \o <<e>> /\ Len(<<e>>) = 1 /\ <<e>>[1] = e
         /\ \A i \in 1..Len(<<e>>) : <<e>>[i] = e
<1>1. <<e>> \in Seq(Q) /\ Len(<<e>>) = 1 /\ <<e>>[1] = e
  OBVIOUS
<1>2. Append(j, e) = j \o <<e>>
  BY AppendIsConcat
<1>3. \A i \in 1..Len(<<e>>) : i = 1
  BY <1>1
<1> QED BY <1>1, <1>2, <1>3

\* The same of one line.
LEMMA OthersLineKeeps ==
  ASSUME NEW Q, NEW j \in Seq(LinesOf(Q)), NEW e \in LinesOf(Q), NEW p, e.phase # p
  PROVE  F!Resumed(Append(j, e), p) = F!Resumed(j, p)
<1> DEFINE l == <<e>>
<1>1. l \in Seq(LinesOf(Q)) /\ Append(j, e) = j \o l /\ \A i \in 1..Len(l) : l[i] = e
  BY OneMore
<1> HIDE DEF l
<1>2. F!Resumed(j \o l, p) = F!Resumed(j, p)
  BY <1>1, OthersLinesKeep
<1> QED BY <1>1, <1>2

\* A failure, as one line.
LEMMA FailureLineForgets ==
  ASSUME NEW Q, NEW j \in Seq(LinesOf(Q)), NEW e \in LinesOf(Q), ~e.ok
  PROVE  ~Kept(Append(j, e), e.phase)
<1> DEFINE l == <<e>>
<1>1. l \in Seq(LinesOf(Q)) /\ Append(j, e) = j \o l /\ Len(l) = 1 /\ \A i \in 1..Len(l) : l[i] = e
  BY OneMore
<1> HIDE DEF l
<1>2. 1 \in 1..Len(l)
  BY <1>1
<1>3. ~Kept(j \o l, e.phase)
  BY <1>1, <1>2, FailureForgets
<1> QED BY <1>1, <1>3

\* A success is what a resume finds; an approval of an earlier one still counts.
LEMMA SuccessIsFound ==
  ASSUME NEW Q, NEW j \in Seq(LinesOf(Q)), NEW e \in LinesOf(Q), NEW p, e.phase = p, e.ok
  PROVE  LET r == F!Resumed(Append(j, e), p) IN
         r \in LinesOf(Q) /\ r.ok /\ r.out = e.out /\ r.ref = e.ref /\ (r.approved <=> e.approved \/ Approved(j, p))
<1> DEFINE w == Append(j, e)
           n == Len(j) + 1
<1>0. DOMAIN w = 1..Len(w)
  OBVIOUS
<1>1. w \in Seq(LinesOf(Q)) /\ Len(w) = n /\ Len(j) \in Nat /\ n \in 1..n /\ w[n] = e
  OBVIOUS
<1>2. \A i \in 1..Len(j) : w[i] = j[i] /\ i \in 1..n /\ i # n
  OBVIOUS
<1>3. \A i \in 1..n : i # n => i \in 1..Len(j)
  BY <1>1
<1> HIDE DEF w
<1>4. \A i \in 1..n : \A k \in i..n : k = n \/ k \in i..Len(j)
  BY <1>1
<1>5. Since(w, p) = Since(j, p) \cup {n}
  <2>1. n \in Since(w, p)
    <3>1. \A k \in n..Len(w) : k = n
      BY <1>1
    <3> QED BY <1>1, <3>1 DEF Since
  <2>2. ASSUME NEW i \in Since(w, p), i # n PROVE i \in Since(j, p)
    <3>1. i \in 1..Len(j) /\ w[i].phase = p
      BY <1>1, <1>3, <2>2 DEF Since
    <3>2. \A k \in i..Len(j) : k \in i..Len(w) /\ k \in 1..Len(j)
      BY <1>1, <3>1
    <3> QED BY <1>2, <2>2, <3>1, <3>2 DEF Since
  <2>3. ASSUME NEW i \in Since(j, p) PROVE i \in Since(w, p)
    <3>1. i \in 1..Len(j) /\ i \in 1..Len(w) /\ w[i].phase = p
      BY <1>1, <1>2, <2>3 DEF Since
    <3>2. \A k \in i..Len(w) : k = n \/ (k \in i..Len(j) /\ k \in 1..Len(j))
      BY <1>1, <1>4, <3>1
    <3> QED BY <1>1, <1>2, <2>3, <3>1, <3>2 DEF Since
  <2> QED BY <2>1, <2>2, <2>3
<1>6. F!Max(Since(w, p)) = n
  <2>1. Since(w, p) \in SUBSET (1..n) /\ n \in Nat /\ n \in Since(w, p)
    BY <1>1, <1>5 DEF Since
  <2>2. F!Max(Since(w, p)) \in 1..n /\ n <= F!Max(Since(w, p))
    BY <2>1, GreatestOf
  <2> QED BY <2>1, <2>2
<1>7. (\E i \in Since(w, p) : w[i].approved) <=> e.approved \/ Approved(j, p)
  <2>1. \A i \in Since(j, p) : w[i] = j[i]
    BY <1>2 DEF Since
  <2>2. (\E i \in Since(w, p) : w[i].approved) <=> e.approved \/ \E i \in Since(j, p) : j[i].approved
    BY <1>1, <1>5, <2>1
  <2> QED BY <2>2, ResumedHas DEF Approved
<1> DEFINE a == \E i \in Since(w, p) : w[i].approved
<1>8. F!Resumed(w, p) = [e EXCEPT !.approved = a] /\ a \in BOOLEAN
  <2>1. Since(w, p) # {}
    BY <1>5
  <2>2. F!Resumed(w, p) = [w[F!Max(Since(w, p))] EXCEPT !.approved = a]
    BY <1>0, <2>1, ResumedIs
  <2> QED BY <1>1, <1>6, <2>2
<1>9. a <=> e.approved \/ Approved(j, p)
  BY <1>7
<1> HIDE DEF a
<1>10. F!Resumed(w, p) \in LinesOf(Q) /\ F!Resumed(w, p).ok /\ F!Resumed(w, p).out = e.out
       /\ F!Resumed(w, p).ref = e.ref /\ F!Resumed(w, p).approved = a
  BY <1>8 DEF LinesOf
<1> QED BY <1>9, <1>10 DEF w

\* Only the last line is ever torn.
TornLast(j) == \A i \in 1..Len(j) : j[i].phase = "torn" => i = Len(j) /\ j[i] = F!Torn

LEMMA TornIsALine ==
  ASSUME NEW Q
  PROVE  F!Torn \in LinesOf(Q) /\ F!Torn.phase = "torn"
BY DEF F!Torn, LinesOf

LEMMA NothingKept ==
  ASSUME NEW p
  PROVE  ~Kept(<<>>, p)
<1>1. Since(<<>>, p) = {}
  BY DEF Since
<1>2. F!Resumed(<<>>, p) = [ok |-> FALSE, approved |-> FALSE]
  BY <1>1, ResumedIs
<1> QED BY <1>2 DEF Kept

\* A torn line says nothing of any phase.
LEMMA TornSaysNothing ==
  ASSUME NEW Q, "torn" \notin Q, NEW j \in Seq(LinesOf(Q)), NEW p \in Q
  PROVE  F!Resumed(Append(j, F!Torn), p) = F!Resumed(j, p)
BY TornIsALine, OthersLineKeeps

LEMMA TornAppended ==
  ASSUME NEW Q, NEW j \in Seq(LinesOf(Q)), TornLast(j), F!Reads(j)
  PROVE  Append(j, F!Torn) \in Seq(LinesOf(Q)) /\ TornLast(Append(j, F!Torn))
<1> DEFINE w == Append(j, F!Torn)
<1>1. w \in Seq(LinesOf(Q)) /\ Len(w) = Len(j) + 1 /\ w[Len(j) + 1] = F!Torn /\ Len(j) \in Nat
  BY TornIsALine
<1>2. \A i \in 1..Len(j) : w[i] = j[i] /\ j[i].phase # "torn"
  <2> TAKE i \in 1..Len(j)
  <2>1. w[i] = j[i]
    OBVIOUS
  <2>2. j # <<>> /\ F!Last(j) = j[Len(j)]
    BY DEF F!Last
  <2> QED BY <2>1, <2>2 DEF TornLast, F!Reads
<1> HIDE DEF w
<1>3. \A i \in 1..Len(w) : i = Len(j) + 1 \/ i \in 1..Len(j)
  BY <1>1
<1> QED BY <1>1, <1>2, <1>3 DEF w, TornLast

\* What writing a line makes of a journal.
LEMMA LineWritten ==
  ASSUME NEW Q, "torn" \notin Q, NEW j \in Seq(LinesOf(Q)), TornLast(j), NEW e \in LinesOf(Q), e.phase \in Q
  PROVE  LET w == F!Written(j, e) IN
         /\ w \in Seq(LinesOf(Q)) /\ TornLast(w) /\ F!Reads(w) /\ w = w
         /\ \A p \in Q : p # e.phase \/ ~F!Reads(j) => F!Resumed(w, p) = F!Resumed(j, p)
         /\ F!Reads(j) => w = Append(j, e)
<1>1. Len(j) \in Nat /\ (j # <<>> => Len(j) >= 1)
  OBVIOUS
<1>2. CASE F!Reads(j)
  <2> DEFINE w == Append(j, e)
  <2>1. F!Written(j, e) = w
    BY <1>2 DEF F!Written, F!Reads
  <2>2. w \in Seq(LinesOf(Q)) /\ Len(w) = Len(j) + 1 /\ w[Len(j) + 1] = e /\ w # <<>> /\ \A i \in 1..Len(j) : w[i] = j[i]
    OBVIOUS
  <2>3. \A i \in 1..Len(j) : j[i].phase # "torn"
    <3> TAKE i \in 1..Len(j)
    <3>1. j # <<>> /\ F!Last(j) = j[Len(j)]
      BY DEF F!Last
    <3> QED BY <1>2, <3>1 DEF TornLast, F!Reads
  <2>4. \A p \in Q : p # e.phase => F!Resumed(w, p) = F!Resumed(j, p)
    <3> SUFFICES ASSUME NEW p \in Q, p # e.phase PROVE F!Resumed(w, p) = F!Resumed(j, p)
      OBVIOUS
    <3> QED BY OthersLineKeeps
  <2> HIDE DEF w
  <2>5. \A i \in 1..Len(w) : w[i].phase # "torn"
    <3>1. \A i \in 1..Len(w) : i = Len(j) + 1 \/ i \in 1..Len(j)
      BY <1>1, <2>2
    <3> QED BY <2>2, <2>3, <3>1
  <2>6. F!Reads(w)
    <3>1. F!Last(w) = w[Len(w)] /\ Len(w) \in 1..Len(w)
      BY <1>1, <2>2 DEF F!Last
    <3> QED BY <2>5, <3>1, TornIsALine DEF F!Reads
  <2> QED BY <1>2, <2>1, <2>2, <2>4, <2>5, <2>6 DEF TornLast, w
<1>3. CASE ~F!Reads(j)
  <2> DEFINE w == F!Front(j)
  <2>1. j # <<>> /\ F!Last(j) = F!Torn
    BY <1>3 DEF F!Reads
  <2>2. F!Written(j, e) = w
    BY <2>1 DEF F!Written
  <2>3. w \in Seq(LinesOf(Q)) /\ Len(w) = Len(j) - 1 /\ (\A i \in 1..(Len(j) - 1) : w[i] = j[i]) /\ j[Len(j)] = F!Torn
    <3>1. w = SubSeq(j, 1, Len(j) - 1)
      BY DEF F!Front
    <3>2. \A i \in 1..(Len(j) - 1) : j[i] \in LinesOf(Q)
      BY <1>1
    <3>3. Len(j) - 1 \in Int /\ Len(j) - 1 \in Nat /\ (Len(j) - 1) - 1 + 1 = Len(j) - 1
      BY <1>1, <2>1
    <3> HIDE DEF w
    <3>4. w \in Seq(LinesOf(Q)) /\ Len(w) = Len(j) - 1 /\ \A i \in 1..(Len(j) - 1) : w[i] = j[i]
      BY <3>1, <3>2, <3>3, SubSeqProperties
    <3> QED BY <2>1, <3>4 DEF F!Last
  <2>4. j = Append(w, F!Torn)
    BY <1>1, <2>1, <2>3, TornIsALine
  <2> HIDE DEF w
  <2>5. \A i \in 1..Len(w) : w[i].phase # "torn"
    <3> TAKE i \in 1..Len(w)
    <3>1. i \in 1..Len(j) /\ i # Len(j) /\ w[i] = j[i]
      BY <1>1, <2>1, <2>3
    <3> QED BY <3>1 DEF TornLast
  <2>6. F!Reads(w)
    <3> SUFFICES ASSUME w # <<>> PROVE F!Last(w) # F!Torn
      BY DEF F!Reads
    <3>1. F!Last(w) = w[Len(w)] /\ Len(w) \in 1..Len(w)
      BY <2>3 DEF F!Last
    <3> QED BY <2>5, <3>1, TornIsALine
  <2>7. \A p \in Q : F!Resumed(w, p) = F!Resumed(j, p)
    BY <2>3, <2>4, TornSaysNothing
  <2> QED BY <1>3, <2>2, <2>3, <2>5, <2>6, <2>7 DEF TornLast
<1> QED BY <1>2, <1>3

\* A line that says yes keeps what there was, and approves nothing it does not say.
LEMMA SuccessWritten ==
  ASSUME NEW Q, "torn" \notin Q, NEW j \in Seq(LinesOf(Q)), TornLast(j), NEW e \in LinesOf(Q), e.phase \in Q, e.ok
  PROVE  LET w == F!Written(j, e) q == e.phase IN
         /\ Kept(j, q) => Kept(w, q)
         /\ Approved(j, q) => Approved(w, q)
         /\ F!Reads(j) => Kept(w, q) /\ F!Resumed(w, q).out = e.out
         /\ F!Reads(j) /\ e.approved => Approved(w, q)
         /\ Approved(w, q) => Approved(j, q) \/ (F!Reads(j) /\ e.approved)
<1>1. CASE F!Reads(j)
  <2>1. F!Written(j, e) = Append(j, e)
    BY <1>1, LineWritten
  <2>2. LET r == F!Resumed(Append(j, e), e.phase) IN r.ok /\ r.out = e.out /\ (r.approved <=> e.approved \/ Approved(j, e.phase))
    BY SuccessIsFound
  <2> QED BY <1>1, <2>1, <2>2 DEF Kept, Approved
<1>2. CASE ~F!Reads(j)
  <2>1. F!Resumed(F!Written(j, e), e.phase) = F!Resumed(j, e.phase)
    BY <1>2, LineWritten
  <2> QED BY <1>2, <2>1 DEF Kept, Approved
<1> QED BY <1>1, <1>2

\* A line that says no is read as no, or not at all.
LEMMA FailureWritten ==
  ASSUME NEW Q, "torn" \notin Q, NEW j \in Seq(LinesOf(Q)), TornLast(j), NEW e \in LinesOf(Q), e.phase \in Q, ~e.ok
  PROVE  LET w == F!Written(j, e) IN
         ~Kept(w, e.phase) \/ F!Resumed(w, e.phase) = F!Resumed(j, e.phase)
<1>1. CASE F!Reads(j)
  <2>1. F!Written(j, e) = Append(j, e)
    BY <1>1, LineWritten
  <2> QED BY <2>1, FailureLineForgets
<1>2. CASE ~F!Reads(j)
  BY <1>2, LineWritten
<1> QED BY <1>1, <1>2

\* The order of a finite set's members has each of them.
LEMMA OrderHas ==
  ASSUME NEW B, IsFiniteSet(B)
  PROVE  F!SetToSeq(B) \in Seq(B) /\ F!ToSet(F!SetToSeq(B)) = B
<1> DEFINE n == Cardinality(B)
           s == F!SetToSeq(B)
<1>1. n \in Nat /\ ExistsBijection(1..n, B)
  BY FS_CardinalityType
<1>2. PICK g \in Bijection(1..n, B) : TRUE
  BY <1>1 DEF ExistsBijection
<1>3. g \in [1..n -> B] /\ F!IsInjective(g)
  <2>1. g \in [1..n -> B] /\ IsInjective(g)
    BY <1>2 DEF Bijection, Injection
  <2> QED BY <2>1 DEF IsInjective, F!IsInjective
<1>4. s \in [1..n -> B] /\ F!IsInjective(s)
  <2>1. s = CHOOSE f \in [1..n -> B] : F!IsInjective(f)
    BY DEF F!SetToSeq, F!Cardinality, Cardinality
  <2> HIDE DEF s, n
  <2> QED BY <1>3, <2>1
<1> HIDE DEF s
<1>5. s \in Injection(1..n, B)
  BY <1>4 DEF Injection, IsInjective, F!IsInjective
<1>6. Cardinality(1..n) = n
  BY <1>1, FS_Interval
<1> HIDE DEF n
<1>7. s \in Surjection(1..n, B)
  BY <1>5, <1>6, FS_Injection DEF n
<1>8. DOMAIN s = 1..n /\ \A b \in B : \E i \in 1..n : s[i] = b
  BY <1>4, <1>7 DEF Surjection
<1>9. F!ToSet(s) = B
  BY <1>4, <1>8 DEF F!ToSet
<1>10. s \in Seq(B)
  BY <1>1, <1>4, IsASeq
<1> QED BY <1>9, <1>10 DEF s

\* What blocked phases leave in the journal.
LEMMA FailuresRecorded ==
  ASSUME NEW Q, "torn" \notin Q, NEW j \in Seq(LinesOf(Q)), TornLast(j), NEW ps \in Seq(Q)
  PROVE  LET w == F!Recorded(j, ps) IN
         /\ w \in Seq(LinesOf(Q)) /\ TornLast(w)
         /\ \A p \in Q : F!Resumed(w, p) = F!Resumed(j, p) \/ (p \in F!ToSet(ps) /\ ~Kept(w, p))
<1> DEFINE lines == [i \in DOMAIN ps |-> F!Line(ps[i], F!NotRun, FALSE)]
           u == F!Written(j, lines[1])
           rest == Tail(lines)
<1>1. CASE ps = <<>>
  BY <1>1 DEF F!Recorded
<1>2. CASE ps # <<>>
  <2>1. F!Recorded(j, ps) = u \o rest
    BY <1>2 DEF F!Recorded
  <2>2. Len(ps) \in Nat /\ Len(ps) >= 1 /\ DOMAIN ps = 1..Len(ps) /\ \A i \in 1..Len(ps) : ps[i] \in Q
    BY <1>2
  <2>3. \A p \in Q : F!Line(p, F!NotRun, FALSE) \in LinesOf(Q) /\ ~F!Line(p, F!NotRun, FALSE).ok /\ F!Line(p, F!NotRun, FALSE).phase = p
    BY DEF F!Line, F!NotRun, F!Result, LinesOf
  <2>4. \A i \in 1..Len(ps) : lines[i] \in LinesOf(Q) /\ ~lines[i].ok /\ lines[i].phase = ps[i]
    BY <2>2, <2>3
  <2>5. lines = [i \in 1..Len(ps) |-> lines[i]] /\ Len(lines) = Len(ps) /\ lines \in Seq(LinesOf(Q))
    <3>1. lines = [i \in 1..Len(ps) |-> lines[i]]
      BY <2>2
    <3> HIDE DEF lines
    <3>2. lines \in [1..Len(ps) -> LinesOf(Q)]
      BY <2>4, <3>1
    <3>3. lines \in Seq(LinesOf(Q)) /\ DOMAIN lines = 1..Len(ps)
      BY <2>2, <3>2, IsASeq
    <3> QED BY <2>2, <3>1, <3>3, LenProperties
  <2> HIDE DEF lines
  <2>6. 1 \in 1..Len(ps) /\ lines[1] \in LinesOf(Q) /\ lines[1].phase = ps[1] /\ ps[1] \in Q /\ ~lines[1].ok
    BY <2>2, <2>4
  <2>7. /\ u \in Seq(LinesOf(Q)) /\ TornLast(u) /\ F!Reads(u)
        /\ \A p \in Q : p # ps[1] => F!Resumed(u, p) = F!Resumed(j, p)
    BY <2>6, LineWritten
  <2>8. ~Kept(u, ps[1]) \/ F!Resumed(u, ps[1]) = F!Resumed(j, ps[1])
    BY <2>6, FailureWritten
  <2> HIDE DEF u
  <2>9. rest \in Seq(LinesOf(Q)) /\ Len(rest) = Len(ps) - 1 /\ \A i \in 1..(Len(ps) - 1) : rest[i] = lines[i + 1]
    BY <2>2, <2>5
  <2> HIDE DEF rest
  <2>10. \A i \in 1..Len(rest) : ~rest[i].ok /\ rest[i].phase = ps[i + 1] /\ i + 1 \in 1..Len(ps)
    <3> TAKE i \in 1..Len(rest)
    <3>1. i + 1 \in 1..Len(ps) /\ i \in 1..(Len(ps) - 1)
      BY <2>2, <2>9
    <3> QED BY <2>4, <2>9, <3>1
  <2>11. \A p \in Q : F!Resumed(u \o rest, p) = F!Resumed(j, p) \/ (p \in F!ToSet(ps) /\ ~Kept(u \o rest, p))
    <3> TAKE p \in Q
    <3>1. CASE \E i \in 1..Len(rest) : rest[i].phase = p
      <4>1. ~Kept(u \o rest, p)
        BY <2>7, <2>9, <2>10, <3>1, FailureForgets
      <4>2. p \in F!ToSet(ps)
        BY <2>2, <2>10, <3>1 DEF F!ToSet
      <4> QED BY <4>1, <4>2
    <3>2. CASE \A i \in 1..Len(rest) : rest[i].phase # p
      <4>1. F!Resumed(u \o rest, p) = F!Resumed(u, p)
        BY <2>7, <2>9, <3>2, OthersLinesKeep
      <4>2. p = ps[1] => p \in F!ToSet(ps)
        BY <2>2, <2>6 DEF F!ToSet
      <4> QED BY <2>7, <2>8, <4>1, <4>2 DEF Kept
    <3> QED BY <3>1, <3>2
  <2>12. TornLast(u \o rest) /\ u \o rest \in Seq(LinesOf(Q))
    <3>1. u \o rest \in Seq(LinesOf(Q)) /\ Len(u \o rest) = Len(u) + Len(rest) /\ Len(u) \in Nat /\ Len(rest) \in Nat
      BY <2>7, <2>9, ConcatProperties, LenProperties
    <3>2. \A i \in 1..Len(u) : u[i].phase # "torn"
      <4> TAKE i \in 1..Len(u)
      <4>1. u # <<>> /\ F!Last(u) = u[Len(u)]
        BY <2>7 DEF F!Last
      <4> QED BY <2>7, <4>1 DEF TornLast, F!Reads
    <3>3. \A i \in 1..Len(u \o rest) : (u \o rest)[i].phase # "torn"
      <4> TAKE i \in 1..Len(u \o rest)
      <4>1. CASE i \in 1..Len(u)
        BY <2>7, <2>9, <3>2, <4>1
      <4>2. CASE i \notin 1..Len(u)
        <5>1. i - Len(u) \in 1..Len(rest) /\ (u \o rest)[i] = rest[i - Len(u)]
          BY <2>7, <2>9, <3>1, <4>2
        <5> QED BY <2>2, <2>10, <5>1
      <4> QED BY <4>1, <4>2
    <3> QED BY <3>1, <3>3 DEF TornLast
  <2> QED BY <2>1, <2>11, <2>12
<1> QED BY <1>1, <1>2

---------------------------------------------------------------------------
(* The run of a flow *)

FlowPhases == spec.phases
Running == life \in {"loop", "wave", "gates"}

FlowResults == [ok : BOOLEAN, out : Int, lost : BOOLEAN, how : {"none", "failed", "blocked", "abort"}]

FlowTyped ==
  /\ spec \in Specs
  /\ journal \in Seq(LinesOf(FlowPhases))
  /\ life \in {"none", "loop", "wave", "gates", "over"}
  /\ done \in [FlowPhases -> FlowResults]
  /\ gate \in [FlowPhases -> {"open", "passed", "rejected"}]
  /\ wave \in SUBSET FlowPhases /\ got \in Seq(FlowPhases) /\ aborted \in BOOLEAN
  /\ late \in SUBSET [phase : FlowPhases, out : Int, run : Nat]
  /\ count \in [runs : Nat, attempts : Nat, crashes : Nat, stale : Nat]
  /\ paid \in SUBSET FlowPhases

\* No torn line is left before others, and what a wave or its checkpoints write is read.
TornIsLast ==
  /\ TornLast(journal)
  /\ life \in {"wave", "gates"} /\ got # <<>> => F!Reads(journal)

\* What has no result in this run has no approval, and no resume could do without it.
NothingYet ==
  /\ \A p \in FlowPhases : Running /\ done[p] = F!NotRun => gate[p] = "open" /\ p \notin paid /\ ~Approved(journal, p)
  /\ wave # {} => life = "wave"
  /\ \A p \in wave \ F!ToSet(got) : done[p] = F!NotRun
  /\ life = "none" => \A p \in FlowPhases : done[p] = F!NotRun /\ gate[p] = "open"

\* Work that this run gave up goes on after it; nobody approved what it makes.
LateIsApart ==
  \A a \in late :
    /\ a.run <= count.runs
    /\ a.run = count.runs =>
         /\ life = "over" /\ ~Approved(journal, a.phase) /\ ~done[a.phase].ok
         /\ \A n \in spec.needs[a.phase] : F!Gated(n) => Approved(journal, n)

\* What still goes on was given up by earlier runs.
LateIsPast == \A a \in late : a.run <= count.runs /\ a.run # count.runs

\* Results have one of the forms of a phase that ran, failed, was blocked, given up or restored.
ResultsFit ==
  \A p \in FlowPhases :
    /\ done[p].ok => done[p].how = "none"
    /\ done[p].how # "none" => ~done[p].lost
    /\ ~done[p].ok /\ done[p].how = "none" => done[p] = F!NotRun

\* An approval is of an output the operator saw, and is in the journal.
ApprovedIsSeen ==
  /\ \A p \in FlowPhases : F!Gated(p) /\ Approved(journal, p) => F!Resumed(journal, p).out \in seen
  /\ \A p \in FlowPhases : gate[p] # "open" => F!Gated(p)
  /\ \A p \in FlowPhases : Running /\ gate[p] = "passed" => done[p].ok /\ done[p].out \in seen /\ Approved(journal, p)

\* A phase ran after the checkpoints of what it needs were passed, in this run and in the journal.
NeedsPassed ==
  /\ \A p \in FlowPhases : \A n \in spec.needs[p] : F!Gated(n) =>
       /\ p \in wave \/ done[p].ok => gate[n] = "passed"
       /\ Kept(journal, p) => Approved(journal, n)
  /\ \A p \in wave : \A n \in spec.needs[p] : done[n].ok /\ ~done[n].lost

\* What is paid for is found again.
PaidLasts == \A p \in paid : Kept(journal, p) /\ (F!Gated(p) => Approved(journal, p))

\* A checkpoint that is not decided is due, or has nothing to show.
UndecidedIsDue ==
  \A p \in FlowPhases :
    Running \/ (life = "over" /\ ~aborted) =>
      (F!Gated(p) /\ done[p].ok /\ gate[p] = "open" => done[p].lost \/ (life \in {"wave", "gates"} /\ p \in F!ToSet(got)))

\* What did not run was held up, or waits.
HeldUp ==
  /\ \A p \in FlowPhases : done[p].how = "blocked" =>
       \E n \in spec.needs[p] : F!Has(n) /\ F!Spoilt(n)
  /\ life = "over" /\ ~aborted => F!Ready = {}

FlowInv ==
  FlowTyped /\ TornIsLast /\ NothingYet /\ LateIsApart /\ ResultsFit /\ ApprovedIsSeen /\ NeedsPassed
    /\ PaidLasts /\ UndecidedIsDue /\ HeldUp

LEMMA FlowFacts ==
  ASSUME FlowTyped
  PROVE  /\ "torn" \notin FlowPhases /\ IsFiniteSet(FlowPhases)
         /\ \A p \in FlowPhases : spec.needs[p] \in SUBSET FlowPhases
BY FlowsAreGraphs DEF FlowTyped, FlowPhases

LEMMA ResultsTyped ==
  /\ F!NotRun \in FlowResults /\ F!NotRun.ok = FALSE /\ F!NotRun.lost = FALSE /\ F!NotRun.how = "none"
  /\ \A how \in {"failed", "blocked", "abort"} :
       LET r == F!Result(FALSE, 0, FALSE, how) IN
       r \in FlowResults /\ r.ok = FALSE /\ r.lost = FALSE /\ r.how = how /\ r # F!NotRun
  /\ \A o \in Int, lost \in BOOLEAN :
       LET r == F!Result(TRUE, o, lost, "none") IN
       r \in FlowResults /\ r.ok = TRUE /\ r.lost = lost /\ r.how = "none" /\ r.out = o /\ r # F!NotRun
BY DEF F!NotRun, F!Result, FlowResults

\* While a run is under way, nothing it gave up goes on.
LEMMA LateWhileRunning ==
  ASSUME LateIsApart, life # "over"
  PROVE  LateIsPast
BY DEF LateIsApart, LateIsPast

LEMMA PastStaysApart ==
  ASSUME LateIsPast, late' = late, count'.runs = count.runs
  PROVE  LateIsApart'
BY DEF LateIsApart, LateIsPast

\* The attempts of a wave have numbers.
LEMMA NthTyped ==
  ASSUME FlowTyped, NEW p
  PROVE  F!Nth(p) \in Int
<1>1. IsFiniteSet(wave)
  BY FlowFacts, FS_Subset DEF FlowTyped
<1> DEFINE after == {q \in wave : spec.order[q] > spec.order[p]}
<1>2. IsFiniteSet(after)
  BY <1>1, FS_Subset
<1>3. Cardinality(after) \in Int
  BY <1>2, FS_CardinalityType
<1>4. count.attempts \in Int
  BY DEF FlowTyped
<1> HIDE DEF after
<1>5. F!Nth(p) = count.attempts - Cardinality(after)
  BY DEF F!Nth, after, F!Cardinality, Cardinality
<1> QED BY <1>3, <1>4, <1>5

LEMMA NoneYet == \A Q : <<>> \in Seq(Q) /\ {} \in SUBSET Q
OBVIOUS

LEMMA FlowStarts ==
  ASSUME F!Init
  PROVE  FlowInv
<1> USE DEF F!Init, FlowPhases, F!Phases
<1>1. FlowTyped
  <2>1. done \in [FlowPhases -> FlowResults]
    BY ResultsTyped
  <2> QED BY <2>1, NoneYet DEF FlowTyped
<1>2. TornIsLast /\ NothingYet
  BY DEF TornIsLast, TornLast, NothingYet, Running, F!Reads
<1>3. LateIsApart /\ ResultsFit /\ PaidLasts
  BY ResultsTyped DEF LateIsApart, ResultsFit, PaidLasts
<1>4. ApprovedIsSeen /\ NeedsPassed
  BY NothingKept, ResultsTyped DEF ApprovedIsSeen, NeedsPassed, Running, Approved, Kept
<1>5. UndecidedIsDue /\ HeldUp
  BY ResultsTyped DEF UndecidedIsDue, HeldUp
<1> QED BY <1>1, <1>2, <1>3, <1>4, <1>5 DEF FlowInv

\* The operator stops the run.
LEMMA StopKeeps ==
  ASSUME FlowInv, F!Stop
  PROVE  FlowInv'
<1> USE DEF FlowInv, F!Stop, FlowPhases, F!Phases, F!runVars
<1>1. FlowTyped'
  BY DEF FlowTyped
<1>2. TornIsLast'
  BY DEF TornIsLast, TornLast, F!Reads
<1>3. NothingYet'
  BY DEF NothingYet, Running, Approved, FlowTyped
<1>4. LateIsApart'
  BY DEF LateIsApart, Approved, F!Gated
<1>5. ResultsFit'
  BY DEF ResultsFit
<1>6. ApprovedIsSeen'
  BY DEF ApprovedIsSeen, Running, Approved, F!Gated
<1>7. NeedsPassed'
  BY DEF NeedsPassed, Approved, Kept, F!Gated
<1>8. PaidLasts'
  BY DEF PaidLasts, Approved, Kept, F!Gated
<1>9. UndecidedIsDue'
  BY DEF UndecidedIsDue, Running, F!Gated, F!ToSet
<1>10. HeldUp'
  BY DEF HeldUp, F!Ready, F!Waiting, F!Has, F!GateResolved, F!Spoilt, F!Gated
<1> QED BY <1>1, <1>2, <1>3, <1>4, <1>5, <1>6, <1>7, <1>8, <1>9, <1>10

\* The archive loses a body.
LEMMA ForgetKeeps ==
  ASSUME FlowInv, F!Forget
  PROVE  FlowInv'
<1> USE DEF FlowInv, F!Forget, FlowPhases, F!Phases, F!runVars
<1>1. FlowTyped'
  BY DEF FlowTyped
<1>2. TornIsLast'
  BY DEF TornIsLast, TornLast, F!Reads
<1>3. NothingYet'
  BY DEF NothingYet, Running, Approved, FlowTyped
<1>4. LateIsApart'
  BY DEF LateIsApart, Approved, F!Gated
<1>5. ResultsFit'
  BY DEF ResultsFit
<1>6. ApprovedIsSeen'
  BY DEF ApprovedIsSeen, Running, Approved, F!Gated
<1>7. NeedsPassed'
  BY DEF NeedsPassed, Approved, Kept, F!Gated
<1>8. PaidLasts'
  BY DEF PaidLasts, Approved, Kept, F!Gated
<1>9. UndecidedIsDue'
  BY DEF UndecidedIsDue, Running, F!Gated, F!ToSet
<1>10. HeldUp'
  BY DEF HeldUp, F!Ready, F!Waiting, F!Has, F!GateResolved, F!Spoilt, F!Gated
<1> QED BY <1>1, <1>2, <1>3, <1>4, <1>5, <1>6, <1>7, <1>8, <1>9, <1>10

\* All checkpoints of a wave are decided.
LEMMA GatesDoneKeeps ==
  ASSUME FlowInv, F!GatesDone
  PROVE  FlowInv'
<1> USE DEF FlowInv, F!GatesDone, FlowPhases, F!Phases, F!runVars
<1>1. FlowTyped'
  BY DEF FlowTyped
<1>2. TornIsLast'
  BY DEF TornIsLast, TornLast, F!Reads
<1>3. NothingYet'
  BY DEF NothingYet, Running, Approved, FlowTyped
<1>4. LateIsApart'
  BY DEF LateIsApart, Approved, F!Gated
<1>5. ResultsFit'
  BY DEF ResultsFit
<1>6. ApprovedIsSeen'
  BY DEF ApprovedIsSeen, Running, Approved, F!Gated
<1>7. NeedsPassed'
  BY DEF NeedsPassed, Approved, Kept, F!Gated
<1>8. PaidLasts'
  BY DEF PaidLasts, Approved, Kept, F!Gated
<1>9. UndecidedIsDue'
  <2>1. \A p \in FlowPhases : F!Gated(p) /\ done[p].ok /\ gate[p] = "open" => p \notin F!ToSet(got)
    BY DEF F!Due, F!ToSet
  <2> QED BY <2>1 DEF UndecidedIsDue, Running, F!Gated
<1>10. HeldUp'
  BY DEF HeldUp, F!Ready, F!Waiting, F!Has, F!GateResolved, F!Spoilt, F!Gated
<1> QED BY <1>1, <1>2, <1>3, <1>4, <1>5, <1>6, <1>7, <1>8, <1>9, <1>10

\* A wave is done.
LEMMA WaveEndsKeeps ==
  ASSUME FlowInv, F!WaveEnds
  PROVE  FlowInv'
<1> USE DEF FlowInv, F!WaveEnds, FlowPhases, F!Phases, F!runVars
<1>1. FlowTyped'
  <2>1. got' \in Seq(FlowPhases)
    BY NoneYet DEF FlowTyped
  <2>2. life' \in {"none", "loop", "wave", "gates", "over"} /\ wave' \in SUBSET FlowPhases
    BY NoneYet
  <2> QED BY <2>1, <2>2 DEF FlowTyped
<1>2. TornIsLast'
  BY DEF TornIsLast, TornLast, F!Reads
<1>3. NothingYet'
  BY DEF NothingYet, Running, Approved, FlowTyped
<1>4. LateIsApart'
  BY DEF LateIsApart, Approved, F!Gated
<1>5. ResultsFit'
  BY DEF ResultsFit
<1>6. ApprovedIsSeen'
  BY DEF ApprovedIsSeen, Running, Approved, F!Gated
<1>7. NeedsPassed'
  BY DEF NeedsPassed, Approved, Kept, F!Gated
<1>8. PaidLasts'
  BY DEF PaidLasts, Approved, Kept, F!Gated
<1>9. UndecidedIsDue'
  BY DEF UndecidedIsDue, Running, F!Gated, F!ToSet
<1>10. HeldUp'
  BY DEF HeldUp, F!Ready, F!Waiting, F!Has, F!GateResolved, F!Spoilt, F!Gated
<1> QED BY <1>1, <1>2, <1>3, <1>4, <1>5, <1>6, <1>7, <1>8, <1>9, <1>10

\* A stopped wave is given up.
LEMMA GraceEndsKeeps ==
  ASSUME FlowInv, F!GraceEnds
  PROVE  FlowInv'
<1> USE DEF FlowInv, F!GraceEnds, FlowPhases, F!Phases, F!runVars
<1>1. FlowTyped'
  <2>1. done' \in [FlowPhases -> FlowResults]
    BY ResultsTyped DEF FlowTyped
  <2>2. \A p \in wave : F!Nth(p) \in Int /\ p \in FlowPhases
    BY NthTyped DEF FlowTyped
  <2>3. late' \in SUBSET [phase : FlowPhases, out : Int, run : Nat]
    <3>1. count.runs \in Nat /\ late \in SUBSET [phase : FlowPhases, out : Int, run : Nat]
      BY DEF FlowTyped
    <3> DEFINE k == count.runs
               new == {[phase |-> p, out |-> F!Nth(p), run |-> k] : p \in wave \ F!ToSet(got)}
    <3>2. new \in SUBSET [phase : FlowPhases, out : Int, run : Nat]
      BY <2>2, <3>1
    <3> QED BY <3>1, <3>2
  <2> QED BY <2>1, <2>3, NoneYet DEF FlowTyped
<1>2. TornIsLast'
  BY DEF TornIsLast, TornLast, F!Reads
<1>3. NothingYet'
  BY DEF NothingYet, Running, Approved, FlowTyped
<1>4. LateIsApart'
  <2>1. LateIsPast
    BY LateWhileRunning
  <2>2. \A a \in late' : a \in late \/ (a.phase \in wave \ F!ToSet(got) /\ a.run = count.runs)
    OBVIOUS
  <2>3. \A p \in wave \ F!ToSet(got) :
          /\ p \in FlowPhases /\ done[p] = F!NotRun /\ ~Approved(journal, p) /\ done'[p] = F!Result(FALSE, 0, FALSE, "abort")
          /\ \A n \in spec.needs[p] : n \in FlowPhases /\ (F!Gated(n) => Approved(journal, n))
    BY FlowFacts DEF FlowTyped, NothingYet, Running, NeedsPassed, ApprovedIsSeen
  <2>4. count.runs \in Nat /\ count' = count /\ count.runs <= count.runs
    BY DEF FlowTyped
  <2>5. life' = "over" /\ journal' = journal /\ spec' = spec /\ F!Result(FALSE, 0, FALSE, "abort").ok = FALSE
    BY DEF F!Result
  <2> SUFFICES ASSUME NEW a \in late'
               PROVE  /\ a.run <= count.runs
                      /\ a.run = count.runs =>
                           /\ ~Approved(journal, a.phase) /\ ~done'[a.phase].ok
                           /\ \A n \in spec.needs[a.phase] : F!Gated(n) => Approved(journal, n)
    BY <2>4, <2>5 DEF LateIsApart, Approved, F!Gated
  <2>7. CASE a \in late
    BY <2>1, <2>7 DEF LateIsPast
  <2>8. CASE a.phase \in wave \ F!ToSet(got) /\ a.run = count.runs
    BY <2>3, <2>4, <2>5, <2>8
  <2> QED BY <2>2, <2>7, <2>8
<1>5. ResultsFit'
  BY ResultsTyped DEF ResultsFit
<1>6. ApprovedIsSeen'
  BY DEF ApprovedIsSeen, Running, Approved, F!Gated
<1>7. NeedsPassed'
  BY DEF NeedsPassed, Approved, Kept, F!Gated
<1>8. PaidLasts'
  BY DEF PaidLasts, Approved, Kept, F!Gated
<1>9. UndecidedIsDue'
  BY DEF UndecidedIsDue, Running, F!Gated, F!ToSet
<1>10. HeldUp'
  <2>1. \A p \in FlowPhases : done'[p].how = "blocked" => done[p].how = "blocked"
    BY ResultsTyped
  <2>2. \A n \in FlowPhases : F!Has(n) => done'[n] = done[n]
    BY DEF NothingYet, F!Has
  <2>3. \A p \in FlowPhases : done'[p].how = "blocked" => \E n \in spec.needs[p] : F!Has(n)' /\ F!Spoilt(n)'
    <3> SUFFICES ASSUME NEW p \in FlowPhases, done'[p].how = "blocked"
                 PROVE  \E n \in spec.needs[p] : F!Has(n)' /\ F!Spoilt(n)'
      OBVIOUS
    <3>1. PICK n \in spec.needs[p] : F!Has(n) /\ F!Spoilt(n)
      BY <2>1 DEF HeldUp
    <3>2. done'[n] = done[n]
      BY <2>2, <3>1, FlowFacts
    <3> QED BY <3>1, <3>2 DEF F!Has, F!Spoilt
  <2> QED BY <2>3 DEF HeldUp
<1> QED BY <1>1, <1>2, <1>3, <1>4, <1>5, <1>6, <1>7, <1>8, <1>9, <1>10

\* A run that succeeded leaves no line.
LEMMA ClearKeeps ==
  ASSUME FlowInv, F!Clear
  PROVE  FlowInv'
<1> USE DEF FlowInv, F!Clear, FlowPhases, F!Phases, F!runVars
<1>1. FlowTyped'
  BY DEF FlowTyped
<1>2. TornIsLast'
  BY DEF TornIsLast, TornLast, F!Reads
<1>3. NothingYet'
  BY DEF NothingYet, Running, Approved, FlowTyped
<1>4. LateIsApart'
  <2>1. LateIsPast
    <3> SUFFICES ASSUME NEW a \in late, a.run = count.runs PROVE FALSE
      BY DEF LateIsApart, LateIsPast
    <3>1. a.phase \in FlowPhases
      BY DEF FlowTyped
    <3> QED BY <3>1 DEF LateIsApart, F!AllOk
  <2> QED BY <2>1, PastStaysApart
<1>5. ResultsFit'
  BY DEF ResultsFit
<1>6. ApprovedIsSeen'
  BY NothingKept DEF ApprovedIsSeen, Running, Approved, Kept, F!Gated
<1>7. NeedsPassed'
  BY NothingKept DEF NeedsPassed, Approved, Kept, F!Gated
<1>8. PaidLasts'
  BY DEF PaidLasts, Approved, Kept, F!Gated
<1>9. UndecidedIsDue'
  BY DEF UndecidedIsDue, Running, F!Gated, F!ToSet
<1>10. HeldUp'
  BY DEF HeldUp, F!Ready, F!Waiting, F!Has, F!GateResolved, F!Spoilt, F!Gated
<1> QED BY <1>1, <1>2, <1>3, <1>4, <1>5, <1>6, <1>7, <1>8, <1>9, <1>10

\* A crash leaves the journal as it reads.
LEMMA CrashedReads ==
  ASSUME FlowInv, F!Crash
  PROVE  /\ journal' \in Seq(LinesOf(FlowPhases)) /\ TornLast(journal')
         /\ \A p \in FlowPhases : F!Resumed(journal', p) = F!Resumed(journal, p)
<1>1. journal \in Seq(LinesOf(FlowPhases)) /\ TornLast(journal) /\ "torn" \notin FlowPhases
  BY FlowFacts DEF FlowInv, FlowTyped, TornIsLast
<1>2. CASE journal' = journal
  BY <1>1, <1>2
<1>3. CASE F!Reads(journal) /\ journal' = Append(journal, F!Torn)
  BY <1>1, <1>3, TornAppended, TornSaysNothing
<1> QED BY <1>2, <1>3 DEF F!Crash

\* The process dies.
LEMMA CrashKeeps ==
  ASSUME FlowInv, F!Crash
  PROVE  FlowInv'
<1> USE DEF FlowInv, F!Crash, FlowPhases, F!Phases, F!runVars
<1>1. FlowTyped'
  <2>1. done' \in [FlowPhases -> FlowResults]
    BY ResultsTyped
  <2>2. journal' \in Seq(LinesOf(FlowPhases))
    BY CrashedReads
  <2>3. count' \in [runs : Nat, attempts : Nat, crashes : Nat, stale : Nat]
    BY DEF FlowTyped
  <2>4. gate' \in [FlowPhases -> {"open", "passed", "rejected"}]
    OBVIOUS
  <2>5. wave' \in SUBSET FlowPhases /\ late' \in SUBSET [phase : FlowPhases, out : Int, run : Nat] /\ got' \in Seq(FlowPhases)
    BY NoneYet
  <2> QED BY <2>1, <2>2, <2>3, <2>4, <2>5 DEF FlowTyped
<1>2. TornIsLast'
  BY CrashedReads DEF TornIsLast
<1>3. NothingYet'
  BY DEF NothingYet, Running, Approved, FlowTyped
<1>4. LateIsApart'
  BY DEF LateIsApart, Approved, F!Gated
<1>5. ResultsFit'
  BY ResultsTyped DEF ResultsFit
<1>6. ApprovedIsSeen'
  <2>1. \A p \in FlowPhases : F!Resumed(journal', p) = F!Resumed(journal, p)
    BY CrashedReads
  <2> QED BY <2>1, ResultsTyped DEF ApprovedIsSeen, Running, Approved, F!Gated
<1>7. NeedsPassed'
  <2>1. \A p \in FlowPhases : F!Resumed(journal', p) = F!Resumed(journal, p)
    BY CrashedReads
  <2> QED BY <2>1, ResultsTyped, FlowFacts DEF NeedsPassed, Approved, Kept, F!Gated
<1>8. PaidLasts'
  <2>1. \A p \in FlowPhases : F!Resumed(journal', p) = F!Resumed(journal, p)
    BY CrashedReads
  <2> QED BY <2>1 DEF FlowTyped, PaidLasts, Approved, Kept, F!Gated
<1>9. UndecidedIsDue'
  BY ResultsTyped DEF UndecidedIsDue, Running, F!Gated, F!ToSet
<1>10. HeldUp'
  BY ResultsTyped DEF HeldUp, F!Ready, F!Waiting, F!Has, F!GateResolved, F!Spoilt, F!Gated
<1> QED BY <1>1, <1>2, <1>3, <1>4, <1>5, <1>6, <1>7, <1>8, <1>9, <1>10


\* What a run of the flow takes over from the journal.
LEMMA Restores ==
  ASSUME FlowInv, F!StartRun, NEW p \in FlowPhases
  PROVE  LET e == F!Resumed(journal, p)
             kept == F!Reusable(p, e) IN
         /\ kept => done'[p] = F!Restored(e) /\ e.ok /\ e.out \in Int /\ F!Restored(e) \in FlowResults
                    /\ done'[p].ok /\ done'[p].how = "none" /\ done'[p].out = e.out /\ done'[p] # F!NotRun
         /\ kept /\ F!Gated(p) /\ Approved(journal, p) => gate'[p] = "passed"
         /\ ~(kept /\ F!Gated(p) /\ Approved(journal, p)) => gate'[p] = "open"
         /\ ~kept => done'[p] = F!NotRun /\ (Kept(journal, p) => F!Gated(p)) /\ ~Approved(journal, p)
         /\ kept /\ F!Gated(p) /\ ~Approved(journal, p) => done'[p].lost
         /\ Approved(journal, p) => kept
<1> DEFINE e == F!Resumed(journal, p)
           kept == {q \in F!Phases : F!Reusable(q, F!Resumed(journal, q))}
           lost == F!ByRef /\ ~(e.ref /\ e.out \in archived)
<1>1. journal \in Seq(LinesOf(FlowPhases)) /\ F!Phases = FlowPhases
  BY DEF FlowInv, FlowTyped, F!Phases, FlowPhases
<1>2. e.ok \in BOOLEAN /\ e.approved \in BOOLEAN /\ (e.ok => e.out \in Int)
  BY <1>1, ResumedHas DEF LinesOf
<1>3. /\ done' = [q \in F!Phases |-> IF q \in kept THEN F!Restored(F!Resumed(journal, q)) ELSE F!NotRun]
      /\ gate' = [q \in F!Phases |->
                    IF q \in kept /\ F!Gated(q) /\ F!Resumed(journal, q).approved THEN "passed" ELSE "open"]
  BY DEF F!StartRun
<1>4. p \in kept <=> F!Reusable(p, e)
  BY <1>1
<1>5. lost \in BOOLEAN /\ F!Restored(e) = F!Result(TRUE, e.out, lost, "none")
  BY DEF F!Restored
<1> HIDE DEF e, kept, lost
<1>6. done'[p] = IF p \in kept THEN F!Restored(e) ELSE F!NotRun
  BY <1>1, <1>3 DEF e
<1>7. gate'[p] = IF p \in kept /\ F!Gated(p) /\ e.approved THEN "passed" ELSE "open"
  BY <1>1, <1>3 DEF e
<1>8. e.ok => LET r == F!Restored(e) IN
         r \in FlowResults /\ r.ok = TRUE /\ r.lost = lost /\ r.how = "none" /\ r.out = e.out /\ r # F!NotRun
  <2> SUFFICES ASSUME e.ok
               PROVE  LET r == F!Result(TRUE, e.out, lost, "none") IN
                      r \in FlowResults /\ r.ok = TRUE /\ r.lost = lost /\ r.how = "none" /\ r.out = e.out /\ r # F!NotRun
    BY <1>5
  <2> DEFINE o == e.out
  <2>1. o \in Int /\ lost \in BOOLEAN
    BY <1>2, <1>5
  <2> HIDE DEF o
  <2>2. LET r == F!Result(TRUE, o, lost, "none") IN
        r \in FlowResults /\ r.ok = TRUE /\ r.lost = lost /\ r.how = "none" /\ r.out = o /\ r # F!NotRun
    BY <2>1, ResultsTyped
  <2> QED BY <2>2 DEF o
<1>9. F!Reusable(p, e) <=> e.ok /\ (F!Gated(p) /\ ~e.approved => lost)
  BY <1>8 DEF F!Reusable
<1>10. (Approved(journal, p) <=> e.ok /\ e.approved) /\ (Kept(journal, p) <=> e.ok)
  BY DEF Approved, Kept, e
<1> QED BY <1>2, <1>4, <1>6, <1>7, <1>8, <1>9, <1>10 DEF e

\* A run begins.
LEMMA StartRunKeeps ==
  ASSUME FlowInv, F!StartRun
  PROVE  FlowInv'
<1> USE DEF FlowInv
<1>0. /\ FlowPhases' = FlowPhases /\ life' = "loop" /\ wave' = {} /\ got' = <<>> /\ aborted' = FALSE
      /\ late' = late /\ count' = [count EXCEPT !.runs = @ + 1] /\ journal' = journal /\ spec' = spec /\ seen' = seen /\ paid' = paid
      /\ \A p \in FlowPhases : F!Gated(p)' = F!Gated(p)
  BY DEF F!StartRun, FlowPhases, F!Gated
<1>1. FlowTyped'
  <2>1. \A p \in FlowPhases : done'[p] \in FlowResults /\ gate'[p] \in {"open", "passed", "rejected"}
    BY Restores, ResultsTyped
  <2>2. done' = [p \in FlowPhases |-> done'[p]] /\ gate' = [p \in FlowPhases |-> gate'[p]]
    BY DEF F!StartRun, F!Phases, FlowPhases
  <2>3. count' \in [runs : Nat, attempts : Nat, crashes : Nat, stale : Nat]
    BY DEF F!StartRun, FlowTyped
  <2>4. done' \in [FlowPhases -> FlowResults] /\ gate' \in [FlowPhases -> {"open", "passed", "rejected"}]
    BY <2>1, <2>2
  <2> QED BY <1>0, <2>3, <2>4, NoneYet DEF FlowTyped
<1>2. TornIsLast'
  BY <1>0 DEF TornIsLast
<1>3. NothingYet'
  <2>1. ASSUME NEW p \in FlowPhases, done'[p] = F!NotRun
        PROVE  gate'[p] = "open" /\ p \notin paid /\ ~Approved(journal, p)
    BY <2>1, Restores DEF PaidLasts
  <2> QED BY <1>0, <2>1 DEF NothingYet, Approved
<1>4. LateIsApart'
  <2>1. count'.runs = count.runs + 1 /\ count.runs \in Nat
    BY <1>0 DEF FlowTyped
  <2>2. \A a \in late : a.run \in Nat /\ a.run <= count.runs
    BY DEF FlowTyped, LateIsApart
  <2>3. \A i, j \in Nat : i <= j => i <= j + 1 /\ i # j + 1
    OBVIOUS
  <2> QED BY <1>0, <2>1, <2>2, <2>3 DEF LateIsApart
<1>5. ResultsFit'
  BY <1>0, Restores, ResultsTyped DEF ResultsFit
<1>6. ApprovedIsSeen'
  <2>1. ASSUME NEW p \in FlowPhases, gate'[p] # "open"
        PROVE  F!Gated(p) /\ done'[p].ok /\ done'[p].out \in seen /\ Approved(journal, p)
    BY <2>1, Restores DEF ApprovedIsSeen
  <2> QED BY <1>0, <2>1 DEF ApprovedIsSeen, Approved
<1>7. NeedsPassed'
  <2>1. ASSUME NEW p \in FlowPhases, done'[p].ok, NEW n \in spec.needs[p], F!Gated(n)
        PROVE  gate'[n] = "passed"
    <3>1. Kept(journal, p) /\ n \in FlowPhases
      BY <2>1, Restores, ResultsTyped, FlowFacts DEF Kept
    <3>2. Approved(journal, n)
      BY <2>1, <3>1 DEF NeedsPassed
    <3> QED BY <2>1, <3>1, <3>2, Restores
  <2>2. \A p \in FlowPhases : \A n \in spec.needs[p] : n \in FlowPhases
    BY FlowFacts
  <2> QED BY <1>0, <2>1, <2>2 DEF NeedsPassed, Approved, Kept
<1>8. PaidLasts'
  <2>1. paid \in SUBSET FlowPhases
    BY DEF FlowTyped
  <2> QED BY <1>0, <2>1 DEF PaidLasts, Approved, Kept
<1>9. UndecidedIsDue'
  BY <1>0, Restores, ResultsTyped DEF UndecidedIsDue
<1>10. HeldUp'
  BY <1>0, Restores, ResultsTyped DEF HeldUp
<1> QED BY <1>1, <1>2, <1>3, <1>4, <1>5, <1>6, <1>7, <1>8, <1>9, <1>10

\* A pass of the loop.
LEMMA PassKeeps ==
  ASSUME FlowInv, F!Pass
  PROVE  FlowInv'
<1> USE DEF FlowInv
<1>0. /\ FlowPhases' = FlowPhases /\ life = "loop" /\ got' = <<>> /\ F!Phases = FlowPhases
      /\ late' = late /\ LateIsPast /\ gate' = gate /\ spec' = spec /\ seen' = seen /\ paid' = paid
      /\ wave = {} /\ \A p \in FlowPhases : F!Gated(p)' = F!Gated(p)
  BY LateWhileRunning DEF F!Pass, FlowPhases, F!Phases, F!Gated, NothingYet
<1>1. CASE aborted \/ F!Ready = {}
  <2>1. /\ life' = "over" /\ aborted' = (aborted /\ F!Waiting # {}) /\ journal' = journal /\ done' = done
        /\ wave' = {} /\ count' = count
    BY <1>0, <1>1 DEF F!Pass
  <2>2. ~aborted' => F!Ready = {}
    BY <1>1, <2>1 DEF F!Ready
  <2>3. F!Ready' = F!Ready
    BY <1>0, <2>1 DEF F!Ready, F!Waiting, F!Has, F!GateResolved, F!Gated, F!Phases
  <2>4. FlowTyped'
    BY <1>0, <2>1, NoneYet DEF FlowTyped
  <2>5. TornIsLast' /\ NothingYet' /\ LateIsApart' /\ ResultsFit'
    BY <1>0, <2>1, PastStaysApart DEF TornIsLast, NothingYet, Running, ResultsFit
  <2>6. ApprovedIsSeen' /\ PaidLasts'
    BY <1>0, <2>1 DEF ApprovedIsSeen, PaidLasts, Running, Approved, Kept, FlowTyped
  <2>7. NeedsPassed'
    BY <1>0, <2>1, FlowFacts DEF NeedsPassed, Approved, Kept
  <2>8. UndecidedIsDue'
    BY <1>0, <2>1 DEF UndecidedIsDue, Running
  <2>9. HeldUp'
    BY <1>0, <2>1, <2>2, <2>3 DEF HeldUp, F!Has, F!Spoilt
  <2> QED BY <2>4, <2>5, <2>6, <2>7, <2>8, <2>9
<1>2. CASE ~(aborted \/ F!Ready = {})
  <2> DEFINE B == F!Blocked
             ps == F!SetToSeq(F!Blocked)
  <2>1. /\ life' = "wave" /\ wave' = F!Ready \ B /\ aborted' = aborted
        /\ done' = [p \in FlowPhases |-> IF p \in B THEN F!Result(FALSE, 0, FALSE, "blocked") ELSE done[p]]
        /\ journal' = F!Recorded(journal, ps)
        /\ count' = [count EXCEPT !.attempts = @ + Cardinality(wave')]
    BY <1>0, <1>2 DEF F!Pass, F!Cardinality, Cardinality
  <2>2. B \in SUBSET F!Ready /\ F!Ready \in SUBSET FlowPhases
        /\ \A p \in F!Ready : done[p] = F!NotRun /\ \A n \in spec.needs[p] : F!Has(n) /\ F!GateResolved(n)
    BY <1>0 DEF F!Blocked, F!Ready, F!Waiting, F!Has
  <2>3. ps \in Seq(FlowPhases) /\ F!ToSet(ps) = B
    <3>1. IsFiniteSet(B) /\ B \in SUBSET FlowPhases
      BY <2>2, FlowFacts, FS_Subset
    <3>2. F!SetToSeq(B) \in Seq(B) /\ F!ToSet(F!SetToSeq(B)) = B
      BY <3>1, OrderHas
    <3>3. Seq(B) \subseteq Seq(FlowPhases)
      BY <3>1
    <3> QED BY <3>2, <3>3
  <2>4. \A p \in F!Ready \ B : \A n \in spec.needs[p] : ~F!Spoilt(n)
    BY DEF F!Blocked
  <2> HIDE DEF B, ps
  <2>5. /\ journal' \in Seq(LinesOf(FlowPhases)) /\ TornLast(journal')
        /\ \A p \in FlowPhases : F!Resumed(journal', p) = F!Resumed(journal, p) \/ (p \in B /\ ~Kept(journal', p))
    BY <2>1, <2>3, FlowFacts, FailuresRecorded DEF FlowTyped, TornIsLast
  <2>6. \A p \in FlowPhases :
          /\ p \in B => done[p] = F!NotRun /\ ~Approved(journal, p) /\ p \notin paid
          /\ p \in B => done'[p] = F!Result(FALSE, 0, FALSE, "blocked")
          /\ p \notin B => done'[p] = done[p]
          /\ F!Has(p) => p \notin B /\ done'[p] = done[p]
    <3>1. Running
      BY <1>0 DEF Running
    <3> QED BY <2>1, <2>2, <3>1 DEF F!Has, NothingYet
  <2>7. FlowTyped'
    <3>1. done' \in [FlowPhases -> FlowResults]
      BY <2>1, ResultsTyped DEF FlowTyped
    <3>2. Cardinality(wave') \in Nat
      <4>1. wave' \in SUBSET FlowPhases
        BY <2>1, <2>2
      <4>2. IsFiniteSet(wave')
        BY <4>1, FlowFacts, FS_Subset
      <4> QED BY <4>2, FS_CardinalityType
    <3>3. count' \in [runs : Nat, attempts : Nat, crashes : Nat, stale : Nat]
      <4> DEFINE k == Cardinality(wave')
      <4>1. count' = [count EXCEPT !.attempts = @ + k] /\ k \in Nat
        BY <2>1, <3>2
      <4> HIDE DEF k
      <4> QED BY <4>1 DEF FlowTyped
    <3> QED BY <1>0, <2>1, <2>2, <2>5, <3>1, <3>3, NoneYet DEF FlowTyped
  <2>8. TornIsLast'
    BY <1>0, <2>5 DEF TornIsLast
  <2>9. NothingYet'
    <3>1. ASSUME NEW p \in FlowPhases, done'[p] = F!NotRun
          PROVE  gate[p] = "open" /\ p \notin paid /\ ~Approved(journal', p)
      <4>1. p \notin B /\ done[p] = F!NotRun
        BY <2>6, <3>1, ResultsTyped
      <4>2. gate[p] = "open" /\ p \notin paid /\ ~Approved(journal, p)
        BY <1>0, <4>1 DEF NothingYet, Running
      <4> QED BY <2>5, <4>1, <4>2 DEF Approved
    <3>2. \A p \in wave' : done'[p] = F!NotRun
      BY <2>1, <2>2, <2>6
    <3> QED BY <1>0, <2>1, <3>1, <3>2 DEF NothingYet
  <2>10. LateIsApart'
    <3>1. count'.runs = count.runs
      <4> DEFINE k == Cardinality(wave')
      <4>1. count' = [count EXCEPT !.attempts = @ + k]
        BY <2>1
      <4> HIDE DEF k
      <4> QED BY <4>1 DEF FlowTyped
    <3> QED BY <1>0, <3>1, PastStaysApart
  <2>11. ResultsFit'
    <3> SUFFICES ASSUME NEW p \in FlowPhases
                 PROVE  /\ done'[p].ok => done'[p].how = "none"
                        /\ done'[p].how # "none" => ~done'[p].lost
                        /\ ~done'[p].ok /\ done'[p].how = "none" => done'[p] = F!NotRun
      BY <1>0 DEF ResultsFit
    <3>1. CASE p \in B
      BY <2>6, <3>1, ResultsTyped
    <3>2. CASE p \notin B
      BY <2>6, <3>2 DEF ResultsFit
    <3> QED BY <3>1, <3>2
  <2>12. ApprovedIsSeen'
    <3>1. ASSUME NEW p \in FlowPhases, F!Gated(p), Approved(journal', p)
          PROVE  F!Resumed(journal', p).out \in seen
      <4>1. F!Resumed(journal', p) = F!Resumed(journal, p)
        BY <2>5, <3>1 DEF Approved, Kept
      <4> QED BY <3>1, <4>1 DEF ApprovedIsSeen, Approved
    <3>2. ASSUME NEW p \in FlowPhases, gate[p] = "passed"
          PROVE  done'[p].ok /\ done'[p].out \in seen /\ Approved(journal', p)
      <4>1. done[p].ok /\ done[p].out \in seen /\ Approved(journal, p)
        BY <1>0, <3>2 DEF ApprovedIsSeen, Running
      <4>2. p \notin B
        BY <2>6, <4>1, ResultsTyped
      <4> QED BY <2>5, <2>6, <4>1, <4>2 DEF Approved
    <3> QED BY <1>0, <3>1, <3>2 DEF ApprovedIsSeen
  <2>13. NeedsPassed'
    <3>1. ASSUME NEW p \in FlowPhases, NEW n \in spec.needs[p], F!Gated(n), p \in wave' \/ done'[p].ok
          PROVE  gate[n] = "passed"
      <4>0. n \in FlowPhases
        BY FlowFacts
      <4>1. CASE p \in wave'
        <5>1. F!GateResolved(n) /\ ~F!Spoilt(n) /\ F!Has(n)
          BY <2>1, <2>2, <2>4, <4>1
        <5> QED BY <3>1, <4>0, <5>1 DEF F!GateResolved, F!Spoilt, FlowTyped
      <4>2. CASE done'[p].ok
        <5>1. done[p].ok
          BY <2>6, <4>2, ResultsTyped
        <5> QED BY <3>1, <4>0, <5>1 DEF NeedsPassed
      <4> QED BY <3>1, <4>1, <4>2
    <3>2. ASSUME NEW p \in FlowPhases, NEW n \in spec.needs[p], F!Gated(n), Kept(journal', p)
          PROVE  Approved(journal', n)
      <4>0. n \in FlowPhases
        BY FlowFacts
      <4>1. Approved(journal, n)
        BY <2>5, <3>2 DEF NeedsPassed, Kept
      <4> QED BY <2>5, <2>6, <4>0, <4>1 DEF Approved
    <3>3. ASSUME NEW p \in wave', NEW n \in spec.needs[p]
          PROVE  done'[n].ok /\ ~done'[n].lost
      <4>1. n \in FlowPhases /\ F!Has(n) /\ ~F!Spoilt(n)
        BY <2>1, <2>2, <2>4, FlowFacts
      <4> QED BY <2>6, <4>1 DEF F!Spoilt
    <3> QED BY <1>0, <3>1, <3>2, <3>3, FlowFacts DEF NeedsPassed
  <2>14. PaidLasts'
    <3>1. ASSUME NEW p \in paid PROVE p \in FlowPhases /\ F!Resumed(journal', p) = F!Resumed(journal, p)
      BY <2>5, <2>6 DEF FlowTyped
    <3> QED BY <1>0, <3>1 DEF PaidLasts, Kept, Approved
  <2>15. UndecidedIsDue'
    <3>1. ASSUME NEW p \in FlowPhases, F!Gated(p), done'[p].ok, gate[p] = "open"
          PROVE  done'[p].lost
      <4>1. p \notin B
        BY <2>6, <3>1, ResultsTyped
      <4>2. done'[p] = done[p]
        BY <2>6, <4>1
      <4> QED BY <1>0, <3>1, <4>2 DEF UndecidedIsDue, Running
    <3> QED BY <1>0, <3>1 DEF UndecidedIsDue
  <2>16. HeldUp'
    <3> SUFFICES ASSUME NEW p \in FlowPhases, done'[p].how = "blocked"
                 PROVE  \E n \in spec.needs[p] : F!Has(n)' /\ F!Spoilt(n)'
      BY <1>0, <2>1 DEF HeldUp
    <3>1. PICK n \in spec.needs[p] : F!Has(n) /\ F!Spoilt(n)
      <4>1. CASE p \in B
        BY <2>2, <4>1 DEF F!Blocked, B
      <4>2. CASE p \notin B
        BY <2>6, <4>2 DEF HeldUp
      <4> QED BY <4>1, <4>2
    <3>2. n \in FlowPhases /\ done'[n] = done[n]
      BY <2>6, <3>1, FlowFacts
    <3> QED BY <1>0, <3>1, <3>2 DEF F!Has, F!Spoilt
  <2> QED BY <2>7, <2>8, <2>9, <2>10, <2>11, <2>12, <2>13, <2>14, <2>15, <2>16
<1> QED BY <1>1, <1>2

\* What an attempt comes to.
LEMMA OutcomesTyped ==
  ASSUME NEW o \in Int, NEW r \in F!Outcomes(o)
  PROVE  /\ r \in FlowResults /\ r # F!NotRun /\ r.ok \in BOOLEAN /\ r.how \in {"none", "failed"}
         /\ r.ok => r.how = "none"
         /\ r.how # "none" => ~r.lost
         /\ ~r.ok => r.how = "failed"
<1>1. CASE r = F!Result(FALSE, 0, FALSE, "failed")
  BY <1>1, ResultsTyped
<1>2. CASE r = F!Result(TRUE, o, FALSE, "none")
  BY <1>2, ResultsTyped
<1>3. CASE r = F!Result(TRUE, o, TRUE, "none")
  BY <1>3, ResultsTyped
<1> QED BY <1>1, <1>2, <1>3 DEF F!Outcomes

LEMMA LinesTyped ==
  ASSUME NEW Q, NEW p \in Q, NEW r \in FlowResults
  PROVE  /\ LET e == F!Line(p, r, FALSE) IN
              e \in LinesOf(Q) /\ e.phase = p /\ e.ok = r.ok /\ e.out = r.out /\ ~e.approved
         /\ LET e == F!Line(p, r, TRUE) IN
              e \in LinesOf(Q) /\ e.phase = p /\ e.ok = r.ok /\ e.out = r.out /\ e.approved
BY DEF F!Line, LinesOf, FlowResults

\* Work that was not approved leaves its line.
LEMMA AttemptWritten ==
  ASSUME NEW Q, "torn" \notin Q, NEW j \in Seq(LinesOf(Q)), TornLast(j), NEW p \in Q,
         NEW r \in FlowResults, ~Approved(j, p)
  PROVE  LET w == F!Written(j, F!Line(p, r, FALSE)) IN
         /\ w \in Seq(LinesOf(Q)) /\ TornLast(w) /\ F!Reads(w)
         /\ \A q \in Q : q # p => F!Resumed(w, q) = F!Resumed(j, q)
         /\ ~Approved(w, p)
         /\ r.ok /\ (F!Reads(j) \/ Kept(j, p)) => Kept(w, p)
<1> DEFINE e == F!Line(p, r, FALSE)
<1>1. e \in LinesOf(Q) /\ e.phase = p /\ e.ok = r.ok /\ ~e.approved
  BY LinesTyped
<1> HIDE DEF e
<1> DEFINE w == F!Written(j, e)
<1>2. /\ w \in Seq(LinesOf(Q)) /\ TornLast(w) /\ F!Reads(w)
      /\ \A q \in Q : q # e.phase => F!Resumed(w, q) = F!Resumed(j, q)
  BY <1>1, LineWritten
<1>3. CASE r.ok
  <2>1. /\ Kept(j, e.phase) => Kept(w, e.phase)
        /\ F!Reads(j) => Kept(w, e.phase)
        /\ Approved(w, e.phase) => Approved(j, e.phase) \/ (F!Reads(j) /\ e.approved)
    BY <1>1, <1>3, SuccessWritten
  <2> QED BY <1>1, <1>2, <2>1 DEF e
<1>4. CASE ~r.ok
  <2>1. ~Kept(w, e.phase) \/ F!Resumed(w, e.phase) = F!Resumed(j, e.phase)
    BY <1>1, <1>4, FailureWritten
  <2>2. ~Approved(w, p)
    BY <1>1, <2>1 DEF Approved, Kept
  <2> QED BY <1>1, <1>2, <1>4, <2>2 DEF e
<1> QED BY <1>3, <1>4

\* A phase ends.
LEMMA PhaseEndsKeeps ==
  ASSUME FlowInv, NEW p \in F!Phases, F!PhaseEnds(p)
  PROVE  FlowInv'
<1> USE DEF FlowInv
<1>0. /\ FlowPhases' = FlowPhases /\ life = "wave" /\ life' = "wave" /\ F!Phases = FlowPhases /\ p \in wave \ F!ToSet(got)
      /\ late' = late /\ LateIsPast /\ gate' = gate /\ spec' = spec /\ seen' = seen /\ wave' = wave /\ count' = count
      /\ aborted' = aborted /\ got' = Append(got, p) /\ p \in FlowPhases
      /\ \A q \in FlowPhases : F!Gated(q)' = F!Gated(q)
  BY LateWhileRunning DEF F!PhaseEnds, FlowPhases, F!Phases, F!Gated
<1>1. PICK r \in F!Outcomes(F!Nth(p)) :
        /\ done' = [done EXCEPT ![p] = r]
        /\ journal' = F!Written(journal, F!Line(p, r, FALSE))
        /\ paid' = IF F!Lasts(journal, p, r, FALSE) THEN paid \cup {p} ELSE paid
  BY DEF F!PhaseEnds
<1>2. /\ r \in FlowResults /\ r # F!NotRun /\ r.ok \in BOOLEAN /\ r.how \in {"none", "failed"}
      /\ r.ok => r.how = "none"
      /\ r.how # "none" => ~r.lost
      /\ ~r.ok => r.how = "failed"
  BY NthTyped, OutcomesTyped
<1>3. Running /\ done[p] = F!NotRun /\ gate[p] = "open" /\ p \notin paid /\ ~Approved(journal, p) /\ ~done[p].ok
  BY <1>0, ResultsTyped DEF NothingYet, Running
<1>4. done'[p] = r /\ \A q \in FlowPhases : q # p => done'[q] = done[q]
  BY <1>0, <1>1 DEF FlowTyped
<1>5. /\ journal' \in Seq(LinesOf(FlowPhases)) /\ TornLast(journal') /\ F!Reads(journal')
      /\ \A q \in FlowPhases : q # p => F!Resumed(journal', q) = F!Resumed(journal, q)
      /\ ~Approved(journal', p)
      /\ r.ok /\ F!Reads(journal) => Kept(journal', p)
  <2>1. journal \in Seq(LinesOf(FlowPhases)) /\ TornLast(journal) /\ "torn" \notin FlowPhases
    BY FlowFacts DEF FlowTyped, TornIsLast
  <2> DEFINE w == F!Written(journal, F!Line(p, r, FALSE))
  <2>2. /\ w \in Seq(LinesOf(FlowPhases)) /\ TornLast(w) /\ F!Reads(w)
        /\ \A q \in FlowPhases : q # p => F!Resumed(w, q) = F!Resumed(journal, q)
        /\ ~Approved(w, p)
        /\ r.ok /\ (F!Reads(journal) \/ Kept(journal, p)) => Kept(w, p)
    <3>1. p \in FlowPhases /\ r \in FlowResults /\ ~Approved(journal, p)
      BY <1>0, <1>2, <1>3
    <3> QED BY ONLY <2>1, <3>1, AttemptWritten
  <2>3. journal' = w
    BY <1>1
  <2> HIDE DEF w
  <2> QED BY <2>2, <2>3
<1>6. F!ToSet(got') = F!ToSet(got) \cup {p}
  <2>1. got \in Seq(FlowPhases) /\ p \in FlowPhases /\ got' = Append(got, p)
    BY <1>0 DEF FlowTyped
  <2>2. Len(got') = Len(got) + 1 /\ Len(got) \in Nat /\ got'[Len(got) + 1] = p /\ \A i \in 1..Len(got) : got'[i] = got[i]
    BY <2>1
  <2>3. DOMAIN got = 1..Len(got) /\ DOMAIN got' = 1..(Len(got) + 1)
    BY <2>1, <2>2
  <2>4. 1..(Len(got) + 1) = (1..Len(got)) \cup {Len(got) + 1}
    BY <2>2
  <2> QED BY <2>2, <2>3, <2>4 DEF F!ToSet
<1>7. \A q \in FlowPhases : Approved(journal', q) <=> Approved(journal, q)
  BY <1>3, <1>5 DEF Approved
<1>8. p \in paid' => r.ok /\ F!Reads(journal) /\ ~F!Gated(p)
  BY <1>1, <1>3 DEF F!Lasts
<1>9. FlowTyped'
  <2>1. done' \in [FlowPhases -> FlowResults]
    BY <1>0, <1>1, <1>2 DEF FlowTyped
  <2>2. got \in Seq(FlowPhases) /\ p \in FlowPhases /\ paid \in SUBSET FlowPhases
    BY <1>0 DEF FlowTyped
  <2>3. Append(got, p) \in Seq(FlowPhases)
    BY <2>2
  <2>4. paid' \in SUBSET FlowPhases
    BY <1>1, <2>2
  <2> QED BY <1>0, <1>5, <2>1, <2>3, <2>4 DEF FlowTyped
<1>10. TornIsLast'
  BY <1>5 DEF TornIsLast
<1>11. NothingYet'
  <2>1. ASSUME NEW q \in FlowPhases, done'[q] = F!NotRun
        PROVE  gate[q] = "open" /\ q \notin paid' /\ ~Approved(journal', q)
    <3>1. q # p /\ done[q] = F!NotRun
      BY <1>2, <1>4, <2>1
    <3> QED BY <1>1, <1>3, <1>7, <3>1 DEF NothingYet
  <2>2. \A q \in wave \ F!ToSet(got') : q \in FlowPhases /\ done'[q] = F!NotRun
    BY <1>4, <1>6 DEF NothingYet, FlowTyped
  <2> QED BY <1>0, <2>1, <2>2 DEF NothingYet
<1>12. LateIsApart'
  BY <1>0 DEF LateIsApart
<1>13. ResultsFit'
  <2> SUFFICES ASSUME NEW q \in FlowPhases
               PROVE  /\ done'[q].ok => done'[q].how = "none"
                      /\ done'[q].how # "none" => ~done'[q].lost
                      /\ ~done'[q].ok /\ done'[q].how = "none" => done'[q] = F!NotRun
    BY <1>0 DEF ResultsFit
  <2>1. CASE q = p
    BY <1>2, <1>4, <2>1
  <2>2. CASE q # p
    BY <1>4, <2>2 DEF ResultsFit
  <2> QED BY <2>1, <2>2
<1>14. ApprovedIsSeen'
  <2>1. ASSUME NEW q \in FlowPhases, Approved(journal', q)
        PROVE  F!Resumed(journal', q) = F!Resumed(journal, q)
    BY <1>5, <2>1
  <2>2. \A q \in FlowPhases : gate[q] = "passed" => q # p /\ done'[q] = done[q]
    BY <1>3, <1>4
  <2> QED BY <1>0, <1>3, <1>7, <2>1, <2>2 DEF ApprovedIsSeen, Running
<1>15. NeedsPassed'
  <2>1. ASSUME NEW q \in FlowPhases, NEW n \in spec.needs[q], F!Gated(n)
        PROVE  /\ q \in wave \/ done'[q].ok => gate[n] = "passed"
               /\ Kept(journal', q) => Approved(journal', n)
    <3>0. n \in FlowPhases
      BY FlowFacts
    <3>1. CASE q = p
      <4>1. gate[n] = "passed"
        BY <1>0, <2>1, <3>1 DEF NeedsPassed
      <4>2. Approved(journal, n)
        BY <1>3, <3>0, <4>1 DEF ApprovedIsSeen
      <4> QED BY <1>7, <3>0, <4>1, <4>2
    <3>2. CASE q # p
      <4>1. Kept(journal', q) => Kept(journal, q)
        BY <1>5, <3>2 DEF Kept
      <4> QED BY <1>4, <1>7, <2>1, <3>0, <3>2, <4>1 DEF NeedsPassed
    <3> QED BY <3>1, <3>2
  <2>2. ASSUME NEW q \in wave, NEW n \in spec.needs[q]
        PROVE  done'[n].ok /\ ~done'[n].lost
    <3>1. n \in FlowPhases /\ done[n].ok /\ ~done[n].lost
      BY FlowFacts DEF NeedsPassed, FlowTyped
    <3> QED BY <1>3, <1>4, <3>1
  <2> QED BY <1>0, <2>1, <2>2, FlowFacts DEF NeedsPassed
<1>16. PaidLasts'
  <2> SUFFICES ASSUME NEW q \in paid' PROVE Kept(journal', q) /\ (F!Gated(q) => Approved(journal', q)) /\ q \in FlowPhases
    BY <1>0 DEF PaidLasts
  <2>1. CASE q = p
    BY <1>0, <1>5, <1>8, <2>1
  <2>2. CASE q # p
    <3>1. q \in paid /\ q \in FlowPhases
      BY <1>1, <2>2 DEF FlowTyped
    <3> QED BY <1>5, <2>2, <3>1 DEF PaidLasts, Kept, Approved
  <2> QED BY <2>1, <2>2
<1>17. UndecidedIsDue'
  <2>1. ASSUME NEW q \in FlowPhases, F!Gated(q), done'[q].ok, gate[q] = "open"
        PROVE  done'[q].lost \/ q \in F!ToSet(got')
    <3>1. CASE q = p
      BY <1>6, <3>1
    <3>2. CASE q # p
      BY <1>3, <1>4, <1>6, <2>1, <3>2 DEF UndecidedIsDue
    <3> QED BY <3>1, <3>2
  <2> QED BY <1>0, <2>1 DEF UndecidedIsDue
<1>18. HeldUp'
  <2> SUFFICES ASSUME NEW q \in FlowPhases, done'[q].how = "blocked"
               PROVE  \E n \in spec.needs[q] : F!Has(n)' /\ F!Spoilt(n)'
    BY <1>0 DEF HeldUp
  <2>1. done[q].how = "blocked"
    BY <1>2, <1>4
  <2>2. PICK n \in spec.needs[q] : F!Has(n) /\ F!Spoilt(n)
    BY <2>1 DEF HeldUp
  <2>3. n \in FlowPhases /\ done'[n] = done[n]
    BY <1>3, <1>4, <2>2, FlowFacts DEF F!Has
  <2> QED BY <1>0, <2>2, <2>3 DEF F!Has, F!Spoilt
<1> QED BY <1>9, <1>10, <1>11, <1>12, <1>13, <1>14, <1>15, <1>16, <1>17, <1>18

\* Work that was given up ends.
LEMMA LateEndsKeeps ==
  ASSUME FlowInv, NEW a \in late, a.run = count.runs, F!LateEnds(a)
  PROVE  FlowInv'
<1> USE DEF FlowInv
<1> DEFINE p == a.phase
<1>0. /\ FlowPhases' = FlowPhases /\ life = "over" /\ life' = "over" /\ late' = late \ {a} /\ p \in FlowPhases /\ a.out \in Int
      /\ gate' = gate /\ done' = done /\ spec' = spec /\ seen' = seen /\ wave' = wave /\ count' = count
      /\ aborted' = aborted /\ got' = got /\ ~Approved(journal, p) /\ ~done[p].ok
      /\ \A q \in FlowPhases : F!Gated(q)' = F!Gated(q)
  BY DEF F!LateEnds, F!runVars, FlowPhases, F!Gated, LateIsApart, FlowTyped
<1>1. PICK r \in F!Outcomes(a.out) :
        /\ journal' = IF r.ok THEN F!Written(journal, F!Line(p, r, FALSE)) ELSE journal
        /\ paid' = IF F!Lasts(journal, p, r, FALSE) THEN paid \cup {p} ELSE paid
  BY DEF F!LateEnds
<1>2. r \in FlowResults /\ r.ok \in BOOLEAN
  BY <1>0, OutcomesTyped
<1>3. \A n \in spec.needs[p] : F!Gated(n) => Approved(journal, n)
  BY DEF LateIsApart
<1> HIDE DEF p
<1>4. /\ journal' \in Seq(LinesOf(FlowPhases)) /\ TornLast(journal')
      /\ \A q \in FlowPhases : q # p => F!Resumed(journal', q) = F!Resumed(journal, q)
      /\ ~Approved(journal', p)
      /\ Kept(journal, p) => Kept(journal', p)
      /\ r.ok /\ F!Reads(journal) => Kept(journal', p)
  <2>1. journal \in Seq(LinesOf(FlowPhases)) /\ TornLast(journal) /\ "torn" \notin FlowPhases
    BY FlowFacts DEF FlowTyped, TornIsLast
  <2>2. CASE r.ok
    <3> DEFINE w == F!Written(journal, F!Line(p, r, FALSE))
    <3>1. /\ w \in Seq(LinesOf(FlowPhases)) /\ TornLast(w) /\ F!Reads(w)
          /\ \A q \in FlowPhases : q # p => F!Resumed(w, q) = F!Resumed(journal, q)
          /\ ~Approved(w, p)
          /\ r.ok /\ (F!Reads(journal) \/ Kept(journal, p)) => Kept(w, p)
      <4>1. p \in FlowPhases /\ r \in FlowResults /\ ~Approved(journal, p)
        BY <1>0, <1>2
      <4> QED BY ONLY <2>1, <4>1, AttemptWritten
    <3>2. journal' = w
      BY <1>1, <2>2
    <3> HIDE DEF w
    <3> QED BY <2>2, <3>1, <3>2
  <2>3. CASE ~r.ok
    BY <1>0, <1>1, <2>1, <2>3
  <2> QED BY <2>2, <2>3
<1>5. \A q \in FlowPhases : Approved(journal', q) <=> Approved(journal, q)
  BY <1>0, <1>4 DEF Approved
<1>6. FlowTyped'
  <2>1. paid' \in SUBSET FlowPhases
    BY <1>0, <1>1 DEF FlowTyped
  <2> QED BY <1>0, <1>4, <2>1 DEF FlowTyped
<1>7. TornIsLast' /\ NothingYet' /\ ResultsFit' /\ UndecidedIsDue' /\ HeldUp'
  <2>1. wave = {}
    BY <1>0 DEF NothingYet
  <2>2. F!Ready' = F!Ready
    BY <1>0 DEF F!Ready, F!Waiting, F!Has, F!GateResolved, F!Gated, F!Phases
  <2>3. TornIsLast'
    BY <1>0, <1>4 DEF TornIsLast
  <2>4. NothingYet'
    BY <1>0, <2>1 DEF NothingYet, Running
  <2>5. ResultsFit'
    BY <1>0 DEF ResultsFit
  <2>6. UndecidedIsDue'
    BY <1>0 DEF UndecidedIsDue, Running
  <2>7. HeldUp'
    BY <1>0, <2>2 DEF HeldUp, F!Has, F!Spoilt
  <2> QED BY <2>3, <2>4, <2>5, <2>6, <2>7
<1>8. LateIsApart'
  <2>1. ASSUME NEW b \in late
        PROVE  /\ b.phase \in FlowPhases /\ b.run <= count.runs
               /\ b.run = count.runs => ~Approved(journal', b.phase) /\ ~done[b.phase].ok
               /\ \A n \in spec.needs[b.phase] : n \in FlowPhases /\ (b.run = count.runs /\ F!Gated(n) => Approved(journal', n))
    <3>1. b.phase \in FlowPhases
      BY DEF FlowTyped
    <3>2. \A n \in spec.needs[b.phase] : n \in FlowPhases
      BY <3>1, FlowFacts
    <3> QED BY <1>5, <3>1, <3>2 DEF LateIsApart
  <2> QED BY <1>0, <2>1 DEF LateIsApart
<1>9. ApprovedIsSeen'
  <2>1. \A q \in FlowPhases : Approved(journal', q) => F!Resumed(journal', q) = F!Resumed(journal, q)
    BY <1>4
  <2> QED BY <1>0, <1>5, <2>1 DEF ApprovedIsSeen, Running
<1>10. NeedsPassed'
  <2>1. ASSUME NEW q \in FlowPhases, NEW n \in spec.needs[q], F!Gated(n), Kept(journal', q)
        PROVE  Approved(journal', n)
    <3>1. Approved(journal, n)
      <4>1. CASE q = p
        BY <1>3, <2>1, <4>1
      <4>2. CASE q # p
        BY <1>4, <2>1, <4>2 DEF NeedsPassed, Kept
      <4> QED BY <4>1, <4>2
    <3> QED BY <1>5, <3>1, FlowFacts
  <2> QED BY <1>0, <2>1, FlowFacts DEF NeedsPassed
<1>11. PaidLasts'
  <2> SUFFICES ASSUME NEW q \in paid' PROVE Kept(journal', q) /\ (F!Gated(q) => Approved(journal', q)) /\ q \in FlowPhases
    BY <1>0 DEF PaidLasts
  <2>1. q \in FlowPhases
    BY <1>0, <1>6 DEF FlowTyped
  <2>2. CASE q \in paid
    BY <1>4, <1>5, <2>1, <2>2 DEF PaidLasts, Kept
  <2>3. CASE q \notin paid
    <3>1. q = p /\ r.ok /\ F!Reads(journal) /\ ~F!Gated(p)
      BY <1>1, <2>3 DEF F!Lasts
    <3> QED BY <1>4, <2>1, <3>1
  <2> QED BY <2>2, <2>3
<1> QED BY <1>6, <1>7, <1>8, <1>9, <1>10, <1>11

\* An attempt of an earlier run fails: nothing but itself is gone.
LEMMA StaleFailureKeeps ==
  ASSUME FlowInv, NEW a \in late, a.run # count.runs, F!LateEnds(a), count.stale = 0, count'.stale = 0
  PROVE  FlowInv'
<1>1. PICK r \in F!Outcomes(a.out) :
        /\ journal' = IF r.ok THEN F!Written(journal, F!Line(a.phase, r, FALSE)) ELSE journal
        /\ paid' = IF F!Lasts(journal, a.phase, r, FALSE) THEN paid \cup {a.phase} ELSE paid
        /\ count' = IF r.ok /\ a.run # count.runs THEN [count EXCEPT !.stale = @ + 1] ELSE count
  BY DEF F!LateEnds
<1>2. ~r.ok
  <2>1. r.ok => count' = [count EXCEPT !.stale = @ + 1]
    BY <1>1
  <2>2. count \in [runs : Nat, attempts : Nat, crashes : Nat, stale : Nat]
    BY DEF FlowInv, FlowTyped
  <2> QED BY <2>1, <2>2
<1>3. /\ journal' = journal /\ paid' = paid /\ count' = count /\ late' = late \ {a} /\ spec' = spec /\ seen' = seen
      /\ life' = life /\ done' = done /\ gate' = gate /\ wave' = wave /\ got' = got /\ aborted' = aborted
  BY <1>1, <1>2 DEF F!LateEnds, F!runVars, F!Lasts
<1> HIDE DEF F!LateEnds
<1> USE <1>3 DEF FlowInv, FlowPhases
<1>4. FlowTyped' /\ TornIsLast' /\ ResultsFit'
  BY DEF FlowTyped, TornIsLast, ResultsFit
<1>5. NothingYet' /\ LateIsApart'
  BY DEF NothingYet, LateIsApart, Running, Approved, F!Gated
<1>6. ApprovedIsSeen' /\ NeedsPassed' /\ PaidLasts'
  BY DEF ApprovedIsSeen, NeedsPassed, PaidLasts, Running, Approved, Kept, F!Gated
<1>7. UndecidedIsDue' /\ HeldUp'
  BY DEF UndecidedIsDue, HeldUp, Running, F!Ready, F!Waiting, F!Has, F!GateResolved, F!Spoilt, F!Gated, F!Phases
<1> QED BY <1>4, <1>5, <1>6, <1>7

\* A set of numbers below a bound has a least one.
LEMMA LeastOf ==
  ASSUME NEW n \in Nat, NEW E \in SUBSET (1..n), E # {}
  PROVE  F!Min(E) \in E /\ \A y \in E : F!Min(E) <= y
<1> DEFINE Less == OpToRel(<, Nat)
<1>1. E \subseteq Nat /\ IsWellFoundedOn(Less, Nat)
  <2>1. E \subseteq Nat
    OBVIOUS
  <2> QED BY <2>1, NatLessThanWellFounded
<1>2. \A x, y \in Nat : y < x => <<y, x>> \in Less
  BY DEF OpToRel
<1> HIDE DEF Less
<1>3. PICK m \in E : \A y \in E : <<y, m>> \notin Less
  BY <1>1, WFMin
<1>4. \A y \in E : m <= y
  <2> SUFFICES ASSUME NEW y \in E, y < m PROVE FALSE
    BY <1>1
  <2> QED BY <1>1, <1>2, <1>3
<1> QED BY <1>4 DEF F!Min

\* The operator decides.
LEMMA DecidesKeeps ==
  ASSUME FlowInv, NEW yes \in BOOLEAN, F!Decides(yes)
  PROVE  FlowInv'
<1> USE DEF FlowInv
<1> DEFINE p == got[F!Min(F!Due)]
<1>0. /\ FlowPhases' = FlowPhases /\ life = "gates" /\ life' = "gates" /\ late' = late /\ LateIsPast /\ wave = {} /\ wave' = {}
      /\ done' = done /\ spec' = spec /\ count' = count /\ aborted' = aborted /\ got' = got
      /\ \A q \in FlowPhases : F!Gated(q)' = F!Gated(q)
  BY LateWhileRunning DEF F!Decides, FlowPhases, F!Gated, NothingYet
<1>1. /\ gate' = [gate EXCEPT ![p] = IF yes THEN "passed" ELSE "rejected"]
      /\ journal' = IF yes THEN F!Written(journal, F!Line(p, done[p], TRUE)) ELSE journal
      /\ seen' = IF yes THEN seen \cup {done[p].out} ELSE seen
      /\ paid' = IF yes /\ F!Lasts(journal, p, done[p], TRUE) THEN paid \cup {p} ELSE paid
  BY DEF F!Decides
<1>2. p \in FlowPhases /\ F!Gated(p) /\ done[p].ok /\ gate[p] = "open" /\ got # <<>>
  <2>0. got \in Seq(FlowPhases)
    BY DEF FlowTyped
  <2>1. F!Due \in SUBSET (1..Len(got)) /\ F!Due # {} /\ Len(got) \in Nat
    <3>1. DOMAIN got = 1..Len(got) /\ Len(got) \in Nat
      BY <2>0
    <3>2. F!Due # {}
      BY DEF F!Decides
    <3>3. F!Due \subseteq DOMAIN got
      BY DEF F!Due
    <3> QED BY <3>1, <3>2, <3>3
  <2>2. F!Min(F!Due) \in F!Due
    BY <2>1, LeastOf
  <2> QED BY <2>1, <2>2 DEF F!Due, FlowTyped
<1> HIDE DEF p
<1>3. gate'[p] = (IF yes THEN "passed" ELSE "rejected") /\ \A q \in FlowPhases : q # p => gate'[q] = gate[q]
  BY <1>1, <1>2 DEF FlowTyped
<1>4. /\ journal' \in Seq(LinesOf(FlowPhases)) /\ TornLast(journal') /\ F!Reads(journal')
      /\ \A q \in FlowPhases : q # p => F!Resumed(journal', q) = F!Resumed(journal, q)
      /\ yes => Kept(journal', p) /\ Approved(journal', p) /\ F!Resumed(journal', p).out = done[p].out
      /\ ~yes => journal' = journal
  <2>1. journal \in Seq(LinesOf(FlowPhases)) /\ TornLast(journal) /\ "torn" \notin FlowPhases /\ F!Reads(journal)
    BY <1>0, <1>2, FlowFacts DEF FlowTyped, TornIsLast
  <2>2. CASE yes
    <3> DEFINE e == F!Line(p, done[p], TRUE)
    <3>1. e \in LinesOf(FlowPhases) /\ e.phase = p /\ e.ok /\ e.out = done[p].out /\ e.approved
      <4> DEFINE d == done[p]
      <4>1. p \in FlowPhases /\ d \in FlowResults /\ d.ok
        BY <1>2 DEF FlowTyped
      <4> HIDE DEF d
      <4>2. LET g == F!Line(p, d, TRUE) IN
            g \in LinesOf(FlowPhases) /\ g.phase = p /\ g.ok = d.ok /\ g.out = d.out /\ g.approved
        BY <4>1, LinesTyped
      <4> QED BY <4>1, <4>2 DEF d
    <3> HIDE DEF e
    <3> DEFINE w == F!Written(journal, e)
    <3>2. /\ w \in Seq(LinesOf(FlowPhases)) /\ TornLast(w) /\ F!Reads(w)
          /\ \A q \in FlowPhases : q # e.phase => F!Resumed(w, q) = F!Resumed(journal, q)
      BY <1>2, <2>1, <3>1, LineWritten
    <3>3. /\ F!Reads(journal) => Kept(w, e.phase) /\ F!Resumed(w, e.phase).out = e.out
          /\ F!Reads(journal) /\ e.approved => Approved(w, e.phase)
      BY <1>2, <2>1, <3>1, SuccessWritten
    <3>4. journal' = w
      BY <1>1, <2>2 DEF e
    <3> HIDE DEF w
    <3> QED BY <2>1, <2>2, <3>1, <3>2, <3>3, <3>4
  <2>3. CASE ~yes
    BY <1>1, <2>1, <2>3
  <2> QED BY <2>2, <2>3
<1>5. \A q \in FlowPhases : Approved(journal, q) => Approved(journal', q)
  BY <1>4 DEF Approved
<1>6. Running
  BY <1>0 DEF Running
<1>7. FlowTyped'
  <2>1. gate' \in [FlowPhases -> {"open", "passed", "rejected"}]
    BY <1>1, <1>2 DEF FlowTyped
  <2>2. paid' \in SUBSET FlowPhases
    BY <1>1, <1>2 DEF FlowTyped
  <2> QED BY <1>0, <1>4, <2>1, <2>2 DEF FlowTyped
<1>8. TornIsLast'
  BY <1>4 DEF TornIsLast
<1>9. NothingYet'
  <2>1. ASSUME NEW q \in FlowPhases, done[q] = F!NotRun
        PROVE  gate'[q] = "open" /\ q \notin paid' /\ ~Approved(journal', q)
    <3>1. q # p
      BY <1>2, <2>1, ResultsTyped
    <3>2. gate[q] = "open" /\ q \notin paid /\ ~Approved(journal, q)
      BY <1>6, <2>1 DEF NothingYet
    <3> QED BY <1>1, <1>3, <1>4, <3>1, <3>2 DEF Approved
  <2> QED BY <1>0, <2>1 DEF NothingYet
<1>10. LateIsApart'
  BY <1>0 DEF LateIsApart
<1>11. ResultsFit'
  BY <1>0 DEF ResultsFit
<1>12. ApprovedIsSeen'
  <2>1. ASSUME NEW q \in FlowPhases, F!Gated(q), Approved(journal', q)
        PROVE  F!Resumed(journal', q).out \in seen'
    <3>1. CASE q = p /\ yes
      BY <1>1, <1>4, <3>1
    <3>2. CASE ~(q = p /\ yes)
      <4>1. F!Resumed(journal', q) = F!Resumed(journal, q)
        BY <1>4, <3>2
      <4>2. F!Resumed(journal, q).out \in seen
        BY <2>1, <4>1 DEF ApprovedIsSeen, Approved
      <4> QED BY <1>1, <4>1, <4>2
    <3> QED BY <3>1, <3>2
  <2>2. ASSUME NEW q \in FlowPhases, gate'[q] # "open"
        PROVE  F!Gated(q)
    BY <1>2, <1>3, <2>2 DEF ApprovedIsSeen
  <2>3. ASSUME NEW q \in FlowPhases, gate'[q] = "passed"
        PROVE  done[q].ok /\ done[q].out \in seen' /\ Approved(journal', q)
    <3>1. CASE q = p
      <4>1. yes
        BY <1>3, <2>3, <3>1
      <4> QED BY <1>1, <1>2, <1>4, <3>1, <4>1
    <3>2. CASE q # p
      BY <1>1, <1>3, <1>5, <1>6, <2>3, <3>2 DEF ApprovedIsSeen
    <3> QED BY <3>1, <3>2
  <2> QED BY <1>0, <2>1, <2>2, <2>3 DEF ApprovedIsSeen
<1>13. NeedsPassed'
  <2>1. ASSUME NEW q \in FlowPhases, NEW n \in spec.needs[q], F!Gated(n), done[q].ok
        PROVE  gate'[n] = "passed" /\ Approved(journal', n)
    <3>1. n \in FlowPhases /\ gate[n] = "passed"
      BY <2>1, FlowFacts DEF NeedsPassed
    <3> QED BY <1>2, <1>3, <1>5, <1>6, <3>1 DEF ApprovedIsSeen
  <2>2. ASSUME NEW q \in FlowPhases, NEW n \in spec.needs[q], F!Gated(n), Kept(journal', q)
        PROVE  Approved(journal', n)
    <3>1. CASE q = p
      BY <1>2, <2>1, <2>2, <3>1
    <3>2. CASE q # p
      <4>1. Kept(journal, q)
        BY <1>4, <2>2, <3>2 DEF Kept
      <4> QED BY <1>5, <2>2, <4>1, FlowFacts DEF NeedsPassed
    <3> QED BY <3>1, <3>2
  <2> QED BY <1>0, <2>1, <2>2, FlowFacts DEF NeedsPassed
<1>14. PaidLasts'
  <2> SUFFICES ASSUME NEW q \in paid' PROVE Kept(journal', q) /\ (F!Gated(q) => Approved(journal', q)) /\ q \in FlowPhases
    BY <1>0 DEF PaidLasts
  <2>1. CASE q = p /\ yes
    BY <1>2, <1>4, <2>1
  <2>2. CASE ~(q = p /\ yes)
    <3>1. q \in paid /\ q \in FlowPhases /\ F!Resumed(journal', q) = F!Resumed(journal, q)
      BY <1>1, <1>4, <2>2 DEF FlowTyped
    <3> QED BY <3>1 DEF PaidLasts, Kept, Approved
  <2> QED BY <2>1, <2>2
<1>15. UndecidedIsDue'
  <2>1. ASSUME NEW q \in FlowPhases, F!Gated(q), done[q].ok, gate'[q] = "open"
        PROVE  done[q].lost \/ q \in F!ToSet(got)
    BY <1>3, <1>6, <2>1 DEF UndecidedIsDue
  <2> QED BY <1>0, <2>1 DEF UndecidedIsDue
<1>16. HeldUp'
  <2> SUFFICES ASSUME NEW q \in FlowPhases, done[q].how = "blocked"
               PROVE  \E n \in spec.needs[q] : F!Has(n)' /\ F!Spoilt(n)'
    BY <1>0 DEF HeldUp
  <2>1. PICK n \in spec.needs[q] : F!Has(n) /\ F!Spoilt(n)
    BY DEF HeldUp
  <2>2. n \in FlowPhases
    BY FlowFacts
  <2>3. CASE n = p
    BY <1>0, <1>2, <2>1, <2>3 DEF F!Has, F!Spoilt
  <2>4. CASE n # p
    BY <1>0, <1>3, <2>1, <2>2, <2>4 DEF F!Has, F!Spoilt
  <2> QED BY <2>3, <2>4
<1> QED BY <1>7, <1>8, <1>9, <1>10, <1>11, <1>12, <1>13, <1>14, <1>15, <1>16

\* A step of a flow, or none, that is no late success.
LEMMA FlowKeeps ==
  ASSUME FlowInv, [F!Next]_flowVars, F!NoLateSuccess, F!NoLateSuccess'
  PROVE  FlowInv'
<1>1. CASE F!StartRun
  BY <1>1, StartRunKeeps
<1>2. CASE F!Pass
  BY <1>2, PassKeeps
<1>3. CASE F!Stop
  BY <1>3, StopKeeps
<1>4. CASE F!WaveEnds
  BY <1>4, WaveEndsKeeps
<1>5. CASE F!GraceEnds
  BY <1>5, GraceEndsKeeps
<1>6. CASE F!GatesDone
  BY <1>6, GatesDoneKeeps
<1>7. CASE F!Clear
  BY <1>7, ClearKeeps
<1>8. CASE F!Crash
  BY <1>8, CrashKeeps
<1>9. CASE F!Forget
  BY <1>9, ForgetKeeps
<1>10. CASE \E p \in F!Phases : F!PhaseEnds(p)
  BY <1>10, PhaseEndsKeeps
<1>11. CASE \E a \in late : F!LateEnds(a)
  <2>1. PICK a \in late : F!LateEnds(a)
    BY <1>11
  <2>2. count.stale = 0 /\ count'.stale = 0
    BY DEF F!NoLateSuccess
  <2> QED BY <2>1, <2>2, LateEndsKeeps, StaleFailureKeeps
<1>12. CASE \E yes \in BOOLEAN : F!Decides(yes)
  BY <1>12, DecidesKeeps
<1>13. CASE UNCHANGED flowVars
  <2> USE <1>13 DEF flowVars, FlowInv, FlowPhases
  <2>1. FlowTyped' /\ TornIsLast' /\ ResultsFit'
    BY DEF FlowTyped, TornIsLast, ResultsFit
  <2>2. NothingYet' /\ LateIsApart'
    BY DEF NothingYet, LateIsApart, Running, Approved, F!Gated
  <2>3. ApprovedIsSeen' /\ NeedsPassed' /\ PaidLasts'
    BY DEF ApprovedIsSeen, NeedsPassed, PaidLasts, Running, Approved, Kept, F!Gated
  <2>4. UndecidedIsDue' /\ HeldUp'
    BY DEF UndecidedIsDue, HeldUp, Running, F!Ready, F!Waiting, F!Has, F!GateResolved, F!Spoilt, F!Gated, F!Phases
  <2> QED BY <2>1, <2>2, <2>3, <2>4
<1> QED BY <1>1, <1>2, <1>3, <1>4, <1>5, <1>6, <1>7, <1>8, <1>9, <1>10, <1>11, <1>12, <1>13 DEF F!Next

---------------------------------------------------------------------------
(* Theorems *)

\* Late successes are counted and never uncounted.
CountsStale == DOMAIN count = {"runs", "attempts", "crashes", "stale"} /\ count.stale \in Nat

LEMMA StaleStays ==
  ASSUME CountsStale, [F!Next]_flowVars
  PROVE  CountsStale' /\ (F!NoLateSuccess' => F!NoLateSuccess)
<1>1. \/ count' = count \/ count' = [count EXCEPT !.runs = @ + 1] \/ count' = [count EXCEPT !.attempts = @ + F!Cardinality(wave')]
      \/ count' = [count EXCEPT !.crashes = @ + 1] \/ count' = [count EXCEPT !.stale = @ + 1]
  BY DEF F!Next, F!StartRun, F!Pass, F!Stop, F!WaveEnds, F!GraceEnds, F!GatesDone, F!Clear, F!Crash, F!Forget,
     F!PhaseEnds, F!LateEnds, F!Decides, flowVars
<1>2. count'.stale = count.stale \/ count'.stale = count.stale + 1
  BY <1>1 DEF CountsStale
<1>3. DOMAIN count' = DOMAIN count
  BY <1>1
<1> QED BY <1>2, <1>3 DEF CountsStale, F!NoLateSuccess

\* Until a late success the invariant of a flow holds; of other parts no flow is under way.
FlowsHold ==
  /\ CountsStale
  /\ part = "flow" /\ F!NoLateSuccess => FlowInv
  /\ part # "flow" => wave = {}

\* The invariant of a flow holds, over stops, crashes, resumes and attempts that outlive their run, until
\* an attempt that an earlier run gave up succeeds (flow-run.ts, flow-journal.ts).
THEOREM FlowInvariant == Spec => []FlowsHold
<1>1. Init => FlowsHold
  <2> SUFFICES ASSUME Init PROVE FlowsHold
    OBVIOUS
  <2>1. CountsStale
    BY DEF Init, CountsStale, NoFlow, F!Init
  <2>2. part = "flow" => F!Init
    BY DEF Init
  <2>3. part # "flow" => wave = {}
    BY DEF Init, NoFlow
  <2> QED BY <2>1, <2>2, <2>3, FlowStarts DEF FlowsHold
<1>2. FlowsHold /\ [Next]_vars => FlowsHold'
  <2> SUFFICES ASSUME FlowsHold, [Next]_vars PROVE FlowsHold'
    OBVIOUS
  <2>0. CountsStale
    BY DEF FlowsHold
  <2>1. CASE InFlow(F!Next)
    <3>1. CountsStale' /\ (F!NoLateSuccess' => F!NoLateSuccess)
      BY <2>0, <2>1, StaleStays DEF InFlow
    <3>2. part = "flow" /\ part' = "flow" /\ F!Next
      BY <2>1 DEF InFlow
    <3> QED BY <3>1, <3>2, FlowKeeps DEF FlowsHold
  <2>2. CASE UNCHANGED <<part, flowVars>>
    <3>1. CountsStale' /\ (F!NoLateSuccess' => F!NoLateSuccess)
      BY <2>0, <2>2, StaleStays
    <3>2. part' = part /\ wave' = wave /\ [F!Next]_flowVars
      BY <2>2 DEF flowVars
    <3> QED BY <3>1, <3>2, FlowKeeps DEF FlowsHold
  <2>3. [Next]_vars => InFlow(F!Next) \/ UNCHANGED <<part, flowVars>>
    BY DEF Next, vars, InCouncil, InTurns, InCalls, InRuns, InCheckouts, InPersona, InRows, others
  <2> QED BY <2>1, <2>2, <2>3
<1> QED BY <1>1, <1>2, PTL DEF Spec

\* extension.ts:2127: a phase is set to work only on results that succeeded, can be read and, behind a
\* checkpoint, are the very outputs the operator approved; through stops, crashes, resumes, lost bodies and
\* attempts that outlive their run, as long as none of these succeeds within a later run.
THEOREM ApprovedUnlessLateHolds == Spec => []ApprovedUnlessLate
<1>1. FlowsHold => ApprovedUnlessLate
  <2>1. CASE part # "flow"
    BY <2>1 DEF FlowsHold, ApprovedUnlessLate, F!WorksOnApproved
  <2>2. CASE part = "flow"
    <3> SUFFICES ASSUME FlowInv, NEW p \in wave, NEW n \in spec.needs[p]
                 PROVE  done[n].ok /\ ~done[n].lost /\ (F!Gated(n) => done[n].out \in seen)
      BY <2>2 DEF FlowsHold, ApprovedUnlessLate, F!WorksOnApproved
    <3>1. p \in FlowPhases /\ n \in FlowPhases /\ Running
      BY FlowFacts DEF FlowInv, FlowTyped, NothingYet, Running
    <3> QED BY <3>1 DEF FlowInv, NeedsPassed, ApprovedIsSeen
  <2> QED BY <2>1, <2>2
<1> QED BY <1>1, FlowInvariant, PTL

\* flow-run.ts:305: no wave begins with a phase whose result a resume could use, in this run or in a later
\* one, as long as no attempt that an earlier run gave up has succeeded.
THEOREM PaidOnceHolds == Spec => PaidOnce
<1>1. FlowsHold /\ [Next]_vars => [F!NoLateSuccess' /\ wave' # wave => wave' \cap paid = {}]_F!vars
  <2> SUFFICES ASSUME FlowsHold, [Next]_vars, F!NoLateSuccess', wave' # wave PROVE wave' \cap paid = {}
    OBVIOUS
  <2>1. [Next]_vars => InFlow(F!Next) \/ UNCHANGED <<part, flowVars>>
    BY DEF Next, vars, InCouncil, InTurns, InCalls, InRuns, InCheckouts, InPersona, InRows, others
  <2>2. F!Next /\ part = "flow"
    BY <2>1 DEF InFlow, flowVars
  <2>3. FlowInv
    BY <2>2, StaleStays DEF FlowsHold
  <2>4. CASE F!Pass
    <3>1. life = "loop" /\ (wave' = {} \/ wave' \subseteq F!Ready)
      <4>1. wave = {}
        BY <2>3, <2>4 DEF F!Pass, FlowInv, NothingYet
      <4> QED BY <2>4, <4>1 DEF F!Pass
    <3>2. \A p \in F!Ready : p \in FlowPhases /\ done[p] = F!NotRun
      BY DEF F!Ready, F!Waiting, F!Has, F!Phases, FlowPhases
    <3> QED BY <2>3, <3>1, <3>2 DEF FlowInv, NothingYet, Running
  <2>5. CASE ~F!Pass
    <3>1. wave' = {}
      BY <2>2, <2>5 DEF F!Next, F!StartRun, F!Stop, F!WaveEnds, F!GraceEnds, F!GatesDone, F!Clear, F!Crash, F!Forget,
         F!PhaseEnds, F!LateEnds, F!Decides, F!runVars
    <3> QED BY <3>1
  <2> QED BY <2>4, <2>5
<1>2. Spec => []FlowsHold
  BY FlowInvariant
<1> QED BY <1>1, <1>2, PTL DEF Spec, PaidOnce, F!PaidOnce

\* Of phases that wait for one another, one waits for none of the others.
LEMMA FirstOf ==
  ASSUME FlowTyped, NEW Bad \in SUBSET FlowPhases, Bad # {}
  PROVE  \E p \in Bad : \A n \in spec.needs[p] : n \notin Bad
<1> DEFINE m == Cardinality(FlowPhases)
<1>1. m \in Nat
  BY FlowFacts, FS_CardinalityType
<1>2. PICK rank \in [FlowPhases -> 1..m] : \A p \in FlowPhases : \A n \in spec.needs[p] : rank[n] < rank[p]
  BY FlowsAreGraphs DEF FlowTyped, FlowPhases
<1> HIDE DEF m
<1> DEFINE E == {rank[p] : p \in Bad}
<1>3. E \in SUBSET (1..m) /\ E # {}
  BY <1>2
<1>4. F!Min(E) \in E /\ \A y \in E : F!Min(E) <= y
  BY <1>1, <1>3, LeastOf
<1>5. PICK p \in Bad : F!Min(E) = rank[p]
  BY <1>4
<1>6. \A q \in Bad : rank[p] <= rank[q]
  BY <1>4, <1>5
<1>7. \A n \in spec.needs[p] : n \in FlowPhases /\ rank[n] < rank[p] /\ rank[n] \in Int /\ rank[p] \in Int
  BY <1>2, FlowFacts
<1> QED BY <1>6, <1>7

\* The result of a flow, as its reader is told.
LEMMA FlowEndsTrue ==
  ASSUME FlowInv
  PROVE  F!OutcomeIsTrue
<1> USE DEF FlowInv
<1> DEFINE trouble == {p \in FlowPhases : done[p].how \in {"failed", "abort"} \/ done[p].lost}
           held == {p \in FlowPhases : F!Upon(p) \cap F!Declined # {}}
<1> SUFFICES ASSUME life = "over"
             PROVE  /\ F!Disposition = "stopped" <=> (~F!Cancelled /\ trouble = {} /\ held # {})
                    /\ F!Disposition = "done" => F!Declined \cap UNION {spec.needs[p] : p \in FlowPhases} = {}
  BY DEF F!OutcomeIsTrue, F!Phases, FlowPhases
<1>0. F!Phases = FlowPhases /\ F!Declined = {p \in FlowPhases : gate[p] = "rejected"}
  BY DEF F!Phases, FlowPhases, F!Declined
<1>1. /\ F!Disposition = "stopped" <=> ~F!AllOk /\ ~F!Cancelled /\ F!RootFaults = {} /\ F!Declined # {}
      /\ F!Disposition = "done" <=> F!AllOk
  BY DEF F!Disposition
<1>2. F!AllOk <=> \A p \in FlowPhases : done[p].ok /\ ~done[p].lost
  BY <1>0 DEF F!AllOk
<1>3. \A d \in F!Declined : d \in FlowPhases /\ F!Gated(d) /\ gate[d] # "passed"
  BY <1>0 DEF ApprovedIsSeen
<1>4. ASSUME NEW p \in FlowPhases, NEW d \in spec.needs[p], d \in F!Declined
      PROVE  ~done[p].ok
  BY <1>3, <1>4 DEF NeedsPassed
<1>5. F!RootFaults = {} <=> trouble = {}
  <2>1. F!RootFaults = {p \in FlowPhases : F!Has(p) /\ (~done[p].ok \/ done[p].lost) /\ done[p].how # "blocked"}
    BY <1>0 DEF F!RootFaults, F!Faults
  <2>2. ASSUME NEW p \in FlowPhases
        PROVE  F!Has(p) /\ (~done[p].ok \/ done[p].lost) /\ done[p].how # "blocked"
                 <=> done[p].how \in {"failed", "abort"} \/ done[p].lost
    <3>1. done[p].how \in {"none", "failed", "blocked", "abort"} /\ done[p].ok \in BOOLEAN /\ done[p].lost \in BOOLEAN
      BY DEF FlowTyped, FlowResults
    <3>2. /\ done[p].ok => done[p].how = "none"
          /\ done[p].how # "none" => ~done[p].lost
          /\ ~done[p].ok /\ done[p].how = "none" => done[p] = F!NotRun
      BY DEF ResultsFit
    <3> QED BY <3>1, <3>2, ResultsTyped DEF F!Has
  <2> QED BY <2>1, <2>2
<1>6. ASSUME ~F!AllOk, ~F!Cancelled, trouble = {}
      PROVE  held # {}
  <2> DEFINE Bad == {p \in FlowPhases : ~done[p].ok}
  <2>1. \A p \in FlowPhases : ~done[p].lost /\ done[p].how \notin {"failed", "abort"}
    BY <1>6
  <2>2. Bad # {} /\ Bad \in SUBSET FlowPhases
    BY <1>2, <1>6, <2>1
  <2>3. ~aborted /\ F!Ready = {}
    BY <1>0, <1>6, <2>2 DEF F!Cancelled, HeldUp
  <2>4. PICK p \in Bad : \A n \in spec.needs[p] : n \notin Bad
    BY <2>2, FirstOf
  <2>5. \A n \in spec.needs[p] : n \in FlowPhases /\ done[n].ok /\ F!Has(n)
    BY <2>4, FlowFacts, ResultsTyped DEF F!Has
  <2>6. \E n \in spec.needs[p] : gate[n] = "rejected"
    <3>1. CASE done[p].how = "blocked"
      <4>1. PICK n \in spec.needs[p] : F!Has(n) /\ F!Spoilt(n)
        BY <3>1 DEF HeldUp
      <4> QED BY <2>1, <2>5, <4>1 DEF F!Spoilt
    <3>2. CASE done[p].how # "blocked"
      <4>1. done[p] = F!NotRun
        <5>1. done[p].how \in {"none", "failed", "blocked", "abort"}
          BY DEF FlowTyped, FlowResults
        <5> QED BY <2>1, <3>2, <5>1 DEF ResultsFit
      <4>2. PICK n \in spec.needs[p] : ~(F!Has(n) /\ F!GateResolved(n))
        BY <1>0, <2>3, <4>1 DEF F!Ready, F!Waiting, F!Has
      <4>3. F!Gated(n) /\ gate[n] = "open"
        BY <2>5, <4>2 DEF F!GateResolved
      <4> QED BY <2>1, <2>3, <2>5, <4>3 DEF UndecidedIsDue
    <3> QED BY <3>1, <3>2
  <2>7. p \in held
    <3>1. PICK n \in spec.needs[p] : gate[n] = "rejected"
      BY <2>6
    <3>2. n \in F!Declined /\ n \in F!Upon(p)
      BY <1>0, <2>5, <3>1 DEF F!Upon
    <3> QED BY <3>2
  <2> QED BY <2>7
<1>7. ASSUME held # {}
      PROVE  F!Declined # {} /\ ~F!AllOk
  <2>1. PICK p \in FlowPhases : F!Upon(p) \cap F!Declined # {}
    BY <1>7
  <2>2. PICK d \in F!Declined : d \in F!Upon(p)
    BY <2>1
  <2>3. PICK n \in spec.needs[p] : d = n \/ d \in spec.needs[n]
    BY <2>2 DEF F!Upon
  <2>4. ~done[p].ok \/ ~done[n].ok
    BY <1>4, <2>2, <2>3, FlowFacts
  <2> QED BY <1>2, <2>2, <2>3, <2>4, FlowFacts
<1>8. F!AllOk => F!Declined \cap UNION {spec.needs[p] : p \in FlowPhases} = {}
  BY <1>2, <1>4
<1> HIDE DEF trouble, held
<1> QED BY <1>1, <1>5, <1>6, <1>7, <1>8

\* flow-run.ts:101: a flow says it stopped at a gate exactly if it was not cancelled, no phase failed or was
\* lost and something waits, directly or not, for a checkpoint that was declined; and it is done only if
\* nothing did; as long as no attempt that an earlier run gave up has succeeded.
THEOREM FlowOutcomesAreTrue == Spec => [](part = "flow" /\ F!NoLateSuccess => F!OutcomeIsTrue)
<1>1. FlowsHold => (part = "flow" /\ F!NoLateSuccess => F!OutcomeIsTrue)
  BY FlowEndsTrue DEF FlowsHold
<1> QED BY <1>1, FlowInvariant, PTL

---------------------------------------------------------------------------
(* The stop of a strategy *)

\* A strategy that deliberates, once stopped, has no ruling: it cancels, or its error stands.
NoRuling(s) == s.act \in {"wave", "end", "throw"} /\ (s.act = "end" => s.verdict.ok = FALSE)

LEMMA StoppedRulesNothing ==
  ASSUME NEW p \in Plans, p.name \in S!Deliberates, NEW w, NEW s \in S!Decide(p, w, TRUE)
  PROVE  NoRuling(s)
<1> USE DEF S!Ends, S!Throws, S!Opens, NoRuling
<1>0. p.n \in Nat
  BY PlansAreCounted
<1>1. \A cause, from, billed : \A t \in S!Ends(S!Fails(cause, from, billed)) : NoRuling(t)
  BY DEF S!Fails, S!Verdict
<1>2. \A from, billed : \A t \in S!Ends(S!Cancels(from, billed)) : NoRuling(t)
  BY <1>1 DEF S!Cancels
<1>3. \A wanted : \A t \in S!Opens(wanted) : NoRuling(t)
  OBVIOUS
<1>4. \A t \in S!Throws : NoRuling(t)
  OBVIOUS
<1> HIDE DEF S!Ends, S!Throws, S!Opens, NoRuling
<1>5. CASE p.name = "critic-loop"
  <2>1. s \in S!CriticLoop(p, w, TRUE)
    BY <1>5 DEF S!Decide
  <2> QED BY <1>1, <1>2, <1>3, <2>1 DEF S!CriticLoop
<1>6. CASE p.name = "debate"
  <2>1. s \in S!Debate(p, w, TRUE)
    BY <1>6 DEF S!Decide
  <2>2. p.n < 2 \/ p.n >= 2
    BY <1>0
  <2> QED BY <1>2, <1>4, <2>1, <2>2 DEF S!Debate
<1>7. CASE p.name = "council-rounds"
  <2>1. s \in S!Council(p, w, TRUE)
    BY <1>7 DEF S!Decide
  <2>2. p.n = 0 \/ p.n > 0
    BY <1>0
  <2> QED BY <1>2, <1>4, <2>1, <2>2 DEF S!Council
<1>8. CASE p.name = "magi"
  <2>1. s \in S!Magi(p, w, TRUE)
    BY <1>8 DEF S!Decide
  <2>2. p.n = 0 \/ p.n > 0
    BY <1>0
  <2> QED BY <1>2, <1>4, <2>1, <2>2 DEF S!Magi
<1> QED BY <1>5, <1>6, <1>7, <1>8 DEF S!Deliberates

\* critic-loop.ts:110: once the operator has stopped a run, no engine is started for it, also not to try a
\* leg again, and no strategy that deliberates reports a ruling.
THEOREM StopsAreFinal == Spec => StopIsFinal
<1> DEFINE Planned == part = "council" => plan \in Plans
<1>1. Init => Planned
  BY DEF Init, S!Init
<1>2. [Next]_vars => InCouncil(S!Next) \/ UNCHANGED <<part, councilVars>>
  BY DEF Next, vars, InFlow, InTurns, InCalls, InRuns, InCheckouts, InPersona, InRows, others
<1>3. Planned /\ [Next]_vars => Planned'
  <2> SUFFICES ASSUME Planned, [Next]_vars, part' = "council" PROVE plan' \in Plans
    OBVIOUS
  <2>1. part' = part /\ plan' = plan
    BY <1>2 DEF InCouncil, councilVars, S!Next, S!Continue, S!StopRun, S!LegStep, S!Pulls, S!Resumes, S!FirstEnds, S!RetryEnds
  <2> QED BY <2>1
<1>4. Planned /\ [Next]_vars =>
        [stopped => /\ kids' = kids
                    /\ verdict' # verdict /\ plan.name \in S!Deliberates => ~verdict'.ok]_S!vars
  <2> SUFFICES ASSUME Planned, [Next]_vars, stopped, ~UNCHANGED S!vars
               PROVE  kids' = kids /\ (verdict' # verdict /\ plan.name \in S!Deliberates => ~verdict'.ok)
    OBVIOUS
  <2>1. S!Next /\ plan \in Plans
    BY <1>2 DEF InCouncil, councilVars, S!vars
  <2>2. CASE S!Continue
    <3>1. kids' = kids /\ verdict = None
      BY <2>2 DEF S!Continue
    <3>2. PICK s \in S!Decide(plan, waves, TRUE) : S!Takes(s)
      BY <2>2 DEF S!Continue
    <3>3. S!Failure.ok = FALSE
      BY DEF S!Failure, S!Fails, S!Verdict
    <3>4. plan.name \in S!Deliberates => NoRuling(s)
      BY <2>1, StoppedRulesNothing
    <3> QED BY <3>1, <3>2, <3>3, <3>4 DEF S!Takes, NoRuling
  <2>3. CASE S!StopRun
    BY <2>3 DEF S!StopRun
  <2>4. CASE \E i \in 1..S!Most : S!LegStep(i)
    BY <2>4 DEF S!LegStep, S!Pulls, S!Resumes, S!FirstEnds, S!RetryEnds, S!Recovers
  <2> QED BY <2>1, <2>2, <2>3, <2>4 DEF S!Next
<1> QED BY <1>1, <1>3, <1>4, PTL DEF Spec, StopIsFinal, S!StopIsFinal

---------------------------------------------------------------------------
(* Every part *)

\* sdk.ts:277, parallel.ts:60, delegate-tool.ts:630, worktree.ts:147, extension.ts:1617: whichever part
\* lives, its limits hold: the children a plan foresees fit, slots are kept, verifiers and writers apart,
\* no checkout stays listed without its directory, no model is asked for twice or filed elsewhere.
THEOREM LimitsAlwaysHold == Spec => []LimitsHold
<1>1. (part = "council" => CouncilInv) => (part = "council" => S!PlannedLegsFit)
  BY CouncilFits
<1>2. /\ part = "council" => S!PlannedLegsFit
      /\ part \notin {"council", "checkouts", "persona"} => LimitsHold
      /\ part = "checkouts" => LimitsHold /\ OutcomesAreTrue
      /\ part = "persona" => LimitsHold /\ OutcomesAreTrue /\ SupervisorIsTold
      => LimitsHold
  BY DEF LimitsHold
<1> QED BY <1>1, <1>2, CouncilIsSound, RunLimitsHold, CheckoutsHold, PersonaHolds, PTL

\* flow-run.ts:101, engine.ts:239, controller.ts:6: what every part but a council reports is true; what a
\* flow says, as long as no attempt that an earlier run gave up has succeeded.
THEOREM OutcomesOutsideCouncils == Spec => [](part # "council" => OutcomesAreTrue)
<1>1. /\ part = "flow" /\ F!NoLateSuccess => F!OutcomeIsTrue
      /\ part = "checkouts" => LimitsHold /\ OutcomesAreTrue
      /\ part = "persona" => LimitsHold /\ OutcomesAreTrue /\ SupervisorIsTold
      => (part # "council" => OutcomesAreTrue)
  BY DEF OutcomesAreTrue
<1> QED BY <1>1, FlowOutcomesAreTrue, CheckoutsHold, PersonaHolds, PTL
====
