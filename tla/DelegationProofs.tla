---- MODULE DelegationProofs ----
(***************************************************************************)
(* The runs a supervisor launches in the background and the checkouts its  *)
(* legs work in, for any calls and any jobs.                               *)
(***************************************************************************)
EXTENDS Orchestration, SequenceTheorems, FiniteSetTheorems, WellFoundedInduction, TLAPS

---------------------------------------------------------------------------
(* Lines and counts *)

\* The members of a set, each once, in some order.
IsLine(q, W) ==
  /\ q \in Seq(W) /\ \A w \in W : \E i \in 1..Len(q) : q[i] = w
  /\ \A i, j \in 1..Len(q) : q[i] = q[j] => i = j

LEMMA EmptyLine == \A q, W : IsLine(q, W) => (q = <<>> <=> W = {}) /\ IsLine(<<>>, {})
<1> SUFFICES ASSUME NEW q, NEW W, IsLine(q, W) PROVE (q = <<>> <=> W = {}) /\ IsLine(<<>>, {})
  OBVIOUS
<1>1. IsLine(<<>>, {})
  BY DEF IsLine
<1>2. W = {} => q = <<>>
  <2>1. \A i \in 1..Len(q) : q[i] \in W
    BY DEF IsLine
  <2>2. Len(q) \in Nat /\ q \in Seq(W)
    BY DEF IsLine
  <2> QED BY <2>1, <2>2
<1>3. q = <<>> => W = {}
  BY DEF IsLine
<1> QED BY <1>1, <1>2, <1>3

LEMMA NobodyInLine == IsLine(<<>>, {})
BY DEF IsLine

LEMMA LineGrows ==
  ASSUME NEW W, NEW q, IsLine(q, W), NEW w, w \notin W
  PROVE  IsLine(Append(q, w), W \cup {w})
<1> DEFINE r == Append(q, w)
<1>1. q \in Seq(W \cup {w}) /\ Len(q) \in Nat /\ \A i \in 1..Len(q) : q[i] \in W
  BY DEF IsLine
<1>2. r \in Seq(W \cup {w}) /\ Len(r) = Len(q) + 1 /\ (\A i \in 1..Len(q) : r[i] = q[i]) /\ r[Len(q) + 1] = w
  BY <1>1
<1> HIDE DEF r
<1>3. \A x \in W \cup {w} : \E i \in 1..Len(r) : r[i] = x
  <2> TAKE x \in W \cup {w}
  <2>1. CASE x = w
    <3>1. Len(q) + 1 \in 1..Len(r)
      BY <1>1, <1>2
    <3> QED BY <1>2, <2>1, <3>1
  <2>2. CASE x \in W
    <3>1. PICK i \in 1..Len(q) : q[i] = x
      BY <2>2 DEF IsLine
    <3>2. i \in 1..Len(r) /\ r[i] = q[i]
      BY <1>1, <1>2
    <3> QED BY <3>1, <3>2
  <2> QED BY <2>1, <2>2
<1>4. ASSUME NEW i \in 1..Len(r), NEW j \in 1..Len(r), r[i] = r[j] PROVE i = j
  <2>1. i = Len(q) + 1 \/ i \in 1..Len(q)
    BY <1>1, <1>2
  <2>2. j = Len(q) + 1 \/ j \in 1..Len(q)
    BY <1>1, <1>2
  <2> QED BY <1>1, <1>2, <1>4, <2>1, <2>2 DEF IsLine
<1>5. IsLine(r, W \cup {w})
  BY <1>2, <1>3, <1>4 DEF IsLine
<1> QED BY <1>5 DEF r

LEMMA LineShrinks ==
  ASSUME NEW W, NEW q, IsLine(q, W), q # <<>>
  PROVE  Head(q) \in W /\ IsLine(Tail(q), W \ {Head(q)})
<1> DEFINE r == Tail(q)
           w == Head(q)
<1>1. q \in Seq(W) /\ Len(q) \in Nat /\ Len(q) > 0 /\ \A i \in 1..Len(q) : q[i] \in W
  BY DEF IsLine
<1>2. w = q[1] /\ w \in W /\ Len(r) = Len(q) - 1 /\ (\A i \in 1..Len(r) : r[i] = q[i + 1]) /\ r \in Seq(W)
  BY <1>1
<1> HIDE DEF r, w
<1>3. \A i \in 1..Len(r) : i + 1 \in 1..Len(q) /\ i + 1 # 1 /\ 1 \in 1..Len(q)
  BY <1>1, <1>2
<1>4. \A i \in 1..Len(r) : r[i] \in W \ {w}
  <2> TAKE i \in 1..Len(r)
  <2>1. i + 1 \in 1..Len(q) /\ 1 \in 1..Len(q) /\ i + 1 # 1
    BY <1>3
  <2>2. q[i + 1] # q[1]
    BY <2>1 DEF IsLine
  <2>3. r[i] = q[i + 1] /\ q[i + 1] \in W
    BY <1>1, <1>2, <2>1
  <2> QED BY <1>2, <2>2, <2>3
<1>5. r \in Seq(W \ {w})
  <2>1. \A i \in 1..Len(r) : r[i] \in W \ {w}
    BY <1>4
  <2>2. Len(r) \in Nat /\ DOMAIN r = 1..Len(r) /\ r = [i \in 1..Len(r) |-> r[i]]
    BY <1>2
  <2>3. r \in [1..Len(r) -> W \ {w}]
    BY <2>1, <2>2
  <2> QED BY <2>2, <2>3, SeqDef
<1>6. \A x \in W \ {w} : \E i \in 1..Len(r) : r[i] = x
  <2> TAKE x \in W \ {w}
  <2>1. PICK i \in 1..Len(q) : q[i] = x
    BY DEF IsLine
  <2>2. i # 1 /\ i - 1 \in 1..Len(r)
    BY <1>1, <1>2, <2>1
  <2>3. r[i - 1] = x
    BY <1>2, <2>1, <2>2
  <2> QED BY <2>2, <2>3
<1>7. ASSUME NEW i \in 1..Len(r), NEW j \in 1..Len(r), r[i] = r[j] PROVE i = j
  <2>1. q[i + 1] = q[j + 1] /\ i + 1 \in 1..Len(q) /\ j + 1 \in 1..Len(q)
    BY <1>2, <1>3, <1>7
  <2>2. i + 1 = j + 1
    BY <2>1 DEF IsLine
  <2> QED BY <2>2
<1> QED BY <1>2, <1>5, <1>6, <1>7 DEF IsLine, r, w

\* Who leaves the line where it stands.
LEMMA LineWithout ==
  ASSUME NEW W, NEW s, IsLine(s.line, W), NEW w \in W, s = [free |-> s.free, line |-> s.line]
  PROVE  /\ D!Without(s, w).free = s.free /\ IsLine(D!Without(s, w).line, W \ {w})
         /\ D!Without(s, w) = [free |-> s.free, line |-> D!Without(s, w).line]
<1> DEFINE q == s.line
           at_ == CHOOSE i \in DOMAIN s.line : s.line[i] = w
           r == [i \in 1..(Len(q) - 1) |-> IF i < at_ THEN q[i] ELSE q[i + 1]]
<1>0. D!Without(s, w) = [s EXCEPT !.line = r]
  BY DEF D!Without
<1>1. q \in Seq(W) /\ Len(q) \in Nat /\ DOMAIN q = 1..Len(q) /\ \A i \in 1..Len(q) : q[i] \in W
  BY DEF IsLine
<1>2. at_ \in 1..Len(q) /\ q[at_] = w
  <2>1. \E i \in DOMAIN s.line : s.line[i] = w
    BY <1>1 DEF IsLine
  <2> QED BY <1>1, <2>1
<1> HIDE DEF at_
<1>3. DOMAIN r = 1..(Len(q) - 1) /\ \A i \in 1..(Len(q) - 1) : r[i] = IF i < at_ THEN q[i] ELSE q[i + 1]
  OBVIOUS
<1>4. \A i \in 1..(Len(q) - 1) : r[i] \in W \ {w}
  <2> TAKE i \in 1..(Len(q) - 1)
  <2>1. i < at_ \/ i + 1 > at_
    BY <1>2
  <2>2. i \in 1..Len(q) /\ i + 1 \in 1..Len(q)
    BY <1>1
  <2>3. CASE i < at_
    <3>1. r[i] = q[i] /\ i # at_
      BY <1>3, <2>3, <1>2
    <3> QED BY <1>1, <1>2, <2>2, <3>1 DEF IsLine
  <2>4. CASE ~(i < at_)
    <3>1. r[i] = q[i + 1] /\ i + 1 # at_
      BY <1>3, <2>4, <1>2
    <3> QED BY <1>1, <1>2, <2>2, <3>1 DEF IsLine
  <2> QED BY <2>3, <2>4
<1>5. Len(q) - 1 \in Nat
  BY <1>1, <1>2
<1> HIDE DEF q
<1>6. r \in Seq(W \ {w}) /\ Len(r) = Len(q) - 1
  <2>1. r \in [1..(Len(q) - 1) -> W \ {w}]
    BY <1>3, <1>4
  <2> HIDE DEF r
  <2> QED BY <1>5, <2>1, SeqDef
<1> HIDE DEF r
<1>7. \A x \in W \ {w} : \E i \in 1..Len(r) : r[i] = x
  <2> TAKE x \in W \ {w}
  <2>1. PICK i \in 1..Len(q) : q[i] = x
    BY DEF IsLine, q
  <2>2. i # at_
    BY <1>2, <2>1
  <2>3. CASE i < at_
    <3>1. i \in 1..(Len(q) - 1)
      BY <1>1, <1>2, <2>3
    <3> QED BY <1>3, <1>6, <2>1, <2>3, <3>1
  <2>4. CASE i > at_
    <3>1. i - 1 \in 1..(Len(q) - 1) /\ ~(i - 1 < at_) /\ (i - 1) + 1 = i
      BY <1>1, <1>2, <2>4
    <3>2. r[i - 1] = q[i]
      BY <1>3, <3>1
    <3> QED BY <1>6, <2>1, <3>1, <3>2
  <2> QED BY <1>2, <2>2, <2>3, <2>4
<1>8. ASSUME NEW i \in 1..Len(r), NEW j \in 1..Len(r), r[i] = r[j] PROVE i = j
  <2> DEFINE from(k) == IF k < at_ THEN k ELSE k + 1
  <2>1. r[i] = q[from(i)] /\ r[j] = q[from(j)] /\ from(i) \in 1..Len(q) /\ from(j) \in 1..Len(q)
    BY <1>1, <1>2, <1>3, <1>6
  <2>2. from(i) = from(j)
    <3> HIDE DEF from
    <3> QED BY <1>8, <2>1 DEF IsLine, q
  <2>3. i \in Int /\ j \in Int /\ at_ \in Int
    BY <1>2
  <2> QED BY <2>2, <2>3
<1>9. IsLine(r, W \ {w})
  BY <1>6, <1>7, <1>8 DEF IsLine
<1>10. D!Without(s, w) = [free |-> s.free, line |-> r]
  BY <1>0
<1> QED BY <1>9, <1>10

\* A second line behind the first.
LEMMA LinesJoin ==
  ASSUME NEW V, NEW p, IsLine(p, V), NEW W, NEW q, IsLine(q, W), V \cap W = {}
  PROVE  IsLine(p \o q, V \cup W)
<1> DEFINE r == p \o q
<1>1. p \in Seq(V \cup W) /\ q \in Seq(V \cup W) /\ Len(p) \in Nat /\ Len(q) \in Nat
  BY DEF IsLine
<1>2. /\ r \in Seq(V \cup W) /\ Len(r) = Len(p) + Len(q)
      /\ \A i \in 1..Len(p) : r[i] = p[i] /\ p[i] \in V
      /\ \A i \in 1..Len(q) : r[Len(p) + i] = q[i] /\ q[i] \in W
  BY <1>1 DEF IsLine
<1> HIDE DEF r
<1>3. \A i \in 1..Len(r) : i \in 1..Len(p) \/ (i - Len(p) \in 1..Len(q) /\ i = Len(p) + (i - Len(p)))
  BY <1>1, <1>2
<1>4. \A x \in V \cup W : \E i \in 1..Len(r) : r[i] = x
  <2>1. ASSUME NEW x \in V PROVE \E i \in 1..Len(r) : r[i] = x
    <3>1. PICK i \in 1..Len(p) : p[i] = x
      BY DEF IsLine
    <3> QED BY <1>1, <1>2, <3>1
  <2>2. ASSUME NEW x \in W PROVE \E i \in 1..Len(r) : r[i] = x
    <3>1. PICK i \in 1..Len(q) : q[i] = x
      BY DEF IsLine
    <3>2. Len(p) + i \in 1..Len(r)
      BY <1>1, <1>2
    <3> QED BY <1>2, <3>1, <3>2
  <2> QED BY <2>1, <2>2
<1>5. ASSUME NEW i \in 1..Len(r), NEW j \in 1..Len(r), r[i] = r[j] PROVE i = j
  <2>1. CASE i \in 1..Len(p) /\ j \in 1..Len(p)
    BY <1>2, <1>5, <2>1 DEF IsLine
  <2>0. \A m \in 1..Len(r) : m - Len(p) \in 1..Len(q) => r[m] = q[m - Len(p)] /\ r[m] \in W
    <3> TAKE m \in 1..Len(r)
    <3> DEFINE n == m - Len(p)
    <3>1. m = Len(p) + n
      BY <1>1
    <3>2. n \in 1..Len(q) => r[Len(p) + n] = q[n] /\ q[n] \in W
      BY <1>2
    <3> QED BY <3>1, <3>2
  <2>2. CASE i \in 1..Len(p) /\ j - Len(p) \in 1..Len(q)
    BY <1>2, <1>5, <2>0, <2>2
  <2>3. CASE j \in 1..Len(p) /\ i - Len(p) \in 1..Len(q)
    BY <1>2, <1>5, <2>0, <2>3
  <2>4. CASE i - Len(p) \in 1..Len(q) /\ j - Len(p) \in 1..Len(q)
    <3>1. r[i] = q[i - Len(p)] /\ r[j] = q[j - Len(p)]
      BY <2>0, <2>4
    <3>2. i - Len(p) = j - Len(p)
      BY <1>5, <2>4, <3>1 DEF IsLine
    <3> QED BY <1>1, <3>2
  <2> QED BY <1>3, <2>1, <2>2, <2>3, <2>4
<1> QED BY <1>2, <1>4, <1>5 DEF IsLine, r

Count(f, L, Q) == Cardinality({l \in L : f[l] \in Q})

LEMMA CardinalityOf == \A W : D!Cardinality(W) = Cardinality(W)
BY DEF D!Cardinality, Cardinality

\* A change at one place changes a count by what it changes there.
LEMMA CountOne ==
  ASSUME NEW L, IsFiniteSet(L), NEW f, NEW g, NEW Q, NEW x \in L,
         \A l \in L \ {x} : g[l] = f[l]
  PROVE  /\ Count(f, L, Q) \in Nat /\ Count(g, L, Q) \in Nat
         /\ Count(g, L, Q) = Count(f, L, Q) - (IF f[x] \in Q THEN 1 ELSE 0) + (IF g[x] \in Q THEN 1 ELSE 0)
<1> DEFINE F_ == {l \in L : f[l] \in Q}
           G_ == {l \in L : g[l] \in Q}
           E_ == {l \in L \ {x} : f[l] \in Q}
<1>1. IsFiniteSet(F_) /\ IsFiniteSet(G_) /\ IsFiniteSet(E_)
  <2>1. F_ \in SUBSET L /\ G_ \in SUBSET L /\ E_ \in SUBSET L
    OBVIOUS
  <2> QED BY <2>1, FS_Subset
<1>2. Cardinality(F_) \in Nat /\ Cardinality(G_) \in Nat /\ Cardinality(E_) \in Nat
  BY <1>1, FS_CardinalityType
<1>3. Cardinality(E_ \cup {x}) = Cardinality(E_) + 1
  <2>1. x \notin E_
    OBVIOUS
  <2> HIDE DEF E_
  <2> QED BY <1>1, <2>1, FS_AddElement
<1>4. F_ = IF f[x] \in Q THEN E_ \cup {x} ELSE E_
  OBVIOUS
<1>5. G_ = IF g[x] \in Q THEN E_ \cup {x} ELSE E_
  OBVIOUS
<1> HIDE DEF F_, G_, E_
<1>6. Count(f, L, Q) = Cardinality(F_) /\ Count(g, L, Q) = Cardinality(G_)
  BY DEF Count, F_, G_
<1> QED BY <1>2, <1>3, <1>4, <1>5, <1>6

LEMMA CountSame ==
  ASSUME NEW L, NEW f, NEW g, NEW Q, \A l \in L : g[l] \in Q <=> f[l] \in Q
  PROVE  Count(g, L, Q) = Count(f, L, Q)
<1>1. {l \in L : g[l] \in Q} = {l \in L : f[l] \in Q}
  OBVIOUS
<1> QED BY <1>1 DEF Count

---------------------------------------------------------------------------
(* The runs launched in the background: who waits, who works *)

LEMMA LesserOf == ASSUME NEW i \in Nat, NEW j \in Nat PROVE D!Min({i, j}) = IF i <= j THEN i ELSE j
<1>1. \A x, y \in Nat : x <= y \/ y <= x
  OBVIOUS
<1> QED BY <1>1 DEF D!Min

\* The legs of a session.
LEMMA LegsAre ==
  ASSUME book \in Books
  PROVE  /\ IsFiniteSet(D!Legs) /\ IsFiniteSet(D!CallIds)
         /\ \A l \in D!Legs : l[1] \in D!CallIds /\ l[2] \in 1..D!Size(l[1]) /\ l = <<l[1], l[2]>> /\ l \in D!LegsOf(l[1])
         /\ \A c \in D!CallIds : /\ D!LegsOf(c) \subseteq D!Legs /\ IsFiniteSet(D!LegsOf(c)) /\ D!Size(c) \in Nat
                                 /\ Cardinality(D!LegsOf(c)) = D!Size(c) /\ D!Size(c) <= Len(D!Of(c).legs)
                                 /\ \A n \in 1..D!Size(c) : <<c, n>> \in D!LegsOf(c)
                                 /\ \A l \in D!LegsOf(c) : l[1] = c
<1>1. IsFiniteSet(D!CallIds)
  BY BooksAreCalls DEF D!CallIds
<1>2. ASSUME NEW c \in D!CallIds
      PROVE  D!Size(c) \in Nat /\ D!Size(c) <= Len(D!Of(c).legs)
  <2>1. Len(D!Of(c).legs) \in Nat /\ MaxChildren \in Nat
    BY BooksAreCalls DEF D!Of, D!CallIds
  <2> QED BY <2>1, LesserOf DEF D!Size
<1>3. ASSUME NEW c \in D!CallIds
      PROVE  IsFiniteSet(D!LegsOf(c)) /\ Cardinality(D!LegsOf(c)) = D!Size(c)
  <2> DEFINE f == [n \in 1..D!Size(c) |-> <<c, n>>]
  <2>1. f \in Bijection(1..D!Size(c), D!LegsOf(c))
    <3>1. f \in [1..D!Size(c) -> D!LegsOf(c)]
      BY DEF D!LegsOf
    <3>2. \A i, j \in 1..D!Size(c) : f[i] = f[j] => i = j
      OBVIOUS
    <3>3. \A l \in D!LegsOf(c) : \E n \in 1..D!Size(c) : f[n] = l
      BY DEF D!LegsOf
    <3> QED BY <3>1, <3>2, <3>3 DEF Bijection, Injection, Surjection, IsInjective
  <2>2. IsFiniteSet(1..D!Size(c)) /\ Cardinality(1..D!Size(c)) = D!Size(c)
    BY <1>2, FS_Interval
  <2> QED BY <2>1, <2>2, FS_Bijection DEF ExistsBijection
<1>4. IsFiniteSet(D!Legs)
  <2>1. IsFiniteSet({D!LegsOf(c) : c \in D!CallIds})
    <3> DEFINE f == [c \in D!CallIds |-> D!LegsOf(c)]
    <3>1. f \in Surjection(D!CallIds, {D!LegsOf(c) : c \in D!CallIds})
      BY DEF Surjection
    <3> QED BY <1>1, <3>1, FS_Surjection
  <2> QED BY <1>3, <2>1, FS_UNION DEF D!Legs
<1>5. \A c \in D!CallIds : \A l \in D!LegsOf(c) : l[1] = c /\ l[2] \in 1..D!Size(c) /\ l = <<l[1], l[2]>>
  BY DEF D!LegsOf
<1>6. \A c \in D!CallIds : \A n \in 1..D!Size(c) : <<c, n>> \in D!LegsOf(c)
  BY DEF D!LegsOf
<1>7. \A c \in D!CallIds : D!LegsOf(c) \subseteq D!Legs
  BY DEF D!Legs
<1>8. \A l \in D!Legs : \E c \in D!CallIds : l \in D!LegsOf(c)
  BY DEF D!Legs
<1> QED BY <1>1, <1>2, <1>3, <1>4, <1>5, <1>6, <1>7, <1>8

Stages == {"new", "line", "queue", "granted", "runs", "over"}
SlotsOfRuns == [free : Nat, line : Seq(D!Legs)]
Sites == [stage : [D!Legs -> Stages], pool : SlotsOfRuns, lanes : [D!CallIds -> SlotsOfRuns]]

\* The legs that hold a slot of the pool, and of their call.
PoolHeld(f) == Count(f, D!Legs, {"granted", "runs"})
LaneHeld(f, c) == Count(f, D!LegsOf(c), {"queue", "granted", "runs"})

\* What a change at one leg makes of the counts.
HeldMoved(f, g, x) ==
  /\ PoolHeld(f) \in Nat /\ PoolHeld(g) \in Nat
  /\ PoolHeld(g) = PoolHeld(f) - (IF f[x] \in {"granted", "runs"} THEN 1 ELSE 0) + (IF g[x] \in {"granted", "runs"} THEN 1 ELSE 0)
  /\ LaneHeld(f, x[1]) \in Nat /\ LaneHeld(g, x[1]) \in Nat
  /\ LaneHeld(g, x[1]) = LaneHeld(f, x[1]) - (IF f[x] \in {"queue", "granted", "runs"} THEN 1 ELSE 0)
                           + (IF g[x] \in {"queue", "granted", "runs"} THEN 1 ELSE 0)
  /\ \A c \in D!CallIds \ {x[1]} : LaneHeld(g, c) = LaneHeld(f, c)

LEMMA HeldMoves ==
  ASSUME book \in Books, NEW f, NEW g, NEW x \in D!Legs, \A l \in D!Legs \ {x} : g[l] = f[l]
  PROVE  HeldMoved(f, g, x)
<1> DEFINE K == D!Legs
           L == D!LegsOf(x[1])
<1>1. IsFiniteSet(K) /\ IsFiniteSet(L) /\ x \in L /\ x \in K /\ (\A l \in L \ {x} : g[l] = f[l]) /\ \A l \in K \ {x} : g[l] = f[l]
  BY LegsAre
<1>2. ASSUME NEW c \in D!CallIds \ {x[1]} PROVE LaneHeld(g, c) = LaneHeld(f, c)
  <2>1. \A l \in D!LegsOf(c) : g[l] = f[l]
    BY LegsAre
  <2> QED BY <2>1, CountSame DEF LaneHeld
<1> HIDE DEF K, L
<1>3. \A Q : /\ Count(f, K, Q) \in Nat /\ Count(g, K, Q) \in Nat
             /\ Count(g, K, Q) = Count(f, K, Q) - (IF f[x] \in Q THEN 1 ELSE 0) + (IF g[x] \in Q THEN 1 ELSE 0)
  <2> TAKE Q
  <2>1. IsFiniteSet(K) /\ x \in K /\ \A l \in K \ {x} : g[l] = f[l]
    BY <1>1
  <2> QED BY <2>1, CountOne
<1>4. \A Q : /\ Count(f, L, Q) \in Nat /\ Count(g, L, Q) \in Nat
             /\ Count(g, L, Q) = Count(f, L, Q) - (IF f[x] \in Q THEN 1 ELSE 0) + (IF g[x] \in Q THEN 1 ELSE 0)
  <2> TAKE Q
  <2>1. IsFiniteSet(L) /\ x \in L /\ \A l \in L \ {x} : g[l] = f[l]
    BY <1>1
  <2> QED BY <2>1, CountOne
<1> QED BY <1>2, <1>3, <1>4 DEF K, L, PoolHeld, LaneHeld, HeldMoved

LEMMA HeldSame ==
  ASSUME book \in Books, NEW f, NEW g
  PROVE  /\ (\A l \in D!Legs : g[l] \in {"granted", "runs"} <=> f[l] \in {"granted", "runs"}) => PoolHeld(g) = PoolHeld(f)
         /\ \A c \in D!CallIds : (\A l \in D!LegsOf(c) : g[l] \in {"queue", "granted", "runs"} <=> f[l] \in {"queue", "granted", "runs"})
              => LaneHeld(g, c) = LaneHeld(f, c)
BY CountSame DEF PoolHeld, LaneHeld

\* The slots of a call are held, free, or lost on their way; who waits is in line.
LaneFits(s, c, lost) ==
  IF D!Narrow(c)
  THEN /\ IsLine(s.lanes[c].line, {l \in D!LegsOf(c) : s.stage[l] = "line"})
       /\ s.lanes[c].line # <<>> => s.lanes[c].free = 0
       /\ LaneHeld(s.stage, c) + s.lanes[c].free + (IF c \in lost THEN 1 ELSE 0) = D!Of(c).conc
  ELSE \A l \in D!LegsOf(c) : s.stage[l] # "line"

PoolFits(s) ==
  /\ IsLine(s.pool.line, {l \in D!Legs : s.stage[l] = "queue"})
  /\ s.pool.line # <<>> => s.pool.free = 0
  /\ PoolHeld(s.stage) + s.pool.free = PoolSize

SiteFits(s, lost) == s \in Sites /\ PoolFits(s) /\ \A c \in D!CallIds : LaneFits(s, c, lost)

\* Nobody but a leg that ends moves, except on: from the line to the queue, and to a slot.
MovesOn(old, new, l) ==
  \A k \in D!Legs : k # l => new[k] = old[k] \/ (old[k] \in {"line", "queue"} /\ new[k] \in {"queue", "granted"})

LEMMA EnterFits ==
  ASSUME book \in Books, NEW s \in Sites, PoolFits(s), NEW h \in D!Legs, s.stage[h] \notin {"queue", "granted", "runs"}
  PROVE  /\ D!Enter(s, h) \in Sites /\ PoolFits(D!Enter(s, h)) /\ D!Enter(s, h).lanes = s.lanes
         /\ \E x \in {"queue", "granted"} : D!Enter(s, h).stage = [s.stage EXCEPT ![h] = x]
<1> DEFINE t == D!Enter(s, h)
<1>0. IsFiniteSet(D!Legs)
  BY LegsAre
<1>1. s.stage \in [D!Legs -> Stages] /\ s.pool \in SlotsOfRuns /\ s.lanes \in [D!CallIds -> SlotsOfRuns]
      /\ s = [stage |-> s.stage, pool |-> s.pool, lanes |-> s.lanes]
  BY DEF Sites
<1>2. CASE s.pool.free > 0
  <2> DEFINE g == [s.stage EXCEPT ![h] = "granted"]
  <2>1. t.stage = g /\ t.lanes = s.lanes /\ t.pool = [s.pool EXCEPT !.free = @ - 1]
        /\ t = [stage |-> g, pool |-> [s.pool EXCEPT !.free = @ - 1], lanes |-> s.lanes]
    BY <1>1, <1>2 DEF D!Enter, D!Taken
  <2>2. s.pool.line = <<>> /\ t.pool.line = s.pool.line /\ t.pool.free = s.pool.free - 1 /\ t.pool \in SlotsOfRuns
    BY <1>1, <1>2, <2>1 DEF PoolFits, SlotsOfRuns
  <2>3. g \in [D!Legs -> Stages] /\ g[h] = "granted" /\ \A l \in D!Legs \ {h} : g[l] = s.stage[l]
    BY <1>1 DEF Stages
  <2>4. PoolHeld(g) = PoolHeld(s.stage) + 1 /\ PoolHeld(s.stage) \in Nat
    <3> DEFINE f == s.stage
    <3>1. f[h] \notin {"granted", "runs"} /\ \A l \in D!Legs \ {h} : g[l] = f[l]
      BY <2>3
    <3> HIDE DEF g, f
    <3>2. PoolHeld(g) = PoolHeld(f) + 1 /\ PoolHeld(f) \in Nat
      BY <2>3, <3>1, HeldMoves DEF HeldMoved
    <3> QED BY <3>2 DEF f
  <2>5. {l \in D!Legs : g[l] = "queue"} = {l \in D!Legs : s.stage[l] = "queue"}
    BY <2>3
  <2>6. PoolFits(t)
    <3>1. s.pool.free \in Nat /\ PoolSize \in Nat
      BY <1>1, BooksAreCalls DEF SlotsOfRuns
    <3>2. IsLine(t.pool.line, {l \in D!Legs : t.stage[l] = "queue"})
      BY <2>1, <2>2, <2>5 DEF PoolFits
    <3>3. PoolHeld(t.stage) + t.pool.free = PoolSize
      <4>1. PoolHeld(s.stage) + s.pool.free = PoolSize
        BY DEF PoolFits
      <4>2. t.pool.free = s.pool.free - 1 /\ t.stage = g
        BY <2>1, <2>2
      <4> HIDE DEF t, g
      <4> QED BY <2>4, <3>1, <4>1, <4>2
    <3> QED BY <2>2, <3>2, <3>3 DEF PoolFits
  <2>7. t \in Sites
    BY <1>1, <2>1, <2>2, <2>3 DEF Sites
  <2> QED BY <2>1, <2>6, <2>7
<1>3. CASE ~(s.pool.free > 0)
  <2> DEFINE g == [s.stage EXCEPT ![h] = "queue"]
  <2>1. t.stage = g /\ t.lanes = s.lanes /\ t.pool = [s.pool EXCEPT !.line = Append(@, h)]
        /\ t = [stage |-> g, pool |-> [s.pool EXCEPT !.line = Append(@, h)], lanes |-> s.lanes]
    BY <1>1, <1>3 DEF D!Enter, D!Queued
  <2>2. t.pool.line = Append(s.pool.line, h) /\ t.pool.free = s.pool.free /\ t.pool \in SlotsOfRuns /\ s.pool.free = 0
    <3>1. s.pool = [free |-> s.pool.free, line |-> s.pool.line] /\ s.pool.free \in Nat /\ s.pool.line \in Seq(D!Legs)
      BY <1>1 DEF SlotsOfRuns
    <3>2. t.pool = [free |-> s.pool.free, line |-> Append(s.pool.line, h)]
      BY <2>1, <3>1
    <3>3. Append(s.pool.line, h) \in Seq(D!Legs)
      BY <3>1
    <3>4. s.pool.free = 0
      BY <1>3, <3>1
    <3> HIDE DEF t
    <3> QED BY <3>1, <3>2, <3>3, <3>4 DEF SlotsOfRuns
  <2>3. g \in [D!Legs -> Stages] /\ g[h] = "queue" /\ \A l \in D!Legs \ {h} : g[l] = s.stage[l]
    BY <1>1 DEF Stages
  <2>4. PoolHeld(g) = PoolHeld(s.stage)
    <3>1. \A l \in D!Legs : g[l] \in {"granted", "runs"} <=> s.stage[l] \in {"granted", "runs"}
      BY <2>3
    <3> HIDE DEF g
    <3> QED BY <3>1, HeldSame
  <2>5. {l \in D!Legs : g[l] = "queue"} = {l \in D!Legs : s.stage[l] = "queue"} \cup {h}
    BY <2>3
  <2>6. IsLine(t.pool.line, {l \in D!Legs : g[l] = "queue"})
    <3> DEFINE W == {l \in D!Legs : s.stage[l] = "queue"}
    <3>1. h \notin W /\ IsLine(s.pool.line, W)
      BY DEF PoolFits
    <3> HIDE DEF W
    <3>2. IsLine(Append(s.pool.line, h), W \cup {h})
      BY <3>1, LineGrows
    <3> QED BY <2>2, <2>5, <3>2 DEF W
  <2>7. PoolFits(t)
    BY <2>1, <2>2, <2>4, <2>6 DEF PoolFits
  <2>8. t \in Sites
    BY <1>1, <2>1, <2>2, <2>3 DEF Sites
  <2> QED BY <2>1, <2>7, <2>8
<1> QED BY <1>2, <1>3

\* The slot of a call goes to the next in its line, or is free.
LEMMA FreesLaneFits ==
  ASSUME book \in Books, NEW s, NEW c \in D!CallIds, SiteFits(s, {c})
  PROVE  /\ SiteFits(D!FreesLane(s, c), {})
         /\ \A k \in D!Legs : \/ D!FreesLane(s, c).stage[k] = s.stage[k]
                              \/ s.stage[k] = "line" /\ D!FreesLane(s, c).stage[k] \in {"queue", "granted"}
<1>0. /\ s.stage \in [D!Legs -> Stages] /\ s.pool \in SlotsOfRuns /\ s.lanes \in [D!CallIds -> SlotsOfRuns]
      /\ s = [stage |-> s.stage, pool |-> s.pool, lanes |-> s.lanes] /\ s \in Sites /\ PoolFits(s)
  BY DEF Sites, SiteFits
<1>1. CASE ~D!Narrow(c)
  <2>1. D!FreesLane(s, c) = s
    BY <1>1 DEF D!FreesLane
  <2>2. \A d \in D!CallIds : LaneFits(s, d, {c}) => LaneFits(s, d, {})
    BY <1>1 DEF LaneFits
  <2> QED BY <2>1, <2>2 DEF SiteFits
<1>2. CASE D!Narrow(c)
  <2> DEFINE back == [s EXCEPT !.lanes[c] = D!Returned(@)]
             W == {l \in D!LegsOf(c) : s.stage[l] = "line"}
             N == LaneHeld(s.stage, c)
  <2>1. s.lanes[c] \in SlotsOfRuns /\ s.lanes[c].free \in Nat /\ s.lanes[c] = [free |-> s.lanes[c].free, line |-> s.lanes[c].line]
    BY <1>0 DEF SlotsOfRuns
  <2>2. /\ back.stage = s.stage /\ back.pool = s.pool /\ back.lanes = [s.lanes EXCEPT ![c] = D!Returned(s.lanes[c])]
        /\ back = [stage |-> s.stage, pool |-> s.pool, lanes |-> [s.lanes EXCEPT ![c] = D!Returned(s.lanes[c])]]
    BY <1>0
  <2>3. /\ IsLine(s.lanes[c].line, W) /\ (s.lanes[c].line # <<>> => s.lanes[c].free = 0)
        /\ N + s.lanes[c].free + 1 = D!Of(c).conc
    BY <1>2 DEF SiteFits, LaneFits
  <2>4. D!Of(c).conc \in Nat /\ N \in Nat
    <3>1. D!Of(c).conc \in Nat
      BY BooksAreCalls DEF D!Of, D!CallIds
    <3>2. IsFiniteSet({l \in D!LegsOf(c) : s.stage[l] \in {"queue", "granted", "runs"}})
      BY LegsAre, FS_Subset
    <3> QED BY <3>1, <3>2, FS_CardinalityType DEF Count, LaneHeld
  <2>5. CASE s.lanes[c].line = <<>>
    <3>1. D!FreesLane(s, c) = back
      BY <1>2, <2>5 DEF D!FreesLane
    <3>2. D!Returned(s.lanes[c]) = [free |-> s.lanes[c].free + 1, line |-> <<>>]
      BY <2>1, <2>5 DEF D!Returned
    <3>3. back.lanes[c] = [free |-> s.lanes[c].free + 1, line |-> <<>>] /\ back.lanes[c] \in SlotsOfRuns
          /\ \A d \in D!CallIds \ {c} : back.lanes[d] = s.lanes[d]
      BY <1>0, <2>1, <2>2, <3>2 DEF SlotsOfRuns
    <3>4. back \in Sites
      BY <1>0, <2>2, <3>2, <3>3 DEF Sites, SlotsOfRuns
    <3> HIDE DEF back
    <3>5. PoolFits(back)
      BY <1>0, <2>2 DEF PoolFits
    <3>6. LaneFits(back, c, {})
      BY <1>2, <2>2, <2>3, <2>4, <2>5, <3>3, <2>1 DEF LaneFits
    <3>7. ASSUME NEW d \in D!CallIds \ {c} PROVE LaneFits(back, d, {})
      <4>1. LaneFits(s, d, {c})
        BY DEF SiteFits
      <4> QED BY <2>2, <3>3, <4>1 DEF LaneFits
    <3> QED BY <2>2, <3>1, <3>4, <3>5, <3>6, <3>7 DEF SiteFits
  <2>6. CASE s.lanes[c].line # <<>>
    <3> DEFINE h == Head(s.lanes[c].line)
               t == D!Enter(back, h)
    <3>1. D!FreesLane(s, c) = t
      BY <1>2, <2>6 DEF D!FreesLane
    <3>2. D!Returned(s.lanes[c]) = [free |-> 0, line |-> Tail(s.lanes[c].line)]
      BY <2>1, <2>3, <2>6 DEF D!Returned
    <3>3. h \in W /\ IsLine(Tail(s.lanes[c].line), W \ {h})
      <4> HIDE DEF W
      <4> QED BY <2>3, <2>6, LineShrinks
    <3>4. h \in D!LegsOf(c) /\ h \in D!Legs /\ s.stage[h] = "line" /\ \A d \in D!CallIds \ {c} : h \notin D!LegsOf(d)
      BY <3>3, LegsAre
    <3>5. back.lanes[c] = [free |-> 0, line |-> Tail(s.lanes[c].line)] /\ back.lanes \in [D!CallIds -> SlotsOfRuns]
          /\ \A d \in D!CallIds \ {c} : back.lanes[d] = s.lanes[d]
      <4>1. Tail(s.lanes[c].line) \in Seq(D!Legs)
        BY <2>1, <2>6 DEF SlotsOfRuns
      <4>2. [free |-> 0, line |-> Tail(s.lanes[c].line)] \in SlotsOfRuns
        BY <4>1 DEF SlotsOfRuns
      <4>3. back.lanes = [s.lanes EXCEPT ![c] = [free |-> 0, line |-> Tail(s.lanes[c].line)]]
        BY <2>2, <3>2
      <4> HIDE DEF back
      <4> QED BY <1>0, <4>2, <4>3
    <3>6. back \in Sites
      BY <1>0, <2>2, <3>5 DEF Sites
    <3> HIDE DEF back, h
    <3>7. PoolFits(back)
      BY <1>0, <2>2 DEF PoolFits
    <3>8. t \in Sites /\ PoolFits(t) /\ t.lanes = back.lanes /\ \E x \in {"queue", "granted"} : t.stage = [s.stage EXCEPT ![h] = x]
      BY <2>2, <3>4, <3>6, <3>7, EnterFits
    <3> HIDE DEF t
    <3>9. PICK x \in {"queue", "granted"} : t.stage = [s.stage EXCEPT ![h] = x]
      BY <3>8
    <3>10. t.stage[h] = x /\ \A l \in D!Legs \ {h} : t.stage[l] = s.stage[l]
      BY <1>0, <3>4, <3>9
    <3>11. LaneFits(t, c, {})
      <4>1. {l \in D!LegsOf(c) : t.stage[l] = "line"} = W \ {h}
        <5>1. D!LegsOf(c) \subseteq D!Legs
          BY LegsAre
        <5> QED BY <3>10, <5>1
      <4>2. LaneHeld(t.stage, c) = N + 1
        <5> DEFINE f == s.stage
                   g == t.stage
        <5>1. h[1] = c /\ f[h] = "line" /\ g[h] \in {"queue", "granted"} /\ \A l \in D!Legs \ {h} : g[l] = f[l]
          BY <3>4, <3>10, LegsAre
        <5> HIDE DEF f, g
        <5>2. LaneHeld(g, c) = LaneHeld(f, c) + 1
          BY <3>4, <5>1, HeldMoves DEF HeldMoved
        <5> QED BY <5>2 DEF f, g
      <4>3. t.lanes[c].free = 0 /\ t.lanes[c].line = Tail(s.lanes[c].line) /\ s.lanes[c].free = 0
        <5>1. t.lanes[c] = [free |-> 0, line |-> Tail(s.lanes[c].line)]
          BY <3>5, <3>8
        <5> HIDE DEF W, N
        <5> QED BY <2>3, <2>6, <5>1
      <4> HIDE DEF W, N
      <4>4. N + 1 + 0 + 0 = D!Of(c).conc
        BY <2>3, <2>4, <4>3
      <4>5. IsLine(t.lanes[c].line, {l \in D!LegsOf(c) : t.stage[l] = "line"})
        BY <3>3, <4>1, <4>3
      <4> QED BY <1>2, <2>4, <4>2, <4>3, <4>4, <4>5 DEF LaneFits
    <3>12. ASSUME NEW d \in D!CallIds \ {c} PROVE LaneFits(t, d, {})
      <4>1. LaneFits(s, d, {c})
        BY DEF SiteFits
      <4>2. \A l \in D!LegsOf(d) : t.stage[l] = s.stage[l]
        BY <3>4, <3>10, LegsAre
      <4>3. LaneHeld(t.stage, d) = LaneHeld(s.stage, d)
        BY <4>2, HeldSame
      <4>4. {l \in D!LegsOf(d) : t.stage[l] = "line"} = {l \in D!LegsOf(d) : s.stage[l] = "line"}
        BY <4>2
      <4> QED BY <3>5, <3>8, <4>1, <4>2, <4>3, <4>4 DEF LaneFits
    <3> QED BY <3>1, <3>4, <3>8, <3>10, <3>11, <3>12 DEF SiteFits
  <2> QED BY <2>5, <2>6
<1> QED BY <1>1, <1>2

LEMMA FreesPoolIs ==
  ASSUME NEW s, NEW f, NEW p, NEW lanes_, s = [stage |-> f, pool |-> p, lanes |-> lanes_]
  PROVE  D!FreesPool(s) = [stage |-> [k \in DOMAIN f |-> IF k \in D!Heir(p) THEN "granted" ELSE f[k]],
                           pool |-> D!Returned(p), lanes |-> lanes_]
<1> DEFINE given(x, y) == [k \in DOMAIN x |-> IF k \in D!Heir(y) THEN "granted" ELSE x[k]]
<1>1. D!FreesPool(s) = [s EXCEPT !.pool = D!Returned(s.pool), !.stage = given(s.stage, s.pool)]
  BY DEF D!FreesPool
<1>2. s.stage = f /\ s.pool = p
  OBVIOUS
<1>3. given(s.stage, s.pool) = given(f, p)
  BY <1>2
<1> HIDE DEF given
<1>4. D!FreesPool(s) = [s EXCEPT !.pool = D!Returned(p), !.stage = given(f, p)]
  BY <1>1, <1>2, <1>3
<1>5. D!FreesPool(s) = [stage |-> given(f, p), pool |-> D!Returned(p), lanes |-> lanes_]
  BY <1>4
<1> QED BY <1>5 DEF given

\* A leg that ends, or is stopped where it waits, leaves the slots as they must be.
LEMMA LeavesFits ==
  ASSUME book \in Books, NEW s, SiteFits(s, {}), NEW l \in D!Legs, s.stage[l] \in {"line", "queue", "granted", "runs"}
  PROVE  /\ SiteFits(D!Leaves(s, l), {}) /\ D!Leaves(s, l).stage[l] = "over"
         /\ MovesOn(s.stage, D!Leaves(s, l).stage, l)
<1> DEFINE c == l[1]
           g == [s.stage EXCEPT ![l] = "over"]
           f == s.stage
           gone == [s EXCEPT !.stage[l] = "over"]
<1>0. /\ f \in [D!Legs -> Stages] /\ s.pool \in SlotsOfRuns /\ s.lanes \in [D!CallIds -> SlotsOfRuns]
      /\ s = [stage |-> f, pool |-> s.pool, lanes |-> s.lanes] /\ s \in Sites /\ PoolFits(s)
  BY DEF Sites, SiteFits
<1>1. gone = [stage |-> g, pool |-> s.pool, lanes |-> s.lanes] /\ gone.stage = g /\ gone.pool = s.pool /\ gone.lanes = s.lanes
  BY <1>0
<1> HIDE DEF gone
<1>2. g \in [D!Legs -> Stages] /\ g[l] = "over" /\ \A k \in D!Legs \ {l} : g[k] = f[k]
  BY <1>0 DEF Stages
<1>3. c \in D!CallIds /\ l \in D!LegsOf(c) /\ D!LegsOf(c) \subseteq D!Legs /\ \A d \in D!CallIds : d # c => l \notin D!LegsOf(d) /\ D!LegsOf(d) \subseteq D!Legs
  BY LegsAre
<1> HIDE DEF f, g, c
<1>4. /\ PoolHeld(f) \in Nat /\ PoolHeld(g) = PoolHeld(f) - (IF f[l] \in {"granted", "runs"} THEN 1 ELSE 0)
      /\ LaneHeld(f, c) \in Nat /\ LaneHeld(g, c) = LaneHeld(f, c) - (IF f[l] \in {"queue", "granted", "runs"} THEN 1 ELSE 0)
      /\ \A d \in D!CallIds \ {c} : LaneHeld(g, d) = LaneHeld(f, d)
  <2>1. g[l] \notin {"granted", "runs"} /\ g[l] \notin {"queue", "granted", "runs"}
    BY <1>2
  <2>2. HeldMoved(f, g, l)
    <3>1. \A k \in D!Legs \ {l} : g[k] = f[k]
      BY <1>2
    <3> QED BY <3>1, HeldMoves
  <2> QED BY <2>1, <2>2 DEF c, HeldMoved
<1>5. \A d \in D!CallIds : LaneFits(s, d, {})
  BY DEF SiteFits
<1>6. {k \in D!Legs : g[k] = "queue"} = {k \in D!Legs : f[k] = "queue"} \ {l}
  BY <1>2
<1>7. \A d \in D!CallIds : {k \in D!LegsOf(d) : g[k] = "line"} = {k \in D!LegsOf(d) : f[k] = "line"} \ {l}
  BY <1>2, <1>3
<1>8. ASSUME NEW t \in Sites, t.stage = g, t.lanes = s.lanes, NEW d \in D!CallIds \ {c} PROVE LaneFits(t, d, {})
  <2>1. {k \in D!LegsOf(d) : g[k] = "line"} = {k \in D!LegsOf(d) : f[k] = "line"}
    BY <1>2, <1>3
  <2>2. \A k \in D!LegsOf(d) : g[k] = f[k]
    BY <1>2, <1>3
  <2> QED BY <1>4, <1>5, <1>8, <2>1, <2>2 DEF LaneFits, f
<1>13. ASSUME NEW t \in Sites, t.stage = g, t.lanes = s.lanes, f[l] \in {"queue", "granted", "runs"} PROVE LaneFits(t, c, {c})
  <2>1. {k \in D!LegsOf(c) : g[k] = "line"} = {k \in D!LegsOf(c) : f[k] = "line"}
    BY <1>3, <1>7, <1>13
  <2>2. LaneFits(s, c, {}) /\ s.lanes[c].free \in Nat
    BY <1>0, <1>3, <1>5 DEF SlotsOfRuns
  <2>3. ~D!Narrow(c) => LaneFits(t, c, {c})
    BY <2>1, <2>2, <1>13 DEF LaneFits, f
  <2>4. ASSUME D!Narrow(c) PROVE LaneFits(t, c, {c})
    <3>1. /\ IsLine(s.lanes[c].line, {k \in D!LegsOf(c) : f[k] = "line"}) /\ (s.lanes[c].line # <<>> => s.lanes[c].free = 0)
          /\ LaneHeld(f, c) + s.lanes[c].free + 0 = D!Of(c).conc
      BY <2>2, <2>4 DEF LaneFits, f
    <3>2. LaneHeld(g, c) = LaneHeld(f, c) - 1
      BY <1>4, <1>13
    <3>3. LaneHeld(g, c) + s.lanes[c].free + 1 = D!Of(c).conc
      BY <1>4, <2>2, <3>1, <3>2
    <3> QED BY <1>13, <2>1, <2>4, <3>1, <3>3 DEF LaneFits
  <2> QED BY <2>3, <2>4
<1>9. CASE f[l] = "line"
  <2> DEFINE lane == D!Without(s.lanes[c], l)
             t == [gone EXCEPT !.lanes[c] = lane]
             W == {k \in D!LegsOf(c) : f[k] = "line"}
  <2>1. D!Leaves(s, l) = t
    BY <1>9 DEF D!Leaves, c, f, gone
  <2>2. D!Narrow(c)
    BY <1>3, <1>5, <1>9 DEF LaneFits, f
  <2>3. IsLine(s.lanes[c].line, W) /\ (s.lanes[c].line # <<>> => s.lanes[c].free = 0) /\ LaneHeld(f, c) + s.lanes[c].free = D!Of(c).conc
    <3>1. s.lanes[c].free \in Nat
      BY <1>0, <1>3 DEF SlotsOfRuns
    <3>2. /\ IsLine(s.lanes[c].line, W) /\ (s.lanes[c].line # <<>> => s.lanes[c].free = 0)
          /\ LaneHeld(f, c) + s.lanes[c].free + 0 = D!Of(c).conc
      BY <1>3, <1>5, <2>2 DEF LaneFits, f
    <3> QED BY <1>4, <3>1, <3>2
  <2>4. s.lanes[c] = [free |-> s.lanes[c].free, line |-> s.lanes[c].line] /\ s.lanes[c].free \in Nat
    BY <1>0, <1>3 DEF SlotsOfRuns
  <2>5. l \in W
    BY <1>3, <1>9
  <2>6. lane.free = s.lanes[c].free /\ IsLine(lane.line, W \ {l}) /\ lane = [free |-> s.lanes[c].free, line |-> lane.line]
    <3> HIDE DEF W
    <3> QED BY <2>3, <2>4, <2>5, LineWithout
  <2>7. lane \in SlotsOfRuns /\ (lane.line # <<>> => s.lanes[c].line # <<>>)
    <3>1. lane.line \in Seq(D!Legs)
      <4>1. lane.line \in Seq(W \ {l})
        BY <2>6 DEF IsLine
      <4>2. W \ {l} \subseteq D!Legs
        BY <1>3
      <4> HIDE DEF W, lane
      <4> QED BY <4>1, <4>2, SeqMonotonic
    <3>2. lane = [free |-> lane.free, line |-> lane.line]
      BY <2>6
    <3>3. s.lanes[c].line # <<>>
      <4> HIDE DEF W
      <4> QED BY <2>3, <2>5, EmptyLine
    <3> HIDE DEF lane
    <3> QED BY <2>4, <2>6, <3>1, <3>2, <3>3 DEF SlotsOfRuns
  <2>8. t = [stage |-> g, pool |-> s.pool, lanes |-> [s.lanes EXCEPT ![c] = lane]]
    BY <1>1
  <2> HIDE DEF lane
  <2>9. t \in Sites /\ t.stage = g /\ t.pool = s.pool /\ t.lanes[c] = lane /\ \A d \in D!CallIds \ {c} : t.lanes[d] = s.lanes[d]
    BY <1>0, <1>2, <1>3, <2>7, <2>8 DEF Sites
  <2> HIDE DEF t
  <2>10. PoolFits(t)
    <3>1. {k \in D!Legs : g[k] = "queue"} = {k \in D!Legs : f[k] = "queue"}
      BY <1>2, <1>9
    <3>2. PoolHeld(g) = PoolHeld(f)
      BY <1>4, <1>9
    <3> QED BY <1>0, <2>9, <3>1, <3>2 DEF PoolFits, f
  <2>11. LaneFits(t, c, {})
    <3>1. LaneHeld(g, c) = LaneHeld(f, c)
      BY <1>4, <1>9
    <3>2. IsLine(lane.line, {k \in D!LegsOf(c) : g[k] = "line"})
      BY <1>3, <1>7, <2>6
    <3>3. lane.line # <<>> => lane.free = 0
      BY <2>3, <2>6, <2>7
    <3>4. LaneHeld(g, c) + lane.free + 0 = D!Of(c).conc
      BY <1>4, <2>3, <2>4, <2>6, <3>1
    <3> QED BY <2>2, <2>9, <3>2, <3>3, <3>4 DEF LaneFits
  <2>12. ASSUME NEW d \in D!CallIds \ {c} PROVE LaneFits(t, d, {})
    <3>1. {k \in D!LegsOf(d) : g[k] = "line"} = {k \in D!LegsOf(d) : f[k] = "line"}
      BY <1>2, <1>3
    <3>2. \A k \in D!LegsOf(d) : g[k] = f[k]
      BY <1>2, <1>3
    <3> QED BY <1>4, <1>5, <2>9, <3>1, <3>2 DEF LaneFits, f
  <2> QED BY <1>2, <2>1, <2>9, <2>10, <2>11, <2>12 DEF SiteFits, MovesOn, f
<1>10. CASE f[l] = "queue"
  <2> DEFINE pool_ == D!Without(s.pool, l)
             t == [gone EXCEPT !.pool = pool_]
             W == {k \in D!Legs : f[k] = "queue"}
  <2>1. D!Leaves(s, l) = D!FreesLane(t, c)
    BY <1>10 DEF D!Leaves, c, f, gone
  <2>2. IsLine(s.pool.line, W) /\ (s.pool.line # <<>> => s.pool.free = 0) /\ PoolHeld(f) + s.pool.free = PoolSize
    BY <1>0 DEF PoolFits, f
  <2>3. s.pool = [free |-> s.pool.free, line |-> s.pool.line] /\ s.pool.free \in Nat
    BY <1>0 DEF SlotsOfRuns
  <2>4. l \in W
    BY <1>10
  <2>5. pool_.free = s.pool.free /\ IsLine(pool_.line, W \ {l}) /\ pool_ = [free |-> s.pool.free, line |-> pool_.line]
    <3> HIDE DEF W
    <3> QED BY <2>2, <2>3, <2>4, LineWithout
  <2>6. pool_ \in SlotsOfRuns /\ s.pool.line # <<>>
    <3>1. pool_.line \in Seq(D!Legs)
      <4>1. pool_.line \in Seq(W \ {l})
        BY <2>5 DEF IsLine
      <4>2. W \ {l} \subseteq D!Legs
        OBVIOUS
      <4> HIDE DEF W, pool_
      <4> QED BY <4>1, <4>2, SeqMonotonic
    <3>2. pool_ = [free |-> pool_.free, line |-> pool_.line]
      BY <2>5
    <3>3. s.pool.line # <<>>
      <4> HIDE DEF W
      <4> QED BY <2>2, <2>4, EmptyLine
    <3> HIDE DEF pool_
    <3> QED BY <2>3, <2>5, <3>1, <3>2, <3>3 DEF SlotsOfRuns
  <2>7. t = [stage |-> g, pool |-> pool_, lanes |-> s.lanes]
    BY <1>1
  <2> HIDE DEF pool_
  <2>8. t \in Sites /\ t.stage = g /\ t.pool = pool_ /\ t.lanes = s.lanes
    BY <1>0, <1>2, <2>6, <2>7 DEF Sites
  <2> HIDE DEF t
  <2>9. PoolFits(t)
    <3>1. PoolHeld(g) = PoolHeld(f)
      BY <1>4, <1>10
    <3> QED BY <1>6, <2>2, <2>5, <2>6, <2>8, <3>1 DEF PoolFits
  <2>10. LaneFits(t, c, {c})
    BY <1>10, <1>13, <2>8
  <2>11. \A d \in D!CallIds \ {c} : LaneFits(t, d, {c})
    BY <1>8, <2>8 DEF LaneFits
  <2>12. SiteFits(t, {c})
    BY <2>8, <2>9, <2>10, <2>11 DEF SiteFits
  <2> QED BY <1>2, <1>3, <2>1, <2>8, <2>12, FreesLaneFits DEF MovesOn, f
<1>11. CASE f[l] \in {"granted", "runs"}
  <2> DEFINE t == D!FreesPool(gone)
             W == {k \in D!Legs : f[k] = "queue"}
  <2>1. D!Leaves(s, l) = D!FreesLane(t, c)
    BY <1>11 DEF D!Leaves, c, f, gone
  <2>2. IsLine(s.pool.line, W) /\ (s.pool.line # <<>> => s.pool.free = 0) /\ PoolHeld(f) + s.pool.free = PoolSize
    BY <1>0 DEF PoolFits, f
  <2>3. s.pool = [free |-> s.pool.free, line |-> s.pool.line] /\ s.pool.free \in Nat /\ s.pool.line \in Seq(D!Legs)
    BY <1>0 DEF SlotsOfRuns
  <2>4. CASE s.pool.line = <<>>
    <3>1. t = [stage |-> g, pool |-> [free |-> s.pool.free + 1, line |-> <<>>], lanes |-> s.lanes]
      <4>1. D!Returned(s.pool) = [free |-> s.pool.free + 1, line |-> <<>>]
        BY <2>3, <2>4 DEF D!Returned
      <4>2. [k \in DOMAIN g |-> IF k \in D!Heir(s.pool) THEN "granted" ELSE g[k]] = g
        BY <1>2, <2>4 DEF D!Heir
      <4>3. t = [stage |-> [k \in DOMAIN g |-> IF k \in D!Heir(s.pool) THEN "granted" ELSE g[k]], pool |-> D!Returned(s.pool), lanes |-> s.lanes]
        BY <1>1, FreesPoolIs
      <4> QED BY <4>1, <4>2, <4>3
    <3>2. t \in Sites /\ t.stage = g /\ t.pool.free = s.pool.free + 1 /\ t.pool.line = <<>> /\ t.lanes = s.lanes
      <4>1. [free |-> s.pool.free + 1, line |-> <<>>] \in SlotsOfRuns
        BY <2>3 DEF SlotsOfRuns
      <4> HIDE DEF t
      <4> QED BY <1>0, <1>2, <3>1, <4>1 DEF Sites
    <3> HIDE DEF t
    <3>3. PoolFits(t)
      <4>1. PoolHeld(g) + t.pool.free = PoolSize
        BY <1>4, <1>11, <2>2, <2>3, <3>2
      <4>2. {k \in D!Legs : g[k] = "queue"} = W
        BY <1>6, <1>11
      <4> QED BY <2>2, <2>4, <3>2, <4>1, <4>2 DEF PoolFits
    <3>4. LaneFits(t, c, {c})
      BY <1>11, <1>13, <3>2
    <3>5. \A d \in D!CallIds \ {c} : LaneFits(t, d, {c})
      BY <1>8, <3>2 DEF LaneFits
    <3>6. SiteFits(t, {c})
      BY <3>2, <3>3, <3>4, <3>5 DEF SiteFits
    <3> QED BY <1>2, <1>3, <2>1, <3>2, <3>6, FreesLaneFits DEF MovesOn, f
  <2>5. CASE s.pool.line # <<>>
    <3> DEFINE h == Head(s.pool.line)
               e == [g EXCEPT ![h] = "granted"]
    <3>1. h \in W /\ IsLine(Tail(s.pool.line), W \ {h}) /\ s.pool.free = 0
      <4> HIDE DEF W
      <4> QED BY <2>2, <2>5, LineShrinks
    <3>2. h \in D!Legs /\ h # l /\ f[h] = "queue" /\ h[1] \in D!CallIds /\ h \in D!LegsOf(h[1]) /\ (\A d \in D!CallIds : d # h[1] => h \notin D!LegsOf(d))
      BY <1>11, <3>1, LegsAre
    <3>3. t = [stage |-> e, pool |-> [free |-> 0, line |-> Tail(s.pool.line)], lanes |-> s.lanes]
      <4>1. D!Returned(s.pool) = [free |-> 0, line |-> Tail(s.pool.line)]
        BY <2>3, <2>5, <3>1 DEF D!Returned
      <4>2. D!Heir(s.pool) = {h}
        BY <2>5 DEF D!Heir
      <4>3. [k \in DOMAIN g |-> IF k \in {h} THEN "granted" ELSE g[k]] = e
        <5>1. DOMAIN g = D!Legs
          BY <1>2
        <5> QED BY <5>1
      <4>4. t = [stage |-> [k \in DOMAIN g |-> IF k \in D!Heir(s.pool) THEN "granted" ELSE g[k]], pool |-> D!Returned(s.pool), lanes |-> s.lanes]
        BY <1>1, FreesPoolIs
      <4> HIDE DEF h, e, t
      <4> QED BY <4>1, <4>2, <4>3, <4>4
    <3>4. e \in [D!Legs -> Stages] /\ e[h] = "granted" /\ e[l] = "over" /\ (\A k \in D!Legs \ {h} : e[k] = g[k]) /\ g[h] = "queue"
      BY <1>2, <3>2 DEF Stages
    <3>5. t \in Sites /\ t.stage = e /\ t.pool.free = 0 /\ t.pool.line = Tail(s.pool.line) /\ t.lanes = s.lanes
      <4>1. [free |-> 0, line |-> Tail(s.pool.line)] \in SlotsOfRuns
        BY <2>3, <2>5 DEF SlotsOfRuns
      <4> HIDE DEF t, e
      <4> QED BY <1>0, <3>3, <3>4, <4>1 DEF Sites
    <3> HIDE DEF t, e, h
    <3>6. PoolHeld(e) = PoolHeld(g) + 1 /\ \A d \in D!CallIds : LaneHeld(e, d) = LaneHeld(g, d)
      <4>1. e[h] \in {"granted", "runs"} /\ e[h] \in {"queue", "granted", "runs"} /\ g[h] \notin {"granted", "runs"} /\ g[h] \in {"queue", "granted", "runs"}
        BY <3>4
      <4>2. /\ PoolHeld(g) \in Nat /\ PoolHeld(e) \in Nat
            /\ PoolHeld(e) = PoolHeld(g) - (IF g[h] \in {"granted", "runs"} THEN 1 ELSE 0) + (IF e[h] \in {"granted", "runs"} THEN 1 ELSE 0)
            /\ LaneHeld(g, h[1]) \in Nat /\ LaneHeld(e, h[1]) \in Nat
            /\ LaneHeld(e, h[1]) = LaneHeld(g, h[1]) - (IF g[h] \in {"queue", "granted", "runs"} THEN 1 ELSE 0)
                                      + (IF e[h] \in {"queue", "granted", "runs"} THEN 1 ELSE 0)
            /\ \A d \in D!CallIds \ {h[1]} : LaneHeld(e, d) = LaneHeld(g, d)
        BY <3>2, <3>4, HeldMoves DEF HeldMoved
      <4> QED BY <4>1, <4>2
    <3>7. {k \in D!Legs : e[k] = "queue"} = W \ {h}
      BY <1>6, <1>11, <3>2, <3>4
    <3>8. \A d \in D!CallIds : {k \in D!LegsOf(d) : e[k] = "line"} = {k \in D!LegsOf(d) : f[k] = "line"}
      <4>1. \A k \in D!Legs : e[k] = "line" <=> f[k] = "line"
        BY <1>2, <1>11, <3>2, <3>4
      <4> QED BY <4>1, LegsAre
    <3>9. PoolFits(t)
      <4>1. PoolHeld(e) + 0 = PoolSize
        BY <1>4, <1>11, <2>2, <2>3, <3>1, <3>6
      <4>2. IsLine(t.pool.line, {k \in D!Legs : e[k] = "queue"})
        BY <3>1, <3>5, <3>7
      <4> QED BY <3>5, <4>1, <4>2 DEF PoolFits
    <3>10. ASSUME NEW d \in D!CallIds PROVE LaneFits(t, d, {c})
      <4>1. LaneFits(s, d, {}) /\ (\A k \in D!LegsOf(d) : e[k] = "line" <=> f[k] = "line")
        BY <1>5, <3>8
      <4>2. LaneHeld(e, d) + (IF d \in {c} THEN 1 ELSE 0) = LaneHeld(f, d)
        <5>1. d \notin {c} => LaneHeld(e, d) = LaneHeld(f, d) /\ LaneHeld(e, d) + 0 = LaneHeld(e, d)
          <6>1. LaneHeld(e, d) \in Nat
            <7>1. IsFiniteSet({k \in D!LegsOf(d) : e[k] \in {"queue", "granted", "runs"}})
              BY LegsAre, FS_Subset
            <7> QED BY <7>1, FS_CardinalityType DEF LaneHeld, Count
          <6> QED BY <1>4, <3>6, <6>1
        <5>2. d \in {c} => LaneHeld(e, d) + 1 = LaneHeld(f, d)
          BY <1>4, <1>11, <3>6
        <5> QED BY <5>1, <5>2
      <4>3. s.lanes[d].free \in Nat /\ LaneHeld(f, d) \in Nat /\ LaneHeld(e, d) \in Nat /\ t.lanes[d] = s.lanes[d]
        <5>1. IsFiniteSet({k \in D!LegsOf(d) : e[k] \in {"queue", "granted", "runs"}}) /\ IsFiniteSet({k \in D!LegsOf(d) : f[k] \in {"queue", "granted", "runs"}})
          BY LegsAre, FS_Subset
        <5>2. s.lanes[d].free \in Nat
          BY <1>0 DEF SlotsOfRuns
        <5> QED BY <3>5, <5>1, <5>2, FS_CardinalityType DEF LaneHeld, Count
      <4>4. D!Narrow(d) => LaneHeld(e, d) + t.lanes[d].free + (IF d \in {c} THEN 1 ELSE 0) = D!Of(d).conc
        <5>1. D!Narrow(d) => LaneHeld(f, d) + s.lanes[d].free + 0 = D!Of(d).conc
          BY <4>1 DEF LaneFits, f
        <5> QED BY <4>2, <4>3, <5>1
      <4> QED BY <3>5, <3>8, <4>1, <4>3, <4>4 DEF LaneFits, f
    <3>11. SiteFits(t, {c})
      BY <3>5, <3>9, <3>10 DEF SiteFits
    <3>12. \A k \in D!Legs : k # l => e[k] = f[k] \/ (f[k] = "queue" /\ e[k] = "granted")
      BY <1>2, <3>2, <3>4
    <3> QED BY <1>3, <2>1, <3>4, <3>5, <3>11, <3>12, FreesLaneFits DEF MovesOn, f
  <2> QED BY <2>4, <2>5
<1> QED BY <1>9, <1>10, <1>11 DEF f

\* Some legs of a call, in their order.
LEMMA LegsInOrder ==
  ASSUME NEW c, NEW a \in Nat, NEW k \in Nat
  PROVE  IsLine([n \in 1..k |-> <<c, a + n>>], {<<c, m>> : m \in (a + 1)..(a + k)})
<1> DEFINE q == [n \in 1..k |-> <<c, a + n>>]
           W == {<<c, m>> : m \in (a + 1)..(a + k)}
<1>1. DOMAIN q = 1..k /\ \A n \in 1..k : q[n] = <<c, a + n>>
  OBVIOUS
<1>2. \A n \in 1..k : a + n \in (a + 1)..(a + k)
  OBVIOUS
<1>3. q \in [1..k -> W]
  BY <1>1, <1>2
<1> HIDE DEF q
<1>4. q \in Seq(W) /\ Len(q) = k
  <2> HIDE DEF W
  <2> QED BY <1>1, <1>3, SeqDef
<1>5. \A w \in W : \E i \in 1..Len(q) : q[i] = w
  <2> TAKE w \in W
  <2>1. PICK m \in (a + 1)..(a + k) : w = <<c, m>>
    OBVIOUS
  <2>2. m - a \in 1..k /\ a + (m - a) = m
    OBVIOUS
  <2> QED BY <1>1, <1>4, <2>1, <2>2
<1>6. \A i, j \in 1..Len(q) : q[i] = q[j] => i = j
  <2> TAKE i, j \in 1..Len(q)
  <2>1. q[i] = <<c, a + i>> /\ q[j] = <<c, a + j>> /\ i \in Int /\ j \in Int
    BY <1>1, <1>4
  <2>2. q[i] = q[j] => a + i = a + j
    BY <2>1
  <2> QED BY <2>1, <2>2
<1> HIDE DEF W
<1>7. IsLine(q, W)
  BY <1>4, <1>5, <1>6 DEF IsLine
<1> QED BY <1>7 DEF q, W

LEMMA LegsCounted ==
  ASSUME NEW c, NEW k \in Nat
  PROVE  IsFiniteSet({<<c, n>> : n \in 1..k}) /\ Cardinality({<<c, n>> : n \in 1..k}) = k
<1> DEFINE f == [n \in 1..k |-> <<c, n>>]
           W == {<<c, n>> : n \in 1..k}
<1>1. f \in Bijection(1..k, W)
  <2>1. f \in [1..k -> W]
    OBVIOUS
  <2>2. \A i, j \in 1..k : f[i] = f[j] => i = j
    OBVIOUS
  <2>3. \A l \in W : \E n \in 1..k : f[n] = l
    OBVIOUS
  <2> QED BY <2>1, <2>2, <2>3 DEF Bijection, Injection, Surjection, IsInjective
<1>2. IsFiniteSet(1..k) /\ Cardinality(1..k) = k
  BY FS_Interval
<1> HIDE DEF f, W
<1>3. IsFiniteSet(W) /\ Cardinality(W) = k
  BY <1>1, <1>2, FS_Bijection DEF ExistsBijection
<1> QED BY <1>3 DEF W

\* New members count once each.
LEMMA CountAdds ==
  ASSUME NEW L, IsFiniteSet(L), NEW f, NEW g, NEW Q, NEW V \in SUBSET L,
         \A l \in L \ V : g[l] \in Q <=> f[l] \in Q, \A l \in V : f[l] \notin Q /\ g[l] \in Q
  PROVE  Count(f, L, Q) \in Nat /\ Count(g, L, Q) = Count(f, L, Q) + Cardinality(V)
<1> DEFINE F_ == {l \in L : f[l] \in Q}
           G_ == {l \in L : g[l] \in Q}
<1>1. IsFiniteSet(F_) /\ IsFiniteSet(V)
  <2>1. F_ \in SUBSET L
    OBVIOUS
  <2> QED BY <2>1, FS_Subset
<1>2. G_ = F_ \cup V /\ F_ \cap V = {}
  OBVIOUS
<1> HIDE DEF F_, G_
<1>3. Cardinality(G_) = Cardinality(F_) + Cardinality(V) /\ Cardinality(F_) \in Nat
  <2>1. Cardinality(F_ \cup V) = Cardinality(F_) + Cardinality(V) - Cardinality(F_ \cap V)
    BY <1>1, FS_Union
  <2>2. Cardinality(F_ \cap V) = 0
    BY <1>2, FS_EmptySet
  <2>3. Cardinality(F_) \in Nat /\ Cardinality(V) \in Nat
    BY <1>1, FS_CardinalityType
  <2> QED BY <1>2, <2>1, <2>2, <2>3
<1> QED BY <1>3 DEF Count, F_, G_

LEMMA BookStays ==
  ASSUME book' = book
  PROVE  /\ D!CallIds' = D!CallIds /\ D!Legs' = D!Legs /\ D!Writers' = D!Writers
         /\ \A c : /\ D!Of(c)' = D!Of(c) /\ D!Size(c)' = D!Size(c) /\ D!LegsOf(c)' = D!LegsOf(c)
                   /\ (D!Narrow(c)' <=> D!Narrow(c)) /\ (D!Headed(c)' <=> D!Headed(c))
                   /\ D!Verifiers(c)' = D!Verifiers(c) /\ D!Mutations(c)' = D!Mutations(c) /\ D!Writing(c)' = D!Writing(c)
                   /\ (D!Stale(c)' <=> D!Stale(c)) /\ (D!Contested(c)' <=> D!Contested(c))
         /\ \A l : D!Leg(l)' = D!Leg(l)
<1>1. D!CallIds' = D!CallIds /\ \A c : D!Of(c)' = D!Of(c)
  BY DEF D!CallIds, D!Of
<1>2. \A c : D!Size(c)' = D!Size(c)
  BY <1>1 DEF D!Size
<1>3. \A c : D!LegsOf(c)' = D!LegsOf(c)
  BY <1>2 DEF D!LegsOf
<1>4. D!Legs' = D!Legs
  BY <1>1, <1>3 DEF D!Legs
<1>5. \A l : D!Leg(l)' = D!Leg(l)
  BY <1>1 DEF D!Leg
<1>6. D!Writers' = D!Writers
  BY <1>4, <1>5 DEF D!Writers
<1>7. \A c : (D!Narrow(c)' <=> D!Narrow(c)) /\ (D!Headed(c)' <=> D!Headed(c))
  BY <1>1, <1>2 DEF D!Narrow, D!Headed
<1>8. \A c : D!Verifiers(c)' = D!Verifiers(c) /\ D!Mutations(c)' = D!Mutations(c)
  BY <1>1 DEF D!Verifiers, D!Mutations
<1>9. \A c : D!Writing(c)' = D!Writing(c)
  BY <1>8 DEF D!Writing
<1>10. \A c : D!Stale(c)' <=> D!Stale(c)
  BY <1>1, <1>8 DEF D!Stale
<1>11. \A c : D!Contested(c)' <=> D!Contested(c)
  BY <1>1, <1>9 DEF D!Contested, D!Unowned
<1> QED BY <1>1, <1>2, <1>3, <1>4, <1>5, <1>6, <1>7, <1>8, <1>9, <1>10, <1>11

SlotsFit == SiteFits(D!Site, {})

LEMMA SiteStays ==
  ASSUME book' = book, NEW s, SiteFits(s, {}), D!Becomes(s)
  PROVE  SlotsFit'
<1>1. s = [stage |-> s.stage, pool |-> s.pool, lanes |-> s.lanes]
  BY DEF SiteFits, Sites
<1>2. D!Site' = s
  BY <1>1 DEF D!Site, D!Becomes
<1>3. \A t : t \in Sites' <=> t \in Sites
  BY BookStays DEF Sites, SlotsOfRuns
<1>4. \A f : PoolHeld(f)' = PoolHeld(f) /\ \A c : LaneHeld(f, c)' = LaneHeld(f, c)
  BY BookStays DEF PoolHeld, LaneHeld
<1>5. PoolFits(D!Site)'
  <2>1. PoolFits(s)
    BY DEF SiteFits
  <2>2. D!Legs' = D!Legs
    BY BookStays
  <2> QED BY <1>2, <1>4, <2>1, <2>2 DEF PoolFits
<1>6. ASSUME NEW c \in D!CallIds PROVE LaneFits(D!Site, c, {})'
  <2>1. LaneFits(s, c, {})
    BY DEF SiteFits
  <2>2. D!LegsOf(c)' = D!LegsOf(c) /\ D!Of(c)' = D!Of(c) /\ (D!Narrow(c)' <=> D!Narrow(c))
    BY BookStays
  <2> QED BY <1>2, <1>4, <2>1, <2>2 DEF LaneFits
<1>7. (D!Site \in Sites)'
  BY <1>2, <1>3 DEF SiteFits
<1>8. D!CallIds' = D!CallIds
  BY BookStays
<1> QED BY <1>5, <1>6, <1>7, <1>8 DEF SlotsFit, SiteFits

\* A call that begins takes the slots there are; its other legs are in line.
LEMMA JoinsFits ==
  ASSUME book \in Books, book' = book, SlotsFit, NEW c \in D!CallIds, \A l \in D!LegsOf(c) : stage[l] = "new",
         D!Joins(c)
  PROVE  /\ SlotsFit'
         /\ \A l \in D!LegsOf(c) : stage'[l] \in {"line", "queue", "granted"}
         /\ \A l \in D!Legs : l[1] # c => stage'[l] = stage[l]
<1> DEFINE size == D!Size(c)
           conc == D!Of(c).conc
           through == IF D!Narrow(c) THEN conc ELSE size
           now == D!Min({through, pool.free})
           e == [l \in D!Legs |-> IF l[1] # c THEN stage[l]
                                  ELSE IF l[2] <= now THEN "granted" ELSE IF l[2] <= through THEN "queue" ELSE "line"]
           q == [n \in 1..(through - now) |-> <<c, now + n>>]
           r == [n \in 1..(size - through) |-> <<c, through + n>>]
           p == [free |-> pool.free - now, line |-> pool.line \o q]
           lane == [free |-> lanes[c].free - through, line |-> r]
           ls == IF D!Narrow(c) THEN [lanes EXCEPT ![c] = lane] ELSE lanes
           t == [stage |-> e, pool |-> p, lanes |-> ls]
<1>1. /\ stage \in [D!Legs -> Stages] /\ pool \in SlotsOfRuns /\ lanes \in [D!CallIds -> SlotsOfRuns]
      /\ PoolFits(D!Site) /\ \A d \in D!CallIds : LaneFits(D!Site, d, {})
  BY DEF SlotsFit, SiteFits, Sites, D!Site
<1>2. D!Site.stage = stage /\ D!Site.pool = pool /\ D!Site.lanes = lanes
  BY DEF D!Site
<1>3. /\ pool.free \in Nat /\ pool.line \in Seq(D!Legs) /\ conc \in Nat /\ size \in Nat
      /\ lanes[c].free \in Nat /\ lanes[c].line \in Seq(D!Legs)
  <2>1. conc \in Nat /\ size \in Nat
    BY BooksAreCalls, LegsAre DEF D!Of, D!CallIds
  <2> QED BY <1>1, <2>1 DEF SlotsOfRuns
<1>4. through \in Nat /\ through <= size /\ (D!Narrow(c) => through = conc) /\ (~D!Narrow(c) => through = size)
  BY <1>3 DEF D!Narrow
<1>5. D!Joins(c) => stage' = e /\ pool' = p /\ lanes' = ls
  <2>1. ~D!Narrow(c) => lanes' = lanes
    <3>1. [lanes EXCEPT ![c] = lanes[c]] = lanes
      BY <1>1
    <3> QED BY <3>1 DEF D!Joins
  <2> QED BY <2>1 DEF D!Joins
<1> HIDE DEF through
<1>6. now = (IF through <= pool.free THEN through ELSE pool.free)
  BY <1>3, <1>4, LesserOf
<1> HIDE DEF now
<1>7. now \in Nat /\ now <= through /\ now <= pool.free /\ through - now \in Nat /\ size - through \in Nat /\ size \in Nat
  BY <1>3, <1>4, <1>6
<1>8. /\ \A l \in D!LegsOf(c) : l[1] = c /\ l[2] \in 1..size /\ l = <<c, l[2]>> /\ l \in D!Legs
      /\ \A n \in 1..size : <<c, n>> \in D!LegsOf(c) /\ <<c, n>> \in D!Legs
      /\ \A l \in D!Legs : l[1] = c => l \in D!LegsOf(c)
  BY LegsAre
<1> HIDE DEF size, conc
<1>9. /\ \A l \in D!Legs : l[1] # c => e[l] = stage[l]
      /\ \A n \in 1..size : e[<<c, n>>] = IF n <= now THEN "granted" ELSE IF n <= through THEN "queue" ELSE "line"
  BY <1>8
<1>10. e \in [D!Legs -> Stages]
  BY <1>1 DEF Stages
<1> HIDE DEF e
<1>11. {l \in D!Legs : e[l] = "queue"} = {l \in D!Legs : stage[l] = "queue"} \cup {<<c, m>> : m \in (now + 1)..(now + (through - now))}
  <2>1. ASSUME NEW l \in D!Legs, l[1] # c
        PROVE  (e[l] = "queue" <=> stage[l] = "queue") /\ l \notin {<<c, m>> : m \in (now + 1)..(now + (through - now))}
    BY <1>9, <2>1
  <2>2. ASSUME NEW n \in 1..size
        PROVE  /\ stage[<<c, n>>] # "queue"
               /\ e[<<c, n>>] = "queue" <=> <<c, n>> \in {<<c, m>> : m \in (now + 1)..(now + (through - now))}
    <3>1. stage[<<c, n>>] = "new"
      BY <1>8
    <3>2. <<c, n>> \in {<<c, m>> : m \in (now + 1)..(now + (through - now))} <=> n \in (now + 1)..(now + (through - now))
      OBVIOUS
    <3>3. n \in (now + 1)..(now + (through - now)) <=> ~(n <= now) /\ n <= through
      BY <1>4, <1>7
    <3> QED BY <1>9, <3>1, <3>2, <3>3
  <2>3. \A m \in (now + 1)..(now + (through - now)) : m \in 1..size
    BY <1>4, <1>7
  <2>4. \A l \in D!Legs : l[1] = c => \E n \in 1..size : l = <<c, n>>
    BY <1>8
  <2> QED BY <1>8, <2>1, <2>2, <2>3, <2>4
<1>12. IsLine(q, {<<c, m>> : m \in (now + 1)..(now + (through - now))})
  BY <1>7, LegsInOrder
<1>13. (through - now = 0 => q = <<>>) /\ (size - through = 0 => r = <<>>)
  BY <1>7
<1>14. IsLine(r, {<<c, m>> : m \in (through + 1)..(through + (size - through))})
  BY <1>4, <1>7, LegsInOrder
<1> HIDE DEF q, r
<1>15. q \in Seq(D!Legs) /\ r \in Seq(D!Legs)
  <2>1. q \in Seq({<<c, m>> : m \in (now + 1)..(now + (through - now))}) /\ r \in Seq({<<c, m>> : m \in (through + 1)..(through + (size - through))})
    BY <1>12, <1>14 DEF IsLine
  <2>2. {<<c, m>> : m \in (now + 1)..(now + (through - now))} \subseteq D!Legs
    <3>1. \A m \in (now + 1)..(now + (through - now)) : m \in 1..size
      BY <1>4, <1>7
    <3> QED BY <1>8, <3>1
  <2>3. {<<c, m>> : m \in (through + 1)..(through + (size - through))} \subseteq D!Legs
    <3>1. \A m \in (through + 1)..(through + (size - through)) : m \in 1..size
      BY <1>4, <1>7
    <3> QED BY <1>8, <3>1
  <2> QED BY <2>1, <2>2, <2>3, SeqMonotonic
<1>16. p \in SlotsOfRuns /\ p.free = pool.free - now /\ p.line = pool.line \o q
  <2>1. pool.line \o q \in Seq(D!Legs)
    BY <1>3, <1>15
  <2>2. pool.free - now \in Nat
    BY <1>3, <1>7
  <2> QED BY <2>1, <2>2 DEF SlotsOfRuns
<1>17. {l \in D!LegsOf(c) : stage[l] = "line"} = {}
  OBVIOUS
<1>18. D!Narrow(c) => lanes[c].free = through /\ lanes[c].line = <<>>
  <2> SUFFICES ASSUME D!Narrow(c) PROVE lanes[c].free = through /\ lanes[c].line = <<>>
    OBVIOUS
  <2>1. IsLine(lanes[c].line, {}) /\ LaneHeld(stage, c) + lanes[c].free + 0 = conc
    BY <1>1, <1>2, <1>17 DEF LaneFits, conc
  <2>2. LaneHeld(stage, c) = 0
    <3>1. {l \in D!LegsOf(c) : stage[l] \in {"queue", "granted", "runs"}} = {}
      OBVIOUS
    <3> QED BY <3>1, FS_EmptySet DEF LaneHeld, Count
  <2> QED BY <1>3, <1>4, <2>1, <2>2, EmptyLine
<1>19. ls \in [D!CallIds -> SlotsOfRuns] /\ (\A d \in D!CallIds \ {c} : ls[d] = lanes[d]) /\ (D!Narrow(c) => ls[c].free = 0 /\ ls[c].line = r)
  <2>1. lane = [free |-> lanes[c].free - through, line |-> r]
    OBVIOUS
  <2>2. D!Narrow(c) => lane \in SlotsOfRuns /\ lane.free = 0 /\ lane.line = r
    BY <1>4, <1>15, <1>18 DEF SlotsOfRuns
  <2> HIDE DEF lane
  <2> QED BY <1>1, <2>2
<1> HIDE DEF p, ls
<1>20. t \in Sites /\ t.stage = e /\ t.pool = p /\ t.lanes = ls
  BY <1>10, <1>16, <1>19 DEF Sites
<1> HIDE DEF t
<1>21. PoolFits(t)
  <2> DEFINE V == {<<c, n>> : n \in 1..now}
             W == {<<c, m>> : m \in (now + 1)..(now + (through - now))}
             U == {l \in D!Legs : stage[l] = "queue"}
  <2>1. IsLine(pool.line, U) /\ (pool.line # <<>> => pool.free = 0) /\ PoolHeld(stage) + pool.free = PoolSize
    BY <1>1, <1>2 DEF PoolFits
  <2>2. U \cap W = {}
    <3>1. \A m \in (now + 1)..(now + (through - now)) : m \in 1..size
      BY <1>4, <1>7
    <3> QED BY <1>8, <3>1
  <2>3. IsLine(p.line, {l \in D!Legs : e[l] = "queue"})
    <3>1. IsLine(q, W) /\ {l \in D!Legs : e[l] = "queue"} = U \cup W
      BY <1>11, <1>12
    <3> HIDE DEF U, W
    <3>2. IsLine(pool.line \o q, U \cup W)
      BY <2>1, <2>2, <3>1, LinesJoin
    <3> QED BY <1>16, <3>1, <3>2
  <2>4. p.line # <<>> => p.free = 0
    <3>1. pool.line = <<>> /\ q = <<>> => pool.line \o q = <<>>
      OBVIOUS
    <3>2. q # <<>> => now = pool.free
      BY <1>3, <1>4, <1>6, <1>13
    <3>3. pool.free = 0 => now = 0
      BY <1>7
    <3> HIDE DEF U, W, V
    <3> QED BY <1>3, <1>16, <2>1, <3>1, <3>2, <3>3
  <2>5. PoolHeld(stage) \in Nat /\ PoolHeld(e) = PoolHeld(stage) + now
    <3>1. V \in SUBSET D!Legs /\ Cardinality(V) = now
      <4>1. \A n \in 1..now : n \in 1..size
        BY <1>4, <1>7
      <4>2. V \in SUBSET D!Legs
        BY <1>8, <4>1
      <4> QED BY <1>7, <4>2, LegsCounted
    <3>2. \A l \in D!Legs \ V : e[l] \in {"granted", "runs"} <=> stage[l] \in {"granted", "runs"}
      <4> TAKE l \in D!Legs \ V
      <4>1. CASE l[1] # c
        BY <1>9, <4>1
      <4>2. CASE l[1] = c
        <5>1. PICK n \in 1..size : l = <<c, n>>
          BY <1>8, <4>2
        <5>2. ~(n <= now)
          <6>1. n \notin 1..now
            BY <5>1
          <6> QED BY <1>7, <6>1
        <5>3. e[l] \in {"queue", "line"} /\ stage[l] = "new"
          BY <1>8, <1>9, <5>1, <5>2
        <5> QED BY <5>3
      <4> QED BY <4>1, <4>2
    <3>3. \A l \in V : stage[l] \notin {"granted", "runs"} /\ e[l] \in {"granted", "runs"}
      <4> TAKE l \in V
      <4>1. PICK n \in 1..now : l = <<c, n>>
        OBVIOUS
      <4>2. n \in 1..size /\ n <= now
        BY <1>4, <1>7
      <4>3. stage[l] = "new" /\ e[l] = "granted"
        BY <1>8, <1>9, <4>1, <4>2
      <4> QED BY <4>3
    <3> HIDE DEF V, U, W
    <3>4. IsFiniteSet(D!Legs)
      BY LegsAre
    <3> DEFINE L == D!Legs
               Q == {"granted", "runs"}
    <3>5. IsFiniteSet(L) /\ V \in SUBSET L /\ (\A l \in L \ V : e[l] \in Q <=> stage[l] \in Q) /\ \A l \in V : stage[l] \notin Q /\ e[l] \in Q
      BY <3>1, <3>2, <3>3, <3>4
    <3> HIDE DEF L, Q
    <3>6. Count(stage, L, Q) \in Nat /\ Count(e, L, Q) = Count(stage, L, Q) + Cardinality(V)
      BY <3>5, CountAdds
    <3> QED BY <3>1, <3>6 DEF PoolHeld, L, Q
  <2>6. PoolHeld(e) + p.free = PoolSize
    <3> HIDE DEF V, W, U
    <3> QED BY <1>3, <1>7, <1>16, <2>1, <2>5
  <2> QED BY <1>20, <2>3, <2>4, <2>6 DEF PoolFits
<1>22. LaneFits(t, c, {})
  <2>1. ASSUME ~D!Narrow(c) PROVE LaneFits(t, c, {})
    <3>1. \A n \in 1..size : e[<<c, n>>] # "line"
      BY <1>4, <1>9, <2>1
    <3>2. \A l \in D!LegsOf(c) : e[l] # "line"
      BY <1>8, <3>1
    <3> QED BY <1>20, <2>1, <3>2 DEF LaneFits
  <2>2. ASSUME D!Narrow(c) PROVE LaneFits(t, c, {})
    <3>1. {l \in D!LegsOf(c) : e[l] = "line"} = {<<c, m>> : m \in (through + 1)..(through + (size - through))}
      <4>1. \A n \in 1..size : e[<<c, n>>] = "line" <=> n \in (through + 1)..(through + (size - through))
        BY <1>4, <1>7, <1>9
      <4>2. \A m \in (through + 1)..(through + (size - through)) : m \in 1..size
        BY <1>4, <1>7
      <4>3. ASSUME NEW l \in D!LegsOf(c), e[l] = "line" PROVE l \in {<<c, m>> : m \in (through + 1)..(through + (size - through))}
        BY <1>8, <4>1, <4>3
      <4>4. ASSUME NEW m \in (through + 1)..(through + (size - through)) PROVE <<c, m>> \in D!LegsOf(c) /\ e[<<c, m>>] = "line"
        BY <1>8, <4>1, <4>2
      <4> QED BY <4>3, <4>4
    <3>2. LaneHeld(e, c) = through
      <4>1. {l \in D!LegsOf(c) : e[l] \in {"queue", "granted", "runs"}} = {<<c, n>> : n \in 1..through}
        <5>1. \A n \in 1..size : e[<<c, n>>] \in {"queue", "granted", "runs"} <=> n \in 1..through
          BY <1>4, <1>7, <1>9
        <5>2. \A n \in 1..through : n \in 1..size
          BY <1>4, <1>7
        <5>3. ASSUME NEW l \in D!LegsOf(c), e[l] \in {"queue", "granted", "runs"} PROVE l \in {<<c, n>> : n \in 1..through}
          BY <1>8, <5>1, <5>3
        <5>4. ASSUME NEW n \in 1..through PROVE <<c, n>> \in D!LegsOf(c) /\ e[<<c, n>>] \in {"queue", "granted", "runs"}
          BY <1>8, <5>1, <5>2
        <5> QED BY <5>3, <5>4
      <4>2. Cardinality({<<c, n>> : n \in 1..through}) = through
        BY <1>4, LegsCounted
      <4> QED BY <4>1, <4>2 DEF LaneHeld, Count
    <3>3. through + 0 + 0 = conc
      BY <1>4, <2>2, <1>3
    <3> QED BY <1>14, <1>19, <1>20, <2>2, <3>1, <3>2, <3>3 DEF LaneFits, conc
  <2> QED BY <2>1, <2>2
<1>23. ASSUME NEW d \in D!CallIds \ {c} PROVE LaneFits(t, d, {})
  <2>1. \A l \in D!LegsOf(d) : e[l] = stage[l]
    BY <1>9, LegsAre
  <2>2. LaneHeld(e, d) = LaneHeld(stage, d)
    BY <2>1, HeldSame
  <2>3. {l \in D!LegsOf(d) : e[l] = "line"} = {l \in D!LegsOf(d) : stage[l] = "line"}
    BY <2>1
  <2> QED BY <1>1, <1>2, <1>19, <1>20, <2>1, <2>2, <2>3 DEF LaneFits
<1>24. SlotsFit'
  <2>1. SiteFits(t, {})
    BY <1>20, <1>21, <1>22, <1>23 DEF SiteFits
  <2>2. D!Becomes(t)
    BY <1>5, <1>20 DEF D!Becomes
  <2> QED BY <2>1, <2>2, SiteStays
<1>25. \A l \in D!LegsOf(c) : e[l] \in {"line", "queue", "granted"}
  BY <1>8, <1>9
<1> QED BY <1>5, <1>9, <1>24, <1>25

\* Whoever is in line when every run is stopped is over, and the lines are empty.
LEMMA AllStoppedFits ==
  ASSUME book \in Books, book' = book, SlotsFit, D!AllStopped
  PROVE  SlotsFit'
<1> DEFINE e == [l \in D!Legs |-> IF l \in D!InLine THEN "over" ELSE stage[l]]
           back(c) == {l \in D!LegsOf(c) : D!Narrow(c) /\ stage[l] = "queue"}
           ls == [c \in D!CallIds |-> [free |-> lanes[c].free + Cardinality(back(c)), line |-> <<>>]]
           p == [free |-> pool.free, line |-> <<>>]
           t == [stage |-> e, pool |-> p, lanes |-> ls]
<1>1. /\ stage \in [D!Legs -> Stages] /\ pool \in SlotsOfRuns /\ lanes \in [D!CallIds -> SlotsOfRuns]
      /\ PoolFits(D!Site) /\ \A d \in D!CallIds : LaneFits(D!Site, d, {})
  BY DEF SlotsFit, SiteFits, Sites, D!Site
<1>2. D!Site.stage = stage /\ D!Site.pool = pool /\ D!Site.lanes = lanes
  BY DEF D!Site
<1>3. pool.free \in Nat /\ p \in SlotsOfRuns
  BY <1>1 DEF SlotsOfRuns
<1>4. stage' = e /\ pool' = p /\ lanes' = ls
  <2>1. D!Emptied(pool) = p
    BY <1>1 DEF D!Emptied, SlotsOfRuns
  <2>2. pool' = D!Emptied(pool) /\ stage' = e
    BY DEF D!AllStopped
  <2>3. lanes' = ls
    BY CardinalityOf DEF D!AllStopped
  <2> QED BY <2>1, <2>2, <2>3
<1>5. e \in [D!Legs -> Stages] /\ \A l \in D!Legs : e[l] = IF stage[l] \in {"line", "queue"} THEN "over" ELSE stage[l]
  BY <1>1 DEF Stages, D!InLine
<1>6. ASSUME NEW c \in D!CallIds
      PROVE  /\ back(c) \in SUBSET D!LegsOf(c) /\ Cardinality(back(c)) \in Nat
             /\ lanes[c].free \in Nat /\ ls[c] = [free |-> lanes[c].free + Cardinality(back(c)), line |-> <<>>]
             /\ ls[c] \in SlotsOfRuns
  <2>1. back(c) \in SUBSET D!LegsOf(c) /\ IsFiniteSet(D!LegsOf(c))
    BY LegsAre
  <2>2. Cardinality(back(c)) \in Nat
    <3> HIDE DEF back
    <3> QED BY <2>1, FS_Subset, FS_CardinalityType
  <2> HIDE DEF back
  <2>3. lanes[c].free \in Nat
    BY <1>1 DEF SlotsOfRuns
  <2>4. lanes[c].free + Cardinality(back(c)) \in Nat
    BY <2>2, <2>3
  <2>5. ls[c] = [free |-> lanes[c].free + Cardinality(back(c)), line |-> <<>>]
    OBVIOUS
  <2> QED BY <2>1, <2>2, <2>3, <2>4, <2>5 DEF SlotsOfRuns
<1> HIDE DEF e, ls, p
<1>7. t \in Sites /\ t.stage = e /\ t.pool = p /\ t.lanes = ls
  <2>1. ls \in [D!CallIds -> SlotsOfRuns]
    BY <1>6 DEF ls
  <2> QED BY <1>3, <1>5, <2>1 DEF Sites
<1> HIDE DEF t
<1>8. PoolFits(t)
  <2>1. {l \in D!Legs : e[l] = "queue"} = {}
    BY <1>5
  <2>2. PoolHeld(e) = PoolHeld(stage)
    <3>1. \A l \in D!Legs : e[l] \in {"granted", "runs"} <=> stage[l] \in {"granted", "runs"}
      BY <1>5
    <3> QED BY <3>1, HeldSame
  <2>3. p.line = <<>> /\ p.free = pool.free
    BY DEF p
  <2>4. PoolHeld(stage) + pool.free = PoolSize
    BY <1>1, <1>2 DEF PoolFits
  <2> QED BY <1>7, <2>1, <2>2, <2>3, <2>4, NobodyInLine DEF PoolFits
<1>9. ASSUME NEW c \in D!CallIds PROVE LaneFits(t, c, {})
  <2> DEFINE n == Cardinality(back(c))
  <2>0. /\ n \in Nat /\ lanes[c].free \in Nat
        /\ ls[c].line = <<>> /\ ls[c].free = lanes[c].free + n
    <3>1. n \in Nat /\ lanes[c].free \in Nat
      BY <1>6
    <3>2. ls[c] = [free |-> lanes[c].free + n, line |-> <<>>]
      BY <1>6
    <3> HIDE DEF n
    <3> QED BY <3>1, <3>2
  <2>1. {l \in D!LegsOf(c) : e[l] = "line"} = {} /\ \A l \in D!LegsOf(c) : e[l] # "line"
    BY <1>5, LegsAre
  <2>2. ASSUME D!Narrow(c)
        PROVE  LaneHeld(stage, c) = LaneHeld(e, c) + n /\ LaneHeld(e, c) \in Nat
    <3> DEFINE L == D!LegsOf(c)
               Q == {"queue", "granted", "runs"}
               V == back(c)
    <3>1. IsFiniteSet(L) /\ V \in SUBSET L
      BY <1>6, LegsAre
    <3>2. \A l \in L \ V : stage[l] \in Q <=> e[l] \in Q
      BY <1>5, <2>2, LegsAre
    <3>3. \A l \in V : e[l] \notin Q /\ stage[l] \in Q
      BY <1>5, LegsAre
    <3> HIDE DEF L, Q, V
    <3>4. Count(e, L, Q) \in Nat /\ Count(stage, L, Q) = Count(e, L, Q) + Cardinality(V)
      BY <3>1, <3>2, <3>3, CountAdds
    <3> QED BY <3>4 DEF LaneHeld, L, Q, V
  <2>3. ASSUME D!Narrow(c) PROVE LaneHeld(e, c) + (lanes[c].free + n) + 0 = D!Of(c).conc
    <3>1. LaneHeld(stage, c) + lanes[c].free + 0 = D!Of(c).conc
      BY <1>1, <1>2, <2>3 DEF LaneFits
    <3> HIDE DEF n
    <3> QED BY <2>0, <2>2, <2>3, <3>1
  <2> HIDE DEF n
  <2> QED BY <1>7, <2>0, <2>1, <2>3, NobodyInLine DEF LaneFits
<1>10. SiteFits(t, {})
  BY <1>7, <1>8, <1>9 DEF SiteFits
<1>11. D!Becomes(t)
  BY <1>4, <1>7 DEF D!Becomes
<1> QED BY <1>10, <1>11, SiteStays

LEMMA StartsFits ==
  ASSUME book \in Books, book' = book, SlotsFit, NEW l \in D!Legs, D!Starts(l)
  PROVE  SlotsFit'
<1> DEFINE e == [stage EXCEPT ![l] = "runs"]
           t == [stage |-> e, pool |-> pool, lanes |-> lanes]
<1>1. /\ stage \in [D!Legs -> Stages] /\ pool \in SlotsOfRuns /\ lanes \in [D!CallIds -> SlotsOfRuns]
      /\ PoolFits(D!Site) /\ \A d \in D!CallIds : LaneFits(D!Site, d, {})
  BY DEF SlotsFit, SiteFits, Sites, D!Site
<1>2. D!Site.stage = stage /\ D!Site.pool = pool /\ D!Site.lanes = lanes
  BY DEF D!Site
<1>3. e \in [D!Legs -> Stages] /\ stage[l] = "granted" /\ e[l] = "runs" /\ \A k \in D!Legs \ {l} : e[k] = stage[k]
  BY <1>1 DEF Stages, D!Starts
<1>4. D!Becomes(t)
  BY DEF D!Becomes, D!Starts
<1> HIDE DEF e
<1>5. t \in Sites /\ t.stage = e /\ t.pool = pool /\ t.lanes = lanes
  BY <1>1, <1>3 DEF Sites
<1> HIDE DEF t
<1>6. PoolHeld(e) = PoolHeld(stage) /\ \A c \in D!CallIds : LaneHeld(e, c) = LaneHeld(stage, c)
  <2>1. \A k \in D!Legs : /\ e[k] \in {"granted", "runs"} <=> stage[k] \in {"granted", "runs"}
                          /\ e[k] \in {"queue", "granted", "runs"} <=> stage[k] \in {"queue", "granted", "runs"}
    <3> TAKE k \in D!Legs
    <3>1. CASE k = l
      BY <1>3, <3>1
    <3>2. CASE k # l
      <4>1. e[k] = stage[k]
        BY <1>3, <3>2
      <4> QED BY <4>1
    <3> QED BY <3>1, <3>2
  <2>2. PoolHeld(e) = PoolHeld(stage)
    BY <2>1, HeldSame
  <2>3. \A c \in D!CallIds : \A k \in D!LegsOf(c) : e[k] \in {"queue", "granted", "runs"} <=> stage[k] \in {"queue", "granted", "runs"}
    BY <2>1, LegsAre
  <2> QED BY <2>2, <2>3, HeldSame
<1>7. /\ {k \in D!Legs : e[k] = "queue"} = {k \in D!Legs : stage[k] = "queue"}
      /\ \A c \in D!CallIds : {k \in D!LegsOf(c) : e[k] = "line"} = {k \in D!LegsOf(c) : stage[k] = "line"}
  <2>1. \A k \in D!Legs : (e[k] = "queue" <=> stage[k] = "queue") /\ (e[k] = "line" <=> stage[k] = "line")
    BY <1>3
  <2> QED BY <2>1, LegsAre
<1>8. PoolFits(t)
  BY <1>1, <1>2, <1>5, <1>6, <1>7 DEF PoolFits
<1>9. \A c \in D!CallIds : LaneFits(t, c, {})
  <2> TAKE c \in D!CallIds
  <2>1. LaneFits(D!Site, c, {})
    BY <1>1
  <2>2. (\A k \in D!LegsOf(c) : stage[k] # "line") => \A k \in D!LegsOf(c) : e[k] # "line"
    BY <1>7
  <2> QED BY <1>2, <1>5, <1>6, <1>7, <2>1, <2>2 DEF LaneFits
<1>10. SiteFits(t, {})
  BY <1>5, <1>8, <1>9 DEF SiteFits
<1> QED BY <1>4, <1>10, SiteStays

\* What is so of the runs of a session in every state: the slots fit; a leg is new until its
\* call is launched, runs or waits while the tracker has it (or was settled by force), and is
\* over once it has settled; who was stopped before its slot came never works.
StagesFit ==
  \A l \in D!Legs :
    /\ stage[l] = "new" <=> called[l[1]] # "launched"
    /\ stage[l] = "new" <=> status[l] = "none"
    /\ stage[l] \in {"line", "queue", "granted"} => status[l] = "running"
    /\ stage[l] = "over" => status[l] = "settled"
    /\ stage[l] = "runs" => status[l] = "running" \/ l \in past.forced
    /\ l \in past.early => l \in signal /\ stage[l] \in {"granted", "over"}

\* No call was launched that had to be refused or vetoed; the rivals of a verifier are legs of its own call.
CallsFit ==
  \A c \in D!CallIds :
    /\ called[c] = "launched" =>
         /\ D!Of(c).kind = "delegate" => ~D!Stale(c) /\ ~D!Contested(c) /\ c \notin past.tried
         /\ D!Verifiers(c) # {} => \A l \in past.rivals[c] : l \in D!Writers /\ l[1] = c
    /\ called[c] = "vetoed" => c \in past.tried
    /\ called[c] = "new" => c \notin past.tried

PastFits ==
  /\ past = [failed |-> past.failed, tried |-> past.tried, forced |-> past.forced, early |-> past.early, rivals |-> past.rivals]
  /\ DOMAIN past.rivals = D!CallIds /\ past.rivals = [c \in DOMAIN past.rivals |-> past.rivals[c]]
  /\ past.early \subseteq D!Legs
  /\ strikes = past.failed /\ strikes = [k \in DOMAIN strikes |-> strikes[k]]

RunsInvariant ==
  /\ book \in Books
  /\ called \in [D!CallIds -> {"new", "refused", "vetoed", "launched"}]
  /\ status \in [D!Legs -> {"none", "running", "settled"}]
  /\ SlotsFit /\ StagesFit /\ CallsFit /\ PastFits

RunsCore == <<book, called, stage, pool, lanes, status, signal, strikes, past>>

LEMMA RunsStay == ASSUME RunsInvariant, UNCHANGED RunsCore PROVE RunsInvariant'
<1>1. book' = book /\ called' = called /\ stage' = stage /\ pool' = pool /\ lanes' = lanes
      /\ status' = status /\ signal' = signal /\ strikes' = strikes /\ past' = past
  BY DEF RunsCore
<1>2. SlotsFit'
  <2>1. D!Becomes(D!Site)
    BY <1>1 DEF D!Becomes, D!Site
  <2> QED BY <1>1, <2>1, SiteStays DEF RunsInvariant, SlotsFit
<1>3. StagesFit'
  BY <1>1, BookStays DEF RunsInvariant, StagesFit
<1>4. CallsFit'
  BY <1>1, BookStays DEF RunsInvariant, CallsFit
<1>5. PastFits'
  BY <1>1, BookStays DEF RunsInvariant, PastFits
<1> QED BY <1>1, <1>2, <1>3, <1>4, <1>5, BookStays DEF RunsInvariant

LEMMA StageIs ==
  ASSUME SlotsFit
  PROVE  /\ stage \in [D!Legs -> Stages] /\ pool \in SlotsOfRuns /\ lanes \in [D!CallIds -> SlotsOfRuns]
         /\ PoolFits(D!Site) /\ (\A d \in D!CallIds : LaneFits(D!Site, d, {}))
         /\ D!Site.stage = stage /\ D!Site.pool = pool /\ D!Site.lanes = lanes
<1>1. D!Site.stage = stage /\ D!Site.pool = pool /\ D!Site.lanes = lanes
  BY DEF D!Site
<1> QED BY <1>1 DEF SlotsFit, SiteFits, Sites

\* A call that is refused or vetoed changes nothing of the runs.
LEMMA DeclinesKeeps == ASSUME RunsInvariant, NEW c \in D!CallIds, D!Declines(c) PROVE RunsInvariant'
<1>1. /\ book' = book /\ stage' = stage /\ pool' = pool /\ lanes' = lanes /\ status' = status
      /\ signal' = signal /\ strikes' = strikes /\ called[c] = "new"
      /\ \E how \in {"refused", "vetoed"} :
           /\ D!Made(c, how)
           /\ how = "vetoed" => D!Vetoed(c)
  BY DEF D!Declines, D!siteVars
<1>2. PICK how \in {"refused", "vetoed"} : D!Made(c, how) /\ (how = "vetoed" => D!Vetoed(c))
  BY <1>1
<1>3. called' = [called EXCEPT ![c] = how]
  BY <1>2 DEF D!Made
<1>4. /\ past'.failed = past.failed /\ past'.forced = past.forced /\ past'.early = past.early
      /\ past'.tried = past.tried \cup {d \in {c} : \E n \in DOMAIN D!Of(d).legs : past.failed[D!Of(d).legs[n].key] >= MaxFailures}
      /\ \A d \in D!CallIds : d # c => past'.rivals[d] = past.rivals[d]
      /\ DOMAIN past'.rivals = D!CallIds /\ past'.rivals = [d \in DOMAIN past'.rivals |-> past'.rivals[d]]
      /\ past' = [failed |-> past'.failed, tried |-> past'.tried, forced |-> past'.forced, early |-> past'.early, rivals |-> past'.rivals]
  BY <1>2 DEF D!Made, RunsInvariant, PastFits
<1>5. SlotsFit'
  <2>1. D!Becomes(D!Site)
    BY <1>1 DEF D!Becomes, D!Site
  <2> QED BY <1>1, <2>1, SiteStays DEF RunsInvariant, SlotsFit
<1>6. called' \in [D!CallIds -> {"new", "refused", "vetoed", "launched"}] /\ called'[c] = how /\ \A d \in D!CallIds : d # c => called'[d] = called[d]
  BY <1>3 DEF RunsInvariant
<1>7. StagesFit'
  <2>1. D!Legs' = D!Legs /\ \A l \in D!Legs : l[1] \in D!CallIds
    BY <1>1, BookStays, LegsAre DEF RunsInvariant
  <2>2. \A d \in D!CallIds : called'[d] = "launched" <=> called[d] = "launched"
    BY <1>1, <1>6
  <2> QED BY <1>1, <1>4, <2>1, <2>2 DEF RunsInvariant, StagesFit
<1>8. CallsFit'
  <2>1. c \notin past.tried
    BY <1>1 DEF RunsInvariant, CallsFit
  <2>2. how = "vetoed" => c \in past'.tried
    BY <1>2, <1>4 DEF D!Vetoed, RunsInvariant, PastFits
  <2>3. \A d \in D!CallIds : d # c => (d \in past'.tried <=> d \in past.tried)
    BY <1>4
  <2>4. D!CallIds' = D!CallIds /\ D!Writers' = D!Writers
        /\ \A d : D!Of(d)' = D!Of(d) /\ D!Verifiers(d)' = D!Verifiers(d) /\ (D!Stale(d)' <=> D!Stale(d)) /\ (D!Contested(d)' <=> D!Contested(d))
    BY <1>1, BookStays
  <2> SUFFICES ASSUME NEW d \in D!CallIds
               PROVE  /\ called'[d] = "launched" =>
                           /\ D!Of(d).kind = "delegate" => ~D!Stale(d) /\ ~D!Contested(d) /\ d \notin past'.tried
                           /\ D!Verifiers(d) # {} => \A l \in past'.rivals[d] : l \in D!Writers /\ l[1] = d
                      /\ called'[d] = "vetoed" => d \in past'.tried
                      /\ called'[d] = "new" => d \notin past'.tried
    BY <2>4 DEF CallsFit
  <2>5. CASE d = c
    BY <1>6, <2>2, <2>5
  <2>6. CASE d # c
    BY <1>4, <1>6, <2>3, <2>6 DEF RunsInvariant, CallsFit
  <2> QED BY <2>5, <2>6
<1>9. PastFits'
  BY <1>1, <1>4, BookStays DEF RunsInvariant, PastFits
<1> QED BY <1>1, <1>5, <1>6, <1>7, <1>8, <1>9, BookStays DEF RunsInvariant

\* A call that is launched was not to be refused: a verifier finds no writer at work.
LEMMA LaunchesKeeps == ASSUME RunsInvariant, NEW c \in D!CallIds, D!Launches(c) PROVE RunsInvariant'
<1>1. /\ book' = book /\ signal' = signal /\ strikes' = strikes /\ called[c] = "new"
      /\ D!Made(c, "launched") /\ D!Joins(c)
      /\ status' = [l \in D!Legs |-> IF l[1] = c THEN "running" ELSE status[l]]
      /\ D!Of(c).kind = "delegate" => ~D!Refuses(c) /\ ~D!Vetoed(c)
  BY DEF D!Launches
<1>2. called' = [called EXCEPT ![c] = "launched"]
  BY <1>1 DEF D!Made
<1>3. /\ past'.failed = past.failed /\ past'.forced = past.forced /\ past'.early = past.early
      /\ past'.tried = past.tried \cup {d \in {c} : \E n \in DOMAIN D!Of(d).legs : past.failed[D!Of(d).legs[n].key] >= MaxFailures}
      /\ \A d \in D!CallIds : d # c => past'.rivals[d] = past.rivals[d]
      /\ past'.rivals[c] = IF D!Verifiers(c) = {} THEN {}
                           ELSE {l \in D!Writers : l[1] = c \/ stage[l] \notin {"new", "over"}} \ past.forced
      /\ DOMAIN past'.rivals = D!CallIds /\ past'.rivals = [d \in DOMAIN past'.rivals |-> past'.rivals[d]]
      /\ past' = [failed |-> past'.failed, tried |-> past'.tried, forced |-> past'.forced, early |-> past'.early, rivals |-> past'.rivals]
  BY <1>1 DEF D!Made, RunsInvariant, PastFits
<1>4. book \in Books /\ SlotsFit
  BY DEF RunsInvariant
<1>5. \A l \in D!LegsOf(c) : stage[l] = "new"
  BY <1>1, <1>4, LegsAre DEF RunsInvariant, StagesFit
<1>6. /\ SlotsFit' /\ (\A l \in D!LegsOf(c) : stage'[l] \in {"line", "queue", "granted"})
      /\ \A l \in D!Legs : l[1] # c => stage'[l] = stage[l]
  BY <1>1, <1>4, <1>5, JoinsFits
<1>7. called' \in [D!CallIds -> {"new", "refused", "vetoed", "launched"}] /\ called'[c] = "launched" /\ \A d \in D!CallIds : d # c => called'[d] = called[d]
  BY <1>2 DEF RunsInvariant
<1>8. status' \in [D!Legs -> {"none", "running", "settled"}] /\ \A l \in D!Legs : status'[l] = IF l[1] = c THEN "running" ELSE status[l]
  BY <1>1 DEF RunsInvariant
<1>9. StagesFit'
  <2>1. D!Legs' = D!Legs /\ \A l \in D!Legs : l[1] \in D!CallIds /\ (l[1] = c => l \in D!LegsOf(c))
    BY <1>1, <1>4, BookStays, LegsAre
  <2>2. ASSUME NEW l \in D!Legs, l[1] = c
        PROVE  stage'[l] \in {"line", "queue", "granted"} /\ called'[l[1]] = "launched" /\ status'[l] = "running" /\ l \notin past.early
    BY <1>5, <1>6, <1>7, <1>8, <2>1, <2>2 DEF RunsInvariant, StagesFit
  <2>3. ASSUME NEW l \in D!Legs, l[1] # c
        PROVE  stage'[l] = stage[l] /\ called'[l[1]] = called[l[1]] /\ status'[l] = status[l]
    BY <1>6, <1>7, <1>8, <2>1, <2>3
  <2> SUFFICES ASSUME NEW l \in D!Legs
               PROVE  /\ stage'[l] = "new" <=> called'[l[1]] # "launched"
                      /\ stage'[l] = "new" <=> status'[l] = "none"
                      /\ stage'[l] \in {"line", "queue", "granted"} => status'[l] = "running"
                      /\ stage'[l] = "over" => status'[l] = "settled"
                      /\ stage'[l] = "runs" => status'[l] = "running" \/ l \in past'.forced
                      /\ l \in past'.early => l \in signal' /\ stage'[l] \in {"granted", "over"}
    BY <2>1 DEF StagesFit
  <2>4. CASE l[1] = c
    BY <1>3, <2>2, <2>4
  <2>5. CASE l[1] # c
    BY <1>1, <1>3, <2>3, <2>5 DEF RunsInvariant, StagesFit
  <2> QED BY <2>4, <2>5
<1>10. CallsFit'
  <2>1. c \notin past.tried
    BY <1>1 DEF RunsInvariant, CallsFit
  <2>2. D!Of(c).kind = "delegate" => ~D!Stale(c) /\ ~D!Contested(c) /\ c \notin past'.tried
    <3>1. ~D!Vetoed(c) => c \notin past'.tried
      BY <1>3, <2>1 DEF D!Vetoed, RunsInvariant, PastFits
    <3> QED BY <1>1, <3>1 DEF D!Refuses
  <2>3. ASSUME D!Verifiers(c) # {}
        PROVE  \A l \in past'.rivals[c] : l \in D!Writers /\ l[1] = c
    <3>1. D!Of(c).kind = "delegate"
      BY <1>4, <2>3, BooksAreCalls DEF D!Of, D!CallIds, D!Verifiers
    <3>2. D!LiveMutations = {}
      BY <1>1, <2>3, <3>1 DEF D!Refuses
    <3>3. ASSUME NEW l \in D!Writers, stage[l] \notin {"new", "over"} PROVE l \in past.forced
      <4>1. l \in D!Legs /\ status[l] # "running" /\ stage[l] \in Stages
        BY <3>2, <1>4, StageIs DEF D!LiveMutations, D!Live, D!Writers
      <4> QED BY <3>3, <4>1 DEF RunsInvariant, StagesFit, Stages
    <3> QED BY <1>3, <2>3, <3>3
  <2>4. \A d \in D!CallIds : d # c => (d \in past'.tried <=> d \in past.tried)
    BY <1>3
  <2>5. D!CallIds' = D!CallIds /\ D!Writers' = D!Writers
        /\ \A d : D!Of(d)' = D!Of(d) /\ D!Verifiers(d)' = D!Verifiers(d) /\ (D!Stale(d)' <=> D!Stale(d)) /\ (D!Contested(d)' <=> D!Contested(d))
    BY <1>1, BookStays
  <2> SUFFICES ASSUME NEW d \in D!CallIds
               PROVE  /\ called'[d] = "launched" =>
                           /\ D!Of(d).kind = "delegate" => ~D!Stale(d) /\ ~D!Contested(d) /\ d \notin past'.tried
                           /\ D!Verifiers(d) # {} => \A l \in past'.rivals[d] : l \in D!Writers /\ l[1] = d
                      /\ called'[d] = "vetoed" => d \in past'.tried
                      /\ called'[d] = "new" => d \notin past'.tried
    BY <2>5 DEF CallsFit
  <2>6. CASE d = c
    BY <1>7, <2>2, <2>3, <2>6
  <2>7. CASE d # c
    BY <1>3, <1>7, <2>4, <2>7 DEF RunsInvariant, CallsFit
  <2> QED BY <2>6, <2>7
<1>11. PastFits'
  BY <1>1, <1>3, BookStays DEF RunsInvariant, PastFits
<1> QED BY <1>1, <1>4, <1>6, <1>7, <1>8, <1>9, <1>10, <1>11, BookStays DEF RunsInvariant

LEMMA StartsKeeps == ASSUME RunsInvariant, NEW l \in D!Legs, D!Starts(l) PROVE RunsInvariant'
<1>1. /\ book' = book /\ signal' = signal /\ strikes' = strikes /\ called' = called /\ status' = status /\ past' = past
      /\ stage[l] = "granted" /\ l \notin signal /\ stage' = [stage EXCEPT ![l] = "runs"]
  BY DEF D!Starts, D!MayStart
<1>2. book \in Books /\ SlotsFit /\ stage \in [D!Legs -> Stages]
  BY StageIs DEF RunsInvariant
<1>3. SlotsFit'
  BY <1>1, <1>2, StartsFits
<1>4. stage'[l] = "runs" /\ \A k \in D!Legs : k # l => stage'[k] = stage[k]
  BY <1>1, <1>2
<1>5. StagesFit'
  <2>1. D!Legs' = D!Legs
    BY <1>1, BookStays
  <2>2. \A k \in D!Legs : k # l => stage'[k] = stage[k]
    BY <1>4
  <2> QED BY <1>1, <1>4, <2>1, <2>2 DEF RunsInvariant, StagesFit
<1>6. CallsFit'
  BY <1>1, BookStays DEF RunsInvariant, CallsFit
<1>7. PastFits'
  BY <1>1, BookStays DEF RunsInvariant, PastFits
<1> QED BY <1>1, <1>2, <1>3, <1>5, <1>6, <1>7, BookStays DEF RunsInvariant

\* What a leg that is over leaves behind: others only move on.
LEMMA LeftFits ==
  ASSUME RunsInvariant, NEW l \in D!Legs, stage[l] \in {"line", "queue", "granted", "runs"}, book' = book,
         D!Becomes(D!Leaves(D!Site, l))
  PROVE  /\ SlotsFit' /\ stage'[l] = "over"
         /\ \A k \in D!Legs : k # l =>
              stage'[k] = stage[k] \/ (stage[k] \in {"line", "queue"} /\ stage'[k] \in {"queue", "granted"})
<1>1. book \in Books /\ SiteFits(D!Site, {}) /\ D!Site.stage = stage
  BY StageIs DEF RunsInvariant, SlotsFit
<1> DEFINE s == D!Site
           t == D!Leaves(s, l)
<1>2. SiteFits(s, {}) /\ s.stage[l] \in {"line", "queue", "granted", "runs"}
  BY <1>1
<1> HIDE DEF s
<1>3. SiteFits(t, {}) /\ t.stage[l] = "over" /\ MovesOn(s.stage, t.stage, l)
  BY <1>1, <1>2, LeavesFits
<1>4. D!Becomes(t)
  BY DEF s
<1> HIDE DEF t
<1>5. stage' = t.stage /\ SlotsFit'
  BY <1>3, <1>4, SiteStays DEF D!Becomes
<1>6. s.stage = stage
  BY <1>1 DEF s
<1>7. \A k \in D!Legs : k # l =>
        t.stage[k] = s.stage[k] \/ (s.stage[k] \in {"line", "queue"} /\ t.stage[k] \in {"queue", "granted"})
  BY <1>3 DEF MovesOn
<1>8. stage'[l] = "over"
  BY <1>3, <1>5
<1>9. \A k \in D!Legs : k # l =>
        stage'[k] = stage[k] \/ (stage[k] \in {"line", "queue"} /\ stage'[k] \in {"queue", "granted"})
  BY <1>5, <1>6, <1>7
<1> QED BY <1>5, <1>8, <1>9

\* A leg that leaves its place, and settles unless it did before.
LEMMA LeavesKeeps ==
  ASSUME RunsInvariant, NEW l \in D!Legs, stage[l] \in {"line", "queue", "granted", "runs"},
         book' = book, called' = called, signal \subseteq signal',
         D!Becomes(D!Leaves(D!Site, l)),
         \/ status' = [status EXCEPT ![l] = "settled"]
         \/ ~D!Live(l) /\ status' = status,
         past'.tried = past.tried, past'.forced = past.forced, past'.early = past.early, past'.rivals = past.rivals,
         PastFits'
  PROVE  RunsInvariant'
<1>1. /\ SlotsFit' /\ stage'[l] = "over"
      /\ \A k \in D!Legs : k # l =>
              stage'[k] = stage[k] \/ (stage[k] \in {"line", "queue"} /\ stage'[k] \in {"queue", "granted"})
  BY LeftFits
<1>2. /\ status' \in [D!Legs -> {"none", "running", "settled"}] /\ status'[l] = "settled"
      /\ \A k \in D!Legs : k # l => status'[k] = status[k]
  <2>1. ~D!Live(l) => status[l] = "settled"
    BY DEF RunsInvariant, StagesFit, D!Live
  <2> QED BY <2>1 DEF RunsInvariant
<1>3. stage[l] # "new" /\ stage \in [D!Legs -> Stages]
  BY StageIs DEF RunsInvariant
<1>4. StagesFit'
  <2>1. D!Legs' = D!Legs
    BY BookStays
  <2> SUFFICES ASSUME NEW k \in D!Legs
               PROVE  /\ stage'[k] = "new" <=> called[k[1]] # "launched"
                      /\ stage'[k] = "new" <=> status'[k] = "none"
                      /\ stage'[k] \in {"line", "queue", "granted"} => status'[k] = "running"
                      /\ stage'[k] = "over" => status'[k] = "settled"
                      /\ stage'[k] = "runs" => status'[k] = "running" \/ k \in past.forced
                      /\ k \in past.early => k \in signal' /\ stage'[k] \in {"granted", "over"}
    BY <2>1 DEF StagesFit
  <2>2. /\ stage[k] = "new" <=> called[k[1]] # "launched"
        /\ stage[k] = "new" <=> status[k] = "none"
        /\ stage[k] \in {"line", "queue", "granted"} => status[k] = "running"
        /\ stage[k] = "over" => status[k] = "settled"
        /\ stage[k] = "runs" => status[k] = "running" \/ k \in past.forced
        /\ k \in past.early => k \in signal /\ stage[k] \in {"granted", "over"}
    BY DEF RunsInvariant, StagesFit
  <2>3. CASE k = l
    BY <1>1, <1>2, <1>3, <2>2, <2>3
  <2>4. CASE k # l /\ stage'[k] = stage[k]
    BY <1>2, <2>2, <2>4
  <2>5. CASE k # l /\ stage[k] \in {"line", "queue"} /\ stage'[k] \in {"queue", "granted"}
    BY <1>2, <2>2, <2>5
  <2> QED BY <1>1, <2>3, <2>4, <2>5
<1>5. CallsFit'
  BY BookStays DEF RunsInvariant, CallsFit
<1> QED BY <1>1, <1>2, <1>4, <1>5, BookStays DEF RunsInvariant

LEMMA WithdrawsKeeps == ASSUME RunsInvariant, NEW l \in D!Legs, D!Withdraws(l) PROVE RunsInvariant'
<1>1. /\ book' = book /\ signal' = signal /\ strikes' = strikes /\ called' = called /\ past' = past
      /\ stage[l] = "granted" /\ D!Becomes(D!Leaves(D!Site, l)) /\ status' = [status EXCEPT ![l] = "settled"]
  BY DEF D!Withdraws, D!Settled
<1>2. PastFits'
  BY <1>1, BookStays DEF RunsInvariant, PastFits
<1> QED BY <1>1, <1>2, LeavesKeeps

LEMMA EndsKeeps == ASSUME RunsInvariant, NEW l \in D!Legs, D!Ends(l) PROVE RunsInvariant'
<1>1. /\ book' = book /\ signal' = signal /\ called' = called
      /\ stage[l] = "runs" /\ D!Becomes(D!Leaves(D!Site, l))
      /\ status' = [status EXCEPT ![l] = "settled"] \/ (~D!Live(l) /\ status' = status)
  BY DEF D!Ends, D!Settled
<1>2. /\ past'.tried = past.tried /\ past'.forced = past.forced /\ past'.early = past.early /\ past'.rivals = past.rivals
      /\ past' = [failed |-> past'.failed, tried |-> past'.tried, forced |-> past'.forced, early |-> past'.early, rivals |-> past'.rivals]
      /\ strikes' = past'.failed /\ strikes' = [k \in DOMAIN strikes' |-> strikes'[k]]
  <2>1. /\ past = [failed |-> past.failed, tried |-> past.tried, forced |-> past.forced, early |-> past.early, rivals |-> past.rivals]
        /\ strikes = past.failed /\ strikes = [k \in DOMAIN strikes |-> strikes[k]]
    BY DEF RunsInvariant, PastFits
  <2> DEFINE key == D!Leg(l).key
  <2>2. CASE strikes' = strikes /\ past' = past
    BY <2>1, <2>2
  <2>3. ASSUME NEW how,
               strikes' = IF D!Recordable(how) THEN [strikes EXCEPT ![key] = IF how = "ok" THEN 0 ELSE @ + 1] ELSE strikes,
               past' = [past EXCEPT !.failed[key] = IF how = "ok" THEN 0 ELSE IF how = "failed" THEN @ + 1 ELSE @]
        PROVE  /\ past'.tried = past.tried /\ past'.forced = past.forced /\ past'.early = past.early /\ past'.rivals = past.rivals
               /\ past' = [failed |-> past'.failed, tried |-> past'.tried, forced |-> past'.forced, early |-> past'.early, rivals |-> past'.rivals]
               /\ strikes' = past'.failed /\ strikes' = [k \in DOMAIN strikes' |-> strikes'[k]]
    <3> HIDE DEF key
    <3>1. past'.failed = [past.failed EXCEPT ![key] = IF how = "ok" THEN 0 ELSE IF how = "failed" THEN @ + 1 ELSE @]
          /\ past'.tried = past.tried /\ past'.forced = past.forced /\ past'.early = past.early /\ past'.rivals = past.rivals
          /\ past' = [failed |-> past'.failed, tried |-> past'.tried, forced |-> past'.forced, early |-> past'.early, rivals |-> past'.rivals]
      BY <2>1, <2>3
    <3>2. CASE how = "ok"
      BY <2>1, <2>3, <3>1, <3>2 DEF D!Recordable
    <3>3. CASE how = "failed"
      BY <2>1, <2>3, <3>1, <3>3 DEF D!Recordable
    <3>4. CASE how \notin {"ok", "failed"}
      <4>1. [strikes EXCEPT ![key] = strikes[key]] = strikes
        BY <2>1
      <4> QED BY <2>1, <2>3, <3>1, <3>4, <4>1 DEF D!Recordable
    <3> QED BY <3>1, <3>2, <3>3, <3>4
  <2>4. \/ strikes' = strikes /\ past' = past
        \/ \E how : /\ strikes' = IF D!Recordable(how) THEN [strikes EXCEPT ![key] = IF how = "ok" THEN 0 ELSE @ + 1] ELSE strikes
                    /\ past' = [past EXCEPT !.failed[key] = IF how = "ok" THEN 0 ELSE IF how = "failed" THEN @ + 1 ELSE @]
    BY DEF D!Ends
  <2> QED BY <2>2, <2>3, <2>4
<1>3. PastFits'
  BY <1>1, <1>2, BookStays DEF RunsInvariant, PastFits
<1> QED BY <1>1, <1>2, <1>3, LeavesKeeps

LEMMA StopsKeeps == ASSUME RunsInvariant, NEW l \in D!Legs, D!Stops(l) PROVE RunsInvariant'
<1>1. /\ book' = book /\ called' = called /\ strikes' = strikes /\ status[l] = "running" /\ signal' = signal \cup {l}
  BY DEF D!Stops, D!Live
<1>2. CASE stage[l] \in {"line", "queue"}
  <2>1. D!Becomes(D!Leaves(D!Site, l)) /\ status' = [status EXCEPT ![l] = "settled"] /\ past' = past
    BY <1>2 DEF D!Stops, D!Settled
  <2>2. PastFits'
    BY <1>1, <2>1, BookStays DEF RunsInvariant, PastFits
  <2> QED BY <1>1, <1>2, <2>1, <2>2, LeavesKeeps
<1>3. ASSUME stage[l] \notin {"line", "queue"} PROVE RunsInvariant'
  <2>1. stage' = stage /\ pool' = pool /\ lanes' = lanes
    BY <1>3 DEF D!Stops, D!siteVars
  <2>2. SlotsFit'
    <3>1. D!Becomes(D!Site)
      BY <2>1 DEF D!Becomes, D!Site
    <3> QED BY <1>1, <3>1, SiteStays DEF RunsInvariant, SlotsFit
  <2>3. \/ /\ stage[l] = "runs" /\ status' = [status EXCEPT ![l] = "settled"] /\ past' = [past EXCEPT !.forced = @ \cup {l}]
        \/ stage[l] = "granted" /\ status' = status /\ past' = [past EXCEPT !.early = @ \cup {l}]
        \/ status' = status /\ past' = past
    BY <1>3 DEF D!Stops, D!Settled
  <2>4. /\ past' = [failed |-> past'.failed, tried |-> past'.tried, forced |-> past'.forced, early |-> past'.early, rivals |-> past'.rivals]
        /\ past'.failed = past.failed /\ past'.tried = past.tried /\ past'.rivals = past.rivals
    BY <2>3 DEF RunsInvariant, PastFits
  <2>5. /\ \A k \in D!Legs : status'[k] = status[k] \/ (k = l /\ stage[l] = "runs" /\ status'[l] = "settled" /\ l \in past'.forced)
        /\ past.forced \subseteq past'.forced
        /\ \A k \in D!Legs : k \in past'.early => k \in past.early \/ (k = l /\ stage[l] = "granted")
        /\ past'.early \subseteq past.early \cup {l}
        /\ status' \in [D!Legs -> {"none", "running", "settled"}]
    BY <2>3 DEF RunsInvariant, PastFits
  <2>6. StagesFit'
    <3>1. D!Legs' = D!Legs
      BY <1>1, BookStays
    <3> SUFFICES ASSUME NEW k \in D!Legs
                 PROVE  /\ stage[k] = "new" <=> called[k[1]] # "launched"
                        /\ stage[k] = "new" <=> status'[k] = "none"
                        /\ stage[k] \in {"line", "queue", "granted"} => status'[k] = "running"
                        /\ stage[k] = "over" => status'[k] = "settled"
                        /\ stage[k] = "runs" => status'[k] = "running" \/ k \in past'.forced
                        /\ k \in past'.early => k \in signal' /\ stage[k] \in {"granted", "over"}
      BY <1>1, <2>1, <3>1 DEF StagesFit
    <3>2. /\ stage[k] = "new" <=> called[k[1]] # "launched"
          /\ stage[k] = "new" <=> status[k] = "none"
          /\ stage[k] \in {"line", "queue", "granted"} => status[k] = "running"
          /\ stage[k] = "over" => status[k] = "settled"
          /\ stage[k] = "runs" => status[k] = "running" \/ k \in past.forced
          /\ k \in past.early => k \in signal /\ stage[k] \in {"granted", "over"}
      BY DEF RunsInvariant, StagesFit
    <3> QED BY <1>1, <2>5, <3>2
  <2>7. CallsFit'
    BY <1>1, <2>4, BookStays DEF RunsInvariant, CallsFit
  <2>8. PastFits'
    BY <1>1, <2>4, <2>5, BookStays DEF RunsInvariant, PastFits
  <2> QED BY <1>1, <2>2, <2>5, <2>6, <2>7, <2>8, BookStays DEF RunsInvariant
<1> QED BY <1>2, <1>3

\* Every run is stopped: the session shuts down, or the operator says so.
LEMMA AllStoppedKeeps == ASSUME RunsInvariant, D!AllStopped PROVE RunsInvariant'
<1>1. /\ book' = book /\ called' = called /\ strikes' = strikes /\ signal' = signal \cup {l \in D!Legs : D!Live(l)}
      /\ stage' = [l \in D!Legs |-> IF l \in D!InLine THEN "over" ELSE stage[l]]
      /\ status' = [l \in D!Legs |-> IF l \in D!InLine THEN "settled" ELSE status[l]]
      /\ past' = [past EXCEPT !.early = @ \cup {l \in D!Legs : stage[l] = "granted"}]
  BY DEF D!AllStopped
<1>2. book \in Books /\ SlotsFit
  BY DEF RunsInvariant
<1>3. SlotsFit'
  BY <1>1, <1>2, AllStoppedFits
<1>4. /\ past' = [failed |-> past'.failed, tried |-> past'.tried, forced |-> past'.forced, early |-> past'.early, rivals |-> past'.rivals]
      /\ past'.failed = past.failed /\ past'.tried = past.tried /\ past'.rivals = past.rivals /\ past'.forced = past.forced
      /\ past'.early = past.early \cup {l \in D!Legs : stage[l] = "granted"}
  BY <1>1 DEF RunsInvariant, PastFits
<1>5. /\ status' \in [D!Legs -> {"none", "running", "settled"}]
      /\ \A l \in D!Legs : IF stage[l] \in {"line", "queue"} THEN stage'[l] = "over" /\ status'[l] = "settled"
                           ELSE stage'[l] = stage[l] /\ status'[l] = status[l]
  BY <1>1 DEF D!InLine, RunsInvariant
<1>6. StagesFit'
  <2>1. D!Legs' = D!Legs
    BY <1>1, BookStays
  <2> SUFFICES ASSUME NEW k \in D!Legs
               PROVE  /\ stage'[k] = "new" <=> called[k[1]] # "launched"
                      /\ stage'[k] = "new" <=> status'[k] = "none"
                      /\ stage'[k] \in {"line", "queue", "granted"} => status'[k] = "running"
                      /\ stage'[k] = "over" => status'[k] = "settled"
                      /\ stage'[k] = "runs" => status'[k] = "running" \/ k \in past'.forced
                      /\ k \in past'.early => k \in signal' /\ stage'[k] \in {"granted", "over"}
    BY <1>1, <2>1 DEF StagesFit
  <2>2. /\ stage[k] = "new" <=> called[k[1]] # "launched"
        /\ stage[k] = "new" <=> status[k] = "none"
        /\ stage[k] \in {"line", "queue", "granted"} => status[k] = "running"
        /\ stage[k] = "over" => status[k] = "settled"
        /\ stage[k] = "runs" => status[k] = "running" \/ k \in past.forced
        /\ k \in past.early => k \in signal /\ stage[k] \in {"granted", "over"}
    BY DEF RunsInvariant, StagesFit
  <2>3. stage[k] = "granted" => k \in signal'
    BY <1>1, <2>2 DEF D!Live
  <2>4. CASE stage[k] \in {"line", "queue"}
    BY <1>1, <1>4, <1>5, <2>2, <2>4
  <2>5. CASE stage[k] \notin {"line", "queue"}
    BY <1>1, <1>4, <1>5, <2>2, <2>3, <2>5
  <2> QED BY <2>4, <2>5
<1>7. CallsFit'
  BY <1>1, <1>4, BookStays DEF RunsInvariant, CallsFit
<1>8. PastFits'
  BY <1>1, <1>4, BookStays DEF RunsInvariant, PastFits
<1> QED BY <1>1, <1>2, <1>3, <1>5, <1>6, <1>7, <1>8, BookStays DEF RunsInvariant

\* The steps of background runs, as far as slots, stages and strikes are concerned.
LEMMA RunsSteps ==
  ASSUME D!DelegationsNext
  PROVE  \/ UNCHANGED RunsCore
         \/ \E c \in D!CallIds : D!Declines(c) \/ D!Launches(c)
         \/ \E l \in D!Legs : D!Starts(l) \/ D!Withdraws(l) \/ D!Ends(l) \/ D!Stops(l)
         \/ D!AllStopped
<1>1. ASSUME NEW c \in D!CallIds, D!Aside(D!Declines(c)) \/ D!Aside(D!Launches(c)) PROVE D!Declines(c) \/ D!Launches(c)
  BY <1>1 DEF D!Aside
<1>2. ASSUME NEW l \in D!Legs,
             D!Aside(D!Starts(l)) \/ D!Aside(D!Withdraws(l)) \/ D!Aside(D!Ends(l)) \/ D!Aside(D!Stops(l)) \/ D!Intervenes(D!Stops(l))
      PROVE  D!Starts(l) \/ D!Withdraws(l) \/ D!Ends(l) \/ D!Stops(l)
  BY <1>2 DEF D!Aside, D!Intervenes
<1>3. ASSUME NEW l \in D!Legs, D!Aside(D!Headway(l)) \/ D!Aside(D!Waits(l)) \/ D!Aside(D!Resumes(l)) PROVE UNCHANGED RunsCore
  BY <1>3 DEF D!Aside, D!Headway, D!Waits, D!Resumes, D!workVars, D!siteVars, RunsCore
<1>4. ASSUME NEW l \in D!Legs, D!Collects(l) \/ D!Steers(l) PROVE UNCHANGED RunsCore
  BY <1>4 DEF D!Collects, D!Steers, D!workVars, D!siteVars, RunsCore
<1>5. ASSUME NEW s \in D!Scopes, D!Checks(s) PROVE UNCHANGED RunsCore
  BY <1>5 DEF D!Checks, D!workVars, D!siteVars, RunsCore
<1>6. ASSUME D!TurnEnds \/ D!Aside(D!Tick) \/ D!Aside(D!Poll) PROVE UNCHANGED RunsCore
  BY <1>6 DEF D!Aside, D!TurnEnds, D!Tick, D!Poll, D!workVars, D!siteVars, RunsCore
<1>7. ASSUME D!Intervenes(D!StopsAll) \/ D!Aside(D!Shutdown) PROVE D!AllStopped
  BY <1>7 DEF D!Aside, D!Intervenes, D!StopsAll, D!Shutdown
<1> QED BY <1>1, <1>2, <1>3, <1>4, <1>5, <1>6, <1>7 DEF D!DelegationsNext

LEMMA RunsNextKeeps == ASSUME RunsInvariant, D!DelegationsNext PROVE RunsInvariant'
<1> QED BY RunsSteps, RunsStay, DeclinesKeeps, LaunchesKeeps, StartsKeeps, WithdrawsKeeps, EndsKeeps, StopsKeeps, AllStoppedKeeps

LEMMA RunsStart ==
  ASSUME NEW b \in Books, NEW over, D!DelegationsStart(b, over)
  PROVE  RunsInvariant
<1>1. book \in Books /\ book = b
  BY DEF D!DelegationsStart
<1>2. D!CallIds = DOMAIN b.calls /\ \A c \in D!CallIds : D!LegsOf(c) = {<<c, n>> : n \in 1..D!Min({Len(b.calls[c].legs), MaxChildren})}
  BY <1>1 DEF D!CallIds, D!LegsOf, D!Size, D!Of
<1>3. D!Legs = UNION {{<<c, n>> : n \in 1..D!Min({Len(b.calls[c].legs), MaxChildren})} : c \in DOMAIN b.calls}
  BY <1>1 DEF D!Legs, D!CallIds, D!LegsOf, D!Size, D!Of
<1>4. /\ called = [c \in D!CallIds |-> "new"] /\ stage = [l \in D!Legs |-> "new"] /\ status = [l \in D!Legs |-> "none"]
      /\ signal = {} /\ pool = D!Fresh(PoolSize) /\ lanes = [c \in D!CallIds |-> D!Fresh(b.calls[c].conc)]
  BY <1>2, <1>3 DEF D!DelegationsStart
<1>5. /\ past = [failed |-> past.failed, tried |-> past.tried, forced |-> past.forced, early |-> past.early, rivals |-> past.rivals]
      /\ past.tried = {} /\ past.forced = {} /\ past.early = {} /\ past.rivals = [c \in D!CallIds |-> {}]
      /\ strikes = past.failed /\ strikes = [k \in DOMAIN strikes |-> strikes[k]]
  BY <1>2 DEF D!DelegationsStart
<1>6. /\ pool = [free |-> PoolSize, line |-> <<>>] /\ pool.free = PoolSize /\ pool.line = <<>> /\ PoolSize \in Nat
      /\ \A c \in D!CallIds : lanes[c].free = D!Of(c).conc /\ lanes[c].line = <<>> /\ lanes[c] \in SlotsOfRuns /\ D!Of(c).conc \in Nat
  <2>1. PoolSize \in Nat /\ \A c \in D!CallIds : D!Of(c).conc \in Nat /\ D!Of(c) = b.calls[c]
    BY <1>1, BooksAreCalls DEF D!Of, D!CallIds
  <2> QED BY <1>4, <2>1 DEF D!Fresh, SlotsOfRuns
<1>7. SlotsFit
  <2>1. PoolHeld(stage) = 0 /\ \A c \in D!CallIds : LaneHeld(stage, c) = 0
    <3>1. {l \in D!Legs : stage[l] \in {"granted", "runs"}} = {}
      BY <1>4
    <3>2. ASSUME NEW c \in D!CallIds PROVE {l \in D!LegsOf(c) : stage[l] \in {"queue", "granted", "runs"}} = {}
      BY <1>1, <1>4, LegsAre
    <3> QED BY <3>1, <3>2, FS_EmptySet DEF PoolHeld, LaneHeld, Count
  <2>2. stage \in [D!Legs -> Stages] /\ pool \in SlotsOfRuns /\ lanes \in [D!CallIds -> SlotsOfRuns]
    BY <1>4, <1>6 DEF Stages, SlotsOfRuns
  <2>3. D!Site \in Sites /\ D!Site.stage = stage /\ D!Site.pool = pool /\ D!Site.lanes = lanes
    BY <2>2 DEF D!Site, Sites
  <2>4. {l \in D!Legs : stage[l] = "queue"} = {}
    BY <1>4
  <2>5. PoolFits(D!Site)
    <3>1. 0 + PoolSize = PoolSize
      BY <1>6
    <3> QED BY <1>6, <2>1, <2>3, <2>4, <3>1, NobodyInLine DEF PoolFits
  <2>6. ASSUME NEW c \in D!CallIds PROVE LaneFits(D!Site, c, {})
    <3>1. {l \in D!LegsOf(c) : stage[l] = "line"} = {} /\ \A l \in D!LegsOf(c) : stage[l] # "line"
      BY <1>1, <1>4, LegsAre
    <3>2. 0 + D!Of(c).conc + 0 = D!Of(c).conc
      BY <1>6
    <3> QED BY <1>6, <2>1, <2>3, <3>1, <3>2, NobodyInLine DEF LaneFits
  <2> QED BY <2>3, <2>5, <2>6 DEF SlotsFit, SiteFits
<1>8. StagesFit
  <2>1. \A l \in D!Legs : l[1] \in D!CallIds
    BY <1>1, LegsAre
  <2> QED BY <1>4, <1>5, <2>1 DEF StagesFit
<1>9. CallsFit
  BY <1>4, <1>5 DEF CallsFit
<1>10. PastFits
  BY <1>5 DEF PastFits
<1> QED BY <1>1, <1>4, <1>7, <1>8, <1>9, <1>10 DEF RunsInvariant

\* Whatever is launched, stopped, steered or asked about, however legs end and whenever the
\* session closes: who waits and who works agrees with the slots of every call and of the pool,
\* and what a call was let to start with agrees with what was set to work against it.
THEOREM RunsAreSound == Spec => [](part = "runs" => RunsInvariant)
<1>1. Init => (part = "runs" => RunsInvariant)
  <2> SUFFICES ASSUME Init, part = "runs" PROVE RunsInvariant
    OBVIOUS
  <2>1. PICK b \in Books : D!DelegationsStart(b, FALSE)
    BY DEF Init, D!DelegationsInit
  <2> QED BY <2>1, RunsStart
<1>2. (part = "runs" => RunsInvariant) /\ [Next]_vars => (part = "runs" => RunsInvariant)'
  <2> SUFFICES ASSUME part = "runs" => RunsInvariant, [Next]_vars, part' = "runs" PROVE RunsInvariant'
    OBVIOUS
  <2>1. part = "runs" /\ (D!DelegationsNext \/ UNCHANGED vars)
    BY DEF Next, vars, InCouncil, InFlow, InTurns, InCalls, InRuns, InCheckouts, InPersona, InRows, others
  <2>2. CASE D!DelegationsNext
    BY <2>1, <2>2, RunsNextKeeps
  <2>3. CASE UNCHANGED vars
    BY <2>1, <2>3, RunsStay DEF vars, runVars, RunsCore
  <2> QED BY <2>1, <2>2, <2>3
<1> QED BY <1>1, <1>2, PTL DEF Spec

\* Two legs of a call that has one slot do not work at once.
LEMMA OneAtATime ==
  ASSUME book \in Books, SlotsFit, NEW c \in D!CallIds, D!Of(c).conc <= 1,
         NEW l \in D!LegsOf(c), NEW k \in D!LegsOf(c), stage[l] = "runs", stage[k] = "runs"
  PROVE  l = k
<1>1. D!Of(c).conc \in Nat /\ D!Size(c) \in Nat /\ l = <<c, l[2]>> /\ k = <<c, k[2]>> /\ l[2] \in 1..D!Size(c) /\ k[2] \in 1..D!Size(c)
  <2>1. D!Of(c).conc \in Nat
    BY BooksAreCalls DEF D!Of, D!CallIds
  <2> QED BY <2>1, LegsAre
<1>2. CASE ~D!Narrow(c)
  <2>1. D!Size(c) <= 1
    BY <1>1, <1>2 DEF D!Narrow
  <2>2. l[2] = 1 /\ k[2] = 1
    BY <1>1, <2>1
  <2> QED BY <1>1, <2>2
<1>3. CASE D!Narrow(c)
  <2> DEFINE W == {j \in D!LegsOf(c) : stage[j] \in {"queue", "granted", "runs"}}
  <2>1. LaneHeld(stage, c) + lanes[c].free + 0 = D!Of(c).conc /\ lanes[c].free \in Nat
    BY <1>3, StageIs DEF LaneFits, SlotsOfRuns
  <2>2. IsFiniteSet(W) /\ l \in W /\ k \in W
    <3>1. IsFiniteSet(D!LegsOf(c)) /\ W \subseteq D!LegsOf(c)
      BY LegsAre
    <3> QED BY <3>1, FS_Subset
  <2>3. LaneHeld(stage, c) = Cardinality(W)
    BY DEF LaneHeld, Count
  <2> HIDE DEF W
  <2>4. Cardinality(W) \in Nat /\ Cardinality(W) <= 1
    <3>1. Cardinality(W) \in Nat
      BY <2>2, FS_CardinalityType
    <3> QED BY <1>1, <2>1, <2>3, <3>1
  <2>5. l # k => FALSE
    <3> SUFFICES ASSUME l # k PROVE FALSE
      OBVIOUS
    <3>1. IsFiniteSet(W \ {l}) /\ Cardinality(W \ {l}) = Cardinality(W) - 1 /\ k \in W \ {l}
      BY <2>2, FS_RemoveElement
    <3>2. Cardinality((W \ {l}) \ {k}) = Cardinality(W \ {l}) - 1 /\ IsFiniteSet((W \ {l}) \ {k})
      BY <3>1, FS_RemoveElement
    <3>3. Cardinality((W \ {l}) \ {k}) \in Nat
      BY <3>2, FS_CardinalityType
    <3> QED BY <2>4, <3>1, <3>2, <3>3
  <2> QED BY <2>5
<1> QED BY <1>2, <1>3

LEMMA RunsImplySlots == ASSUME RunsInvariant PROVE D!SlotsAreKept
<1>1. book \in Books /\ SlotsFit
  BY DEF RunsInvariant
<1>2. PoolHeld(stage) + pool.free = PoolSize /\ (pool.line # <<>> => pool.free = 0)
  BY <1>1, StageIs DEF PoolFits
<1>3. D!Cardinality({l \in D!Legs : stage[l] \in {"granted", "runs"}}) = PoolHeld(stage)
  BY CardinalityOf DEF PoolHeld, Count
<1>4. ASSUME NEW c \in D!CallIds, D!Narrow(c)
      PROVE  /\ D!Cardinality({l \in D!LegsOf(c) : stage[l] \in {"queue", "granted", "runs"}}) + lanes[c].free = D!Of(c).conc
             /\ lanes[c].line # <<>> => lanes[c].free = 0
  <2>1. LaneFits(D!Site, c, {}) /\ D!Site.stage = stage /\ D!Site.lanes = lanes /\ lanes[c].free \in Nat
    BY <1>1, StageIs DEF SlotsOfRuns
  <2>2. LaneHeld(stage, c) + lanes[c].free + 0 = D!Of(c).conc /\ (lanes[c].line # <<>> => lanes[c].free = 0)
    BY <1>4, <2>1 DEF LaneFits
  <2>3. D!Cardinality({l \in D!LegsOf(c) : stage[l] \in {"queue", "granted", "runs"}}) = LaneHeld(stage, c)
    BY CardinalityOf DEF LaneHeld, Count
  <2>4. LaneHeld(stage, c) \in Nat
    <3>1. IsFiniteSet({l \in D!LegsOf(c) : stage[l] \in {"queue", "granted", "runs"}})
      BY <1>1, LegsAre, FS_Subset
    <3> QED BY <3>1, FS_CardinalityType DEF LaneHeld, Count
  <2>5. LaneHeld(stage, c) + lanes[c].free = D!Of(c).conc
    BY <2>1, <2>2, <2>4
  <2> QED BY <2>2, <2>3, <2>5
<1>5. \A l \in past.early : stage[l] # "runs"
  BY DEF RunsInvariant, StagesFit, PastFits
<1> QED BY <1>2, <1>3, <1>4, <1>5 DEF D!SlotsAreKept

LEMMA RunsImplyApart == ASSUME RunsInvariant PROVE D!WorkIsApart
<1> SUFFICES ASSUME NEW l \in D!Legs, NEW k \in D!Legs, l # k, stage[l] = "runs", stage[k] = "runs"
             PROVE  /\ D!Leg(l).role = "verifier" => k \notin past.rivals[l[1]]
                    /\ l[1] = k[1] /\ D!Leg(l).role # "reader" /\ D!Leg(k).role # "reader" => D!Leg(l).area \cap D!Leg(k).area = {}
  BY DEF D!WorkIsApart
<1> DEFINE c == l[1]
<1>1. book \in Books /\ SlotsFit
  BY DEF RunsInvariant
<1>2. /\ c \in D!CallIds /\ l \in D!LegsOf(c) /\ (k[1] = c => k \in D!LegsOf(c))
      /\ l[2] \in 1..Len(D!Of(c).legs) /\ (k[1] = c => k[2] \in 1..Len(D!Of(c).legs) /\ k[2] # l[2])
  <2>1. /\ l[1] \in D!CallIds /\ l \in D!LegsOf(l[1]) /\ l = <<l[1], l[2]>> /\ l[2] \in 1..D!Size(l[1])
        /\ k[1] \in D!CallIds /\ k \in D!LegsOf(k[1]) /\ k = <<k[1], k[2]>> /\ k[2] \in 1..D!Size(k[1])
        /\ D!Size(l[1]) \in Nat /\ D!Size(l[1]) <= Len(D!Of(l[1]).legs)
    BY <1>1, LegsAre
  <2>2. Len(D!Of(c).legs) \in Nat
    BY <1>1, <2>1, BooksAreCalls DEF D!Of, D!CallIds
  <2>3. k[1] = c => k[2] # l[2]
    BY <2>1
  <2> QED BY <2>1, <2>2, <2>3
<1>3. called[c] = "launched"
  BY <1>2 DEF RunsInvariant, StagesFit
<1>4. k[1] = c => ~(D!Of(c).conc <= 1)
  <2> HIDE DEF c
  <2> QED BY <1>1, <1>2, OneAtATime
<1>5. D!Of(c).conc \in Nat /\ DOMAIN D!Of(c).legs = 1..Len(D!Of(c).legs)
      /\ (D!Of(c).kind # "delegate" => Len(D!Of(c).legs) = 1 /\ D!Of(c).legs[1].role # "verifier")
      /\ \A n \in 1..Len(D!Of(c).legs) : D!Of(c).legs[n].role \in {"reader", "writer", "verifier"}
  BY <1>1, <1>2, BooksAreCalls DEF D!Of, D!CallIds
<1>6. D!Leg(l) = D!Of(c).legs[l[2]] /\ (k[1] = c => D!Leg(k) = D!Of(c).legs[k[2]])
  BY DEF D!Leg
<1>7. k[1] = c => D!Of(c).kind = "delegate"
  <2>1. Len(D!Of(c).legs) = 1 => l[2] = 1 /\ (k[1] = c => k[2] = 1)
    BY <1>2
  <2> QED BY <1>2, <1>5, <2>1
<1>8. CASE D!Leg(l).role = "verifier" /\ k \in past.rivals[c]
  <2>1. D!Verifiers(c) # {}
    BY <1>2, <1>5, <1>6, <1>8 DEF D!Verifiers
  <2>2. k \in D!Writers /\ k[1] = c
    BY <1>2, <1>3, <1>8, <2>1 DEF RunsInvariant, CallsFit
  <2>3. D!Mutations(c) # {}
    BY <1>2, <1>5, <1>6, <2>2 DEF D!Mutations, D!Writers
  <2>4. ~D!Stale(c)
    BY <1>2, <1>3, <1>7, <2>2 DEF RunsInvariant, CallsFit
  <2>5. D!Of(c).conc <= 1
    BY <1>5, <2>1, <2>3, <2>4 DEF D!Stale
  <2> QED BY <1>4, <2>2, <2>5
<1>9. CASE k[1] = c /\ D!Leg(l).role # "reader" /\ D!Leg(k).role # "reader"
  <2>1. l[2] \in D!Writing(c) /\ k[2] \in D!Writing(c) /\ l[2] # k[2]
    BY <1>2, <1>5, <1>6, <1>9 DEF D!Writing, D!Verifiers, D!Mutations
  <2>2. ~D!Contested(c)
    BY <1>2, <1>3, <1>7, <1>9 DEF RunsInvariant, CallsFit
  <2>3. D!Of(c).conc > 1
    BY <1>4, <1>5, <1>9
  <2>4. D!Of(c).legs[l[2]].area \cap D!Of(c).legs[k[2]].area = {}
    BY <2>1, <2>2, <2>3 DEF D!Contested
  <2> QED BY <1>6, <1>8, <1>9, <2>4
<1> QED BY <1>8, <1>9

LEMMA RunsImplyFair == ASSUME RunsInvariant PROVE D!StrikesAreFair
BY DEF RunsInvariant, CallsFit, D!StrikesAreFair

\* parallel.ts:60, delegate-tool.ts:630: for every session, no call and no pool has more legs
\* at work than slots and none is lost, a verifier and parallel writers are not worked against,
\* and only what failed often enough, on the same files, is vetoed.
THEOREM RunLimitsHold == Spec => [](part \notin {"council", "checkouts", "persona"} => LimitsHold)
<1>1. (part = "runs" => RunsInvariant) => (part \notin {"council", "checkouts", "persona"} => LimitsHold)
  BY RunsImplySlots, RunsImplyApart, RunsImplyFair DEF LimitsHold
<1> QED BY <1>1, RunsAreSound, PTL

---------------------------------------------------------------------------
(* Legs and the checkout they work in *)

TreeStages == {"check", "recheck", "add", "pin", "run", "diff", "list", "each", "remove", "rm", "prune", "settled", "over"}
SharedStages == {"before", "work", "after", "settled", "over"}

Trees ==
  [dir : BOOLEAN, listed : BOOLEAN, start : Nat, base : Nat, tracked : SUBSET job.files, committed : SUBSET job.files,
   edited : SUBSET job.files, fresh : SUBSET job.files, wrote : SUBSET job.files, got : SUBSET job.files,
   names : SUBSET job.files, removed : BOOLEAN, stuck : BOOLEAN, raced : BOOLEAN, captured : BOOLEAN]
Results ==
  [ok : BOOLEAN, kind : {"none", "contract", "provider", "agent"}, own : BOOLEAN, diff : SUBSET job.files,
   warned : BOOLEAN, listed : SUBSET job.files, more : Nat, outside : SUBSET job.files]
Marks == {"clean", "changed", "new"}
Shots ==
  [taken : BOOLEAN, before : [job.files -> Marks], touched : SUBSET job.files, wrote : SUBSET job.files, swept : SUBSET job.files]

\* What a leg hands over once its checkout has been read, or could not be.
Handed(t, r) ==
  ~t.raced =>
    /\ r.diff \subseteq C!Made(t)
    /\ r.ok => r.warned \/ (r.own /\ t.wrote = {}) \/ (r.diff # {} /\ t.wrote \subseteq r.diff)
    /\ t.captured /\ r.kind # "contract" => t.wrote \subseteq r.diff

\* The checkout of an isolated leg: where it is decides what is there, what a capture
\* has read, and what it still can miss.
TreeFits(a, t, r) ==
  /\ a \in TreeStages
  /\ a \in {"pin", "run", "diff", "list", "each", "remove"} => t.dir /\ ~t.removed
  /\ a = "rm" => IF t.removed THEN ~t.listed /\ ~t.dir ELSE t.dir
  /\ a # "prune" => (t.listed /\ ~t.dir => t.stuck)
  /\ a \in {"check", "recheck", "add", "pin", "run"} => r = C!NoResult
  /\ a \in {"pin", "run"} => t.got = {} /\ t.names = {} /\ t.wrote = {} /\ ~t.captured /\ ~t.raced
  /\ a \in {"run", "diff"} => t.base = t.start
  /\ a \in {"diff", "list", "each"} =>
       ~t.captured /\ r.diff = {} /\ (r.ok => ~r.warned) /\ r.kind # "contract" /\ t.wrote \subseteq C!Made(t)
  /\ a = "list" /\ ~t.raced => t.wrote \subseteq t.got \cup t.fresh /\ t.got \subseteq C!Made(t)
  /\ a = "each" /\ ~t.raced => t.wrote \subseteq t.got \cup t.names /\ t.got \cup t.names \subseteq C!Made(t)
  /\ a \in {"remove", "rm", "prune", "settled", "over"} => Handed(t, r)

\* What has happened to the shared checkout since a leg's first snapshot.
Watched(status_, s) ==
  \A f \in job.files :
    /\ status_[f] # s.before[f] => f \in s.touched
    /\ f \in s.wrote => status_[f] # "clean"
    /\ f \in s.swept => status_[f] = "clean"

\* What a report names, and what it has to.
Reported(s, r, mine) ==
  LET due == {f \in s.wrote : s.before[f] = "clean"} \cup {f \in s.swept : s.before[f] # "clean"} IN
  /\ r.listed \subseteq s.touched
  /\ IF r.more = 0 THEN due \subseteq r.listed ELSE Cardinality(r.listed) = MaxReported
  /\ Cardinality(due) <= Cardinality(r.listed) + r.more
  /\ r.outside = IF mine = {} THEN {} ELSE r.listed \ mine

ShotFits(status_, a, s, r, mine) ==
  /\ a \in SharedStages
  /\ a \in {"work", "after"} /\ s.taken => Watched(status_, s)
  /\ a \in {"settled", "over"} /\ s.taken /\ r.kind # "contract" => Reported(s, r, mine)

CheckoutsInvariant ==
  /\ job \in Jobs
  /\ repo \in [status : [job.files -> Marks], tracked : SUBSET job.files, head : Nat]
  /\ at \in [C!Legs -> TreeStages \cup SharedStages]
  /\ copy \in [C!Legs -> Trees] /\ shot \in [C!Legs -> Shots] /\ out \in [C!Legs -> Results]
  /\ \A l \in C!Legs : job.isolated[l] => TreeFits(at[l], copy[l], out[l])
  /\ \A l \in C!Legs : ~job.isolated[l] => ShotFits(repo.status, at[l], shot[l], out[l], job.owns[l])

---------------------------------------------------------------------------
(* Isolated legs *)

TreeTo(l, a, t, r) ==
  /\ at' = [at EXCEPT ![l] = a] /\ copy' = [copy EXCEPT ![l] = t] /\ out' = [out EXCEPT ![l] = r]
  /\ UNCHANGED <<job, repo, shot>>
  /\ t \in Trees /\ r \in Results /\ TreeFits(a, t, r)

LEMMA TreeKeeps ==
  ASSUME CheckoutsInvariant, NEW l \in C!Legs, job.isolated[l], NEW a, NEW t, NEW r, TreeTo(l, a, t, r)
  PROVE  CheckoutsInvariant'
<1>1. a \in TreeStages
  BY DEF TreeTo, TreeFits
<1>2. /\ at' \in [C!Legs -> TreeStages \cup SharedStages] /\ copy' \in [C!Legs -> Trees] /\ out' \in [C!Legs -> Results]
      /\ at'[l] = a /\ copy'[l] = t /\ out'[l] = r
      /\ \A k \in C!Legs \ {l} : at'[k] = at[k] /\ copy'[k] = copy[k] /\ out'[k] = out[k]
  BY <1>1 DEF CheckoutsInvariant, TreeTo
<1>3. job' = job /\ repo' = repo /\ shot' = shot /\ C!Legs' = C!Legs /\ Trees' = Trees /\ Shots' = Shots /\ Results' = Results
  BY DEF TreeTo, C!Legs, Trees, Shots, Results
<1>4. ASSUME NEW k \in C!Legs, job.isolated[k] PROVE TreeFits(at'[k], copy'[k], out'[k])
  BY <1>2, <1>4 DEF CheckoutsInvariant, TreeTo
<1>5. ASSUME NEW k \in C!Legs, ~job.isolated[k] PROVE ShotFits(repo.status, at'[k], shot[k], out'[k], job.owns[k])
  BY <1>2, <1>5 DEF CheckoutsInvariant
<1> QED BY <1>2, <1>3, <1>4, <1>5 DEF CheckoutsInvariant, ShotFits, Watched

\* The checkout of a leg, as the invariant has it.
LEMMA TreeIs ==
  ASSUME CheckoutsInvariant, NEW l \in C!Legs
  PROVE  /\ copy[l] \in Trees /\ out[l] \in Results /\ at[l] \in TreeStages \cup SharedStages
         /\ job.isolated[l] => TreeFits(at[l], copy[l], out[l])
         /\ ~job.isolated[l] => at[l] \in SharedStages
         /\ C!NoResult \in Results /\ C!Contract \in Results /\ C!NoTree \in Trees
         /\ copy = [copy EXCEPT ![l] = copy[l]] /\ out = [out EXCEPT ![l] = out[l]] /\ at = [at EXCEPT ![l] = at[l]]
<1>1. C!NoResult \in Results /\ C!Contract \in Results
  BY DEF C!NoResult, C!Contract, C!Result, Results
<1>2. C!NoTree \in Trees
  BY DEF C!NoTree, Trees
<1> QED BY <1>1, <1>2 DEF CheckoutsInvariant, ShotFits

\* A leg that gives up before its engine ran hands over nothing.
LEMMA GivesUp ==
  ASSUME CheckoutsInvariant, NEW l \in C!Legs, job.isolated[l], NEW a \in {"settled", "remove"},
         at[l] \in {"check", "recheck", "add", "pin", "run"}, a = "remove" <=> at[l] \in {"pin", "run"},
         NEW t \in Trees, t = copy[l] \/ (at[l] = "run" /\ t = [copy[l] EXCEPT !.wrote = C!Made(copy[l])])
  PROVE  TreeFits(a, t, C!Contract)
<1>1. copy[l] \in Trees /\ TreeFits(at[l], copy[l], out[l])
  BY TreeIs
<1>2. /\ t.dir = copy[l].dir /\ t.removed = copy[l].removed /\ t.listed = copy[l].listed /\ t.stuck = copy[l].stuck
      /\ t.captured = copy[l].captured
  BY <1>1 DEF Trees
<1>3. Handed(t, C!Contract)
  BY DEF Handed, C!Contract, C!Result
<1> QED BY <1>1, <1>2, <1>3 DEF TreeFits, TreeStages

LEMMA PreflightKeeps == ASSUME CheckoutsInvariant, NEW l \in C!Legs, C!Preflight(l) PROVE CheckoutsInvariant'
<1>1. job.isolated[l] /\ TreeFits(at[l], copy[l], out[l]) /\ at[l] \in {"check", "recheck"} /\ UNCHANGED <<job, repo, copy, shot>>
  BY TreeIs DEF C!Preflight, SharedStages
<1>2. CASE \E a \in {"recheck", "add"} : C!Goes(l, a) /\ UNCHANGED out
  <2>1. PICK a \in {"recheck", "add"} : C!Goes(l, a) /\ UNCHANGED out
    BY <1>2
  <2>2. TreeFits(a, copy[l], out[l])
    BY <1>1 DEF TreeFits, TreeStages
  <2>3. TreeTo(l, a, copy[l], out[l])
    BY <1>1, <2>1, <2>2, TreeIs DEF TreeTo, C!Goes
  <2> QED BY <1>1, <2>3, TreeKeeps
<1>3. CASE C!Settles(l, C!Contract, "settled")
  <2>1. TreeFits("settled", copy[l], C!Contract)
    BY <1>1, GivesUp, TreeIs
  <2>2. TreeTo(l, "settled", copy[l], C!Contract)
    BY <1>1, <1>3, <2>1, TreeIs DEF TreeTo, C!Settles, C!Goes
  <2> QED BY <1>1, <2>2, TreeKeeps
<1> QED BY <1>1, <1>2, <1>3 DEF C!Preflight

LEMMA AddKeeps == ASSUME CheckoutsInvariant, NEW l \in C!Legs, C!Add(l) PROVE CheckoutsInvariant'
<1>1. job.isolated[l] /\ TreeFits(at[l], copy[l], out[l]) /\ at[l] = "add" /\ UNCHANGED <<job, repo, shot>>
  BY TreeIs DEF C!Add, SharedStages
<1> DEFINE t == [C!NoTree EXCEPT !.dir = TRUE, !.listed = TRUE, !.start = repo.head, !.tracked = repo.tracked]
<1>2. CASE C!Tree(l, t) /\ C!Goes(l, "pin") /\ UNCHANGED out
  <2>1. /\ t \in Trees /\ t.dir /\ ~t.removed /\ t.got = {} /\ t.names = {} /\ t.wrote = {} /\ ~t.captured /\ ~t.raced
    BY DEF C!NoTree, Trees, CheckoutsInvariant
  <2> HIDE DEF t
  <2>2. TreeFits("pin", t, out[l])
    BY <1>1, <2>1 DEF TreeFits, TreeStages
  <2>3. TreeTo(l, "pin", t, out[l])
    BY <1>1, <1>2, <2>1, <2>2, TreeIs DEF TreeTo, C!Goes, C!Tree
  <2> QED BY <1>1, <2>3, TreeKeeps
<1>3. CASE C!Settles(l, C!Contract, "settled") /\ UNCHANGED copy
  <2>1. TreeFits("settled", copy[l], C!Contract)
    BY <1>1, GivesUp, TreeIs
  <2>2. TreeTo(l, "settled", copy[l], C!Contract)
    BY <1>1, <1>3, <2>1, TreeIs DEF TreeTo, C!Settles, C!Goes
  <2> QED BY <1>1, <2>2, TreeKeeps
<1> QED BY <1>2, <1>3 DEF C!Add

LEMMA PinKeeps == ASSUME CheckoutsInvariant, NEW l \in C!Legs, C!Pin(l) PROVE CheckoutsInvariant'
<1>1. job.isolated[l] /\ TreeFits(at[l], copy[l], out[l]) /\ at[l] = "pin" /\ UNCHANGED <<job, repo, shot>> /\ copy[l] \in Trees
  BY TreeIs DEF C!Pin, SharedStages
<1> DEFINE t == [copy[l] EXCEPT !.base = copy[l].start]
<1>2. CASE C!Tree(l, t) /\ C!Goes(l, "run") /\ UNCHANGED out
  <2>1. /\ t \in Trees /\ t.base = t.start /\ t.dir = copy[l].dir /\ t.removed = copy[l].removed /\ t.got = copy[l].got /\ t.names = copy[l].names
        /\ t.wrote = copy[l].wrote /\ t.captured = copy[l].captured /\ t.raced = copy[l].raced
        /\ t.listed = copy[l].listed /\ t.stuck = copy[l].stuck
    BY <1>1 DEF Trees
  <2> HIDE DEF t
  <2>2. TreeFits("run", t, out[l])
    BY <1>1, <2>1 DEF TreeFits, TreeStages
  <2>3. TreeTo(l, "run", t, out[l])
    BY <1>1, <1>2, <2>1, <2>2, TreeIs DEF TreeTo, C!Goes, C!Tree
  <2> QED BY <1>1, <2>3, TreeKeeps
<1>3. CASE C!Settles(l, C!Contract, "remove") /\ UNCHANGED copy
  <2>1. TreeFits("remove", copy[l], C!Contract)
    BY <1>1, GivesUp, TreeIs
  <2>2. TreeTo(l, "remove", copy[l], C!Contract)
    BY <1>1, <1>3, <2>1, TreeIs DEF TreeTo, C!Settles, C!Goes
  <2> QED BY <1>1, <2>2, TreeKeeps
<1> QED BY <1>2, <1>3 DEF C!Pin, C!PinnedHead

LEMMA TreeEndsKeeps == ASSUME CheckoutsInvariant, NEW l \in C!Legs, C!TreeEnds(l) PROVE CheckoutsInvariant'
<1>1. job.isolated[l] /\ TreeFits(at[l], copy[l], out[l]) /\ at[l] = "run" /\ UNCHANGED <<job, repo, shot>> /\ copy[l] \in Trees
  BY TreeIs DEF C!TreeEnds, SharedStages
<1> DEFINE t == [copy[l] EXCEPT !.wrote = C!Made(copy[l])]
<1>2. /\ t \in Trees /\ t.wrote = C!Made(t) /\ t.dir = copy[l].dir /\ t.removed = copy[l].removed /\ t.base = copy[l].base /\ t.start = copy[l].start
      /\ t.captured = copy[l].captured /\ t.listed = copy[l].listed /\ t.stuck = copy[l].stuck /\ C!Tree(l, t)
  BY <1>1 DEF Trees, C!Made, C!TreeEnds
<1>3. CASE \E kind \in {"none", "provider", "agent"}, own_ \in BOOLEAN : C!Settles(l, C!Result(kind = "none", kind, own_), "diff")
  <2>1. PICK kind \in {"none", "provider", "agent"}, own_ \in BOOLEAN : C!Settles(l, C!Result(kind = "none", kind, own_), "diff")
    BY <1>3
  <2> DEFINE r == C!Result(kind = "none", kind, own_)
  <2>2. r \in Results /\ r.diff = {} /\ ~r.warned /\ r.kind # "contract"
    BY DEF C!Result, Results
  <2> HIDE DEF t, r
  <2>3. TreeFits("diff", t, r)
    BY <1>1, <1>2, <2>2 DEF TreeFits, TreeStages
  <2>4. C!Settles(l, r, "diff")
    BY <2>1 DEF r
  <2>5. TreeTo(l, "diff", t, r)
    BY <1>1, <1>2, <2>2, <2>3, <2>4 DEF TreeTo, C!Settles, C!Goes, C!Tree
  <2> QED BY <1>1, <2>5, TreeKeeps
<1>4. CASE C!Settles(l, C!Contract, "remove")
  <2>1. TreeFits("remove", t, C!Contract)
    BY <1>1, <1>2, GivesUp
  <2> HIDE DEF t
  <2>2. TreeTo(l, "remove", t, C!Contract)
    BY <1>1, <1>2, <1>4, <2>1, TreeIs DEF TreeTo, C!Settles, C!Goes, C!Tree
  <2> QED BY <1>1, <2>2, TreeKeeps
<1> QED BY <1>3, <1>4 DEF C!TreeEnds

\* A capture that fails leaves a failure, or a success that is said to be unverified.
LEMMA JudgedUnread ==
  ASSUME CheckoutsInvariant, NEW l \in C!Legs, job.isolated[l], at[l] \in {"diff", "list", "each"}
  PROVE  C!Judged(out[l], FALSE, {}) \in Results /\ TreeFits("remove", copy[l], C!Judged(out[l], FALSE, {}))
<1> DEFINE q == out[l]
           r == C!Judged(q, FALSE, {})
<1>1. copy[l] \in Trees /\ TreeFits(at[l], copy[l], q) /\ q \in Results /\ C!Contract \in Results
  BY TreeIs
<1>2. r = (IF ~q.ok THEN q ELSE IF q.own THEN [q EXCEPT !.warned = TRUE] ELSE C!Contract)
  BY <1>1 DEF C!Judged, Results
<1> HIDE DEF q
<1>3. r \in Results /\ r.diff = {} /\ (r.ok => r.warned)
  <2>1. q.diff = {}
    BY <1>1 DEF TreeFits
  <2>2. [q EXCEPT !.warned = TRUE] \in Results /\ [q EXCEPT !.warned = TRUE].diff = q.diff /\ [q EXCEPT !.warned = TRUE].warned
    BY <1>1 DEF Results
  <2>3. C!Contract.diff = {} /\ ~C!Contract.ok
    BY DEF C!Contract, C!Result
  <2> HIDE DEF r
  <2> QED BY <1>1, <1>2, <2>1, <2>2, <2>3
<1> HIDE DEF r
<1>4. Handed(copy[l], r)
  BY <1>1, <1>3 DEF Handed, TreeFits
<1>5. TreeFits("remove", copy[l], r)
  BY <1>1, <1>4 DEF TreeFits, TreeStages
<1> QED BY <1>3, <1>5 DEF r, q

LEMMA UnreadKeeps ==
  ASSUME CheckoutsInvariant, NEW l \in C!Legs, job.isolated[l], at[l] \in {"diff", "list", "each"},
         C!Judge(l, FALSE, {}), UNCHANGED <<job, repo, copy, shot>>
  PROVE  CheckoutsInvariant'
<1> DEFINE r == C!Judged(out[l], FALSE, {})
<1>1. r \in Results /\ TreeFits("remove", copy[l], r)
  BY JudgedUnread
<1>2. C!Settles(l, r, "remove")
  BY DEF C!Judge
<1> HIDE DEF r
<1>3. TreeTo(l, "remove", copy[l], r)
  BY <1>1, <1>2, TreeIs DEF TreeTo, C!Settles, C!Goes
<1> QED BY <1>3, TreeKeeps

LEMMA DiffTrackedKeeps == ASSUME CheckoutsInvariant, NEW l \in C!Legs, C!DiffTracked(l) PROVE CheckoutsInvariant'
<1>1. job.isolated[l] /\ TreeFits(at[l], copy[l], out[l]) /\ at[l] = "diff" /\ UNCHANGED <<job, repo, shot>> /\ copy[l] \in Trees
  BY TreeIs DEF C!DiffTracked, SharedStages
<1> DEFINE t == [copy[l] EXCEPT !.got = C!Tracked(copy[l])]
<1>2. CASE C!Tree(l, t) /\ C!Goes(l, "list") /\ UNCHANGED out
  <2>1. C!Tracked(copy[l]) = copy[l].committed \cup copy[l].edited
    BY <1>1 DEF C!Tracked, TreeFits
  <2>2. /\ t \in Trees /\ t.got = t.committed \cup t.edited /\ t.wrote \subseteq C!Made(t) /\ C!Made(t) = t.committed \cup t.edited \cup t.fresh
        /\ t.dir = copy[l].dir /\ t.removed = copy[l].removed
        /\ t.captured = copy[l].captured /\ t.listed = copy[l].listed /\ t.stuck = copy[l].stuck
    BY <1>1, <2>1 DEF Trees, C!Made, TreeFits
  <2> HIDE DEF t
  <2>3. TreeFits("list", t, out[l])
    BY <1>1, <2>2 DEF TreeFits, TreeStages
  <2>4. TreeTo(l, "list", t, out[l])
    BY <1>1, <1>2, <2>2, <2>3, TreeIs DEF TreeTo, C!Goes, C!Tree
  <2> QED BY <1>1, <2>4, TreeKeeps
<1>3. CASE C!Judge(l, FALSE, {}) /\ UNCHANGED copy
  BY <1>1, <1>3, UnreadKeeps
<1> QED BY <1>2, <1>3 DEF C!DiffTracked

LEMMA ListNewKeeps == ASSUME CheckoutsInvariant, NEW l \in C!Legs, C!ListNew(l) PROVE CheckoutsInvariant'
<1>1. job.isolated[l] /\ TreeFits(at[l], copy[l], out[l]) /\ at[l] = "list" /\ UNCHANGED <<job, repo, shot>> /\ copy[l] \in Trees
  BY TreeIs DEF C!ListNew, SharedStages
<1> DEFINE t == [copy[l] EXCEPT !.names = copy[l].fresh]
<1>2. CASE C!Tree(l, t) /\ C!Goes(l, "each") /\ UNCHANGED out
  <2>1. /\ t \in Trees /\ t.names = t.fresh /\ t.got = copy[l].got /\ t.wrote = copy[l].wrote /\ t.fresh = copy[l].fresh /\ t.raced = copy[l].raced
        /\ C!Made(t) = C!Made(copy[l]) /\ t.fresh \subseteq C!Made(t)
        /\ t.dir = copy[l].dir /\ t.removed = copy[l].removed
        /\ t.captured = copy[l].captured /\ t.listed = copy[l].listed /\ t.stuck = copy[l].stuck
    BY <1>1 DEF Trees, C!Made
  <2> HIDE DEF t
  <2>2. TreeFits("each", t, out[l])
    BY <1>1, <2>1 DEF TreeFits, TreeStages
  <2>3. TreeTo(l, "each", t, out[l])
    BY <1>1, <1>2, <2>1, <2>2, TreeIs DEF TreeTo, C!Goes, C!Tree
  <2> QED BY <1>1, <2>3, TreeKeeps
<1>3. CASE C!Judge(l, FALSE, {}) /\ UNCHANGED copy
  BY <1>1, <1>3, UnreadKeeps
<1> QED BY <1>2, <1>3 DEF C!ListNew

LEMMA DiffNewKeeps == ASSUME CheckoutsInvariant, NEW l \in C!Legs, C!DiffNew(l) PROVE CheckoutsInvariant'
<1>1. job.isolated[l] /\ TreeFits(at[l], copy[l], out[l]) /\ at[l] = "each" /\ UNCHANGED <<job, repo, shot>> /\ copy[l] \in Trees
  BY TreeIs DEF C!DiffNew, SharedStages
<1>2. CASE \E f \in copy[l].names :
             C!Tree(l, [copy[l] EXCEPT !.names = @ \ {f}, !.got = @ \cup {f}]) /\ UNCHANGED <<at, out>>
  <2>1. PICK f \in copy[l].names :
             C!Tree(l, [copy[l] EXCEPT !.names = @ \ {f}, !.got = @ \cup {f}]) /\ UNCHANGED <<at, out>>
    BY <1>2
  <2> DEFINE t == [copy[l] EXCEPT !.names = @ \ {f}, !.got = @ \cup {f}]
  <2>2. /\ t \in Trees /\ t.names = copy[l].names \ {f} /\ t.got = copy[l].got \cup {f} /\ t.wrote = copy[l].wrote /\ t.raced = copy[l].raced
        /\ C!Made(t) = C!Made(copy[l])
        /\ t.dir = copy[l].dir /\ t.removed = copy[l].removed
        /\ t.captured = copy[l].captured /\ t.listed = copy[l].listed /\ t.stuck = copy[l].stuck
    BY <1>1 DEF Trees, C!Made
  <2>3. C!Tree(l, t)
    BY <2>1
  <2> HIDE DEF t
  <2>4. t.got \cup t.names = copy[l].got \cup copy[l].names
    BY <2>2
  <2>5. TreeFits("each", t, out[l])
    BY <1>1, <2>2, <2>4 DEF TreeFits, TreeStages
  <2>6. TreeTo(l, "each", t, out[l])
    BY <1>1, <2>1, <2>2, <2>3, <2>5, TreeIs DEF TreeTo, C!Tree
  <2> QED BY <1>1, <2>6, TreeKeeps
<1>3. CASE C!Judge(l, FALSE, {}) /\ UNCHANGED copy
  BY <1>1, <1>3, UnreadKeeps
<1> QED BY <1>2, <1>3 DEF C!DiffNew

LEMMA CapturedKeeps == ASSUME CheckoutsInvariant, NEW l \in C!Legs, C!Captured(l) PROVE CheckoutsInvariant'
<1> DEFINE q == out[l]
           t == [copy[l] EXCEPT !.captured = TRUE]
           r == C!Judged(q, TRUE, copy[l].got)
<1>1. /\ job.isolated[l] /\ TreeFits("each", copy[l], q) /\ UNCHANGED <<job, repo, shot>> /\ copy[l] \in Trees /\ q \in Results
      /\ copy[l].names = {} /\ at[l] = "each" /\ C!Contract \in Results
  BY TreeIs DEF C!Captured, SharedStages
<1>2. r = (IF ~q.ok THEN C!Appended(q, copy[l].got)
           ELSE IF copy[l].got # {} \/ q.own THEN C!Appended(q, copy[l].got) ELSE C!Contract)
  BY <1>1 DEF C!Judged, Results
<1>3. /\ t \in Trees /\ t.got = copy[l].got /\ t.wrote = copy[l].wrote /\ t.raced = copy[l].raced /\ C!Made(t) = C!Made(copy[l])
      /\ t.dir = copy[l].dir /\ t.removed = copy[l].removed /\ t.listed = copy[l].listed /\ t.stuck = copy[l].stuck
      /\ C!Settles(l, r, "remove") /\ C!Tree(l, t) /\ t.got \in SUBSET job.files
  BY <1>1 DEF Trees, C!Made, C!Captured, C!Judge
<1> HIDE DEF q, t
<1>4. r \in Results /\ (r.diff = t.got \/ r.kind = "contract") /\ (r.kind = "contract" => r.diff = {} /\ ~r.ok)
      /\ (r.ok => r.diff # {} \/ r.own)
  <2>1. C!Appended(q, t.got) \in Results /\ C!Appended(q, t.got).diff = t.got
        /\ C!Appended(q, t.got).own = q.own /\ C!Appended(q, t.got).ok = q.ok /\ C!Appended(q, t.got).kind = q.kind
    BY <1>1, <1>3 DEF C!Appended, Results, TreeFits
  <2>2. C!Contract.diff = {} /\ ~C!Contract.ok /\ C!Contract.kind = "contract"
    BY DEF C!Contract, C!Result
  <2> QED BY <1>1, <1>2, <1>3, <2>1, <2>2 DEF TreeFits
<1> HIDE DEF r
<1>5. ~t.raced => t.wrote \subseteq t.got /\ t.got \subseteq C!Made(t)
  BY <1>1, <1>3 DEF TreeFits
<1>6. Handed(t, r)
  BY <1>4, <1>5 DEF Handed
<1>7. TreeFits("remove", t, r)
  BY <1>1, <1>3, <1>6 DEF TreeFits, TreeStages
<1>8. TreeTo(l, "remove", t, r)
  BY <1>3, <1>4, <1>7, <1>1 DEF TreeTo, C!Settles, C!Goes, C!Tree
<1> QED BY <1>1, <1>8, TreeKeeps

LEMMA RemoveKeeps == ASSUME CheckoutsInvariant, NEW l \in C!Legs, C!Remove(l) PROVE CheckoutsInvariant'
<1>1. job.isolated[l] /\ TreeFits(at[l], copy[l], out[l]) /\ at[l] = "remove" /\ UNCHANGED <<job, repo, shot, out>> /\ copy[l] \in Trees
      /\ C!Goes(l, "rm")
  BY TreeIs DEF C!Remove, SharedStages
<1> DEFINE t == [copy[l] EXCEPT !.dir = FALSE, !.listed = FALSE, !.removed = TRUE]
<1>2. CASE C!Tree(l, t)
  <2>1. /\ t \in Trees /\ ~t.dir /\ ~t.listed /\ t.removed /\ t.wrote = copy[l].wrote /\ t.raced = copy[l].raced
        /\ C!Made(t) = C!Made(copy[l]) /\ t.captured = copy[l].captured
    BY <1>1 DEF Trees, C!Made
  <2> HIDE DEF t
  <2>2. TreeFits("rm", t, out[l])
    BY <1>1, <2>1 DEF TreeFits, TreeStages, Handed
  <2>3. TreeTo(l, "rm", t, out[l])
    BY <1>1, <1>2, <2>1, <2>2, TreeIs DEF TreeTo, C!Goes, C!Tree
  <2> QED BY <1>1, <2>3, TreeKeeps
<1>3. CASE UNCHANGED copy
  <2>1. TreeFits("rm", copy[l], out[l])
    BY <1>1 DEF TreeFits, TreeStages
  <2>2. TreeTo(l, "rm", copy[l], out[l])
    BY <1>1, <1>3, <2>1, TreeIs DEF TreeTo, C!Goes
  <2> QED BY <1>1, <2>2, TreeKeeps
<1> QED BY <1>2, <1>3 DEF C!Remove

LEMMA RmKeeps == ASSUME CheckoutsInvariant, NEW l \in C!Legs, C!Rm(l) PROVE CheckoutsInvariant'
<1> DEFINE a == C!AfterRm(l)
<1>1. job.isolated[l] /\ TreeFits(at[l], copy[l], out[l]) /\ at[l] = "rm" /\ UNCHANGED <<job, repo, shot, out>> /\ copy[l] \in Trees
      /\ C!Goes(l, a)
  BY TreeIs DEF C!Rm, SharedStages
<1>2. a = IF copy[l].removed THEN "settled" ELSE "prune"
  BY DEF C!AfterRm
<1> HIDE DEF a
<1> DEFINE t == [copy[l] EXCEPT !.dir = FALSE]
<1>3. CASE C!Tree(l, t)
  <2>1. /\ t \in Trees /\ ~t.dir /\ t.listed = copy[l].listed /\ t.removed = copy[l].removed /\ t.wrote = copy[l].wrote /\ t.raced = copy[l].raced
        /\ C!Made(t) = C!Made(copy[l]) /\ t.captured = copy[l].captured
    BY <1>1 DEF Trees, C!Made
  <2> HIDE DEF t
  <2>2. TreeFits(a, t, out[l])
    BY <1>1, <1>2, <2>1 DEF TreeFits, TreeStages, Handed
  <2>3. TreeTo(l, a, t, out[l])
    BY <1>1, <1>3, <2>1, <2>2, TreeIs DEF TreeTo, C!Goes, C!Tree
  <2> QED BY <1>1, <2>3, TreeKeeps
<1>4. CASE copy[l].dir /\ UNCHANGED copy
  <2>1. TreeFits(a, copy[l], out[l])
    BY <1>1, <1>2, <1>4 DEF TreeFits, TreeStages
  <2>2. TreeTo(l, a, copy[l], out[l])
    BY <1>1, <1>4, <2>1, TreeIs DEF TreeTo, C!Goes
  <2> QED BY <1>1, <2>2, TreeKeeps
<1> QED BY <1>3, <1>4 DEF C!Rm

LEMMA PruneKeeps == ASSUME CheckoutsInvariant, NEW l \in C!Legs, C!Prune(l) PROVE CheckoutsInvariant'
<1>1. job.isolated[l] /\ TreeFits(at[l], copy[l], out[l]) /\ at[l] = "prune" /\ UNCHANGED <<job, repo, shot, out>> /\ copy[l] \in Trees
      /\ C!Goes(l, "settled")
  BY TreeIs DEF C!Prune, SharedStages
<1>2. CASE copy' = [k \in C!Legs |-> [copy[k] EXCEPT !.listed = @ /\ copy[k].dir]]
  <2>1. ASSUME NEW k \in C!Legs
        PROVE  /\ copy'[k] \in Trees /\ copy'[k].dir = copy[k].dir /\ copy'[k].listed = (copy[k].listed /\ copy[k].dir)
               /\ copy'[k].removed = copy[k].removed /\ copy'[k].stuck = copy[k].stuck /\ copy'[k].got = copy[k].got
               /\ copy'[k].names = copy[k].names /\ copy'[k].wrote = copy[k].wrote /\ copy'[k].captured = copy[k].captured
               /\ copy'[k].raced = copy[k].raced /\ copy'[k].base = copy[k].base /\ copy'[k].start = copy[k].start
               /\ copy'[k].fresh = copy[k].fresh /\ C!Made(copy'[k]) = C!Made(copy[k])
    <3>1. copy[k] \in Trees /\ copy'[k] = [copy[k] EXCEPT !.listed = @ /\ copy[k].dir]
      BY <1>2, TreeIs
    <3>2. /\ copy'[k] \in Trees /\ copy'[k].dir = copy[k].dir /\ copy'[k].listed = (copy[k].listed /\ copy[k].dir)
          /\ copy'[k].removed = copy[k].removed /\ copy'[k].stuck = copy[k].stuck
      BY <3>1 DEF Trees
    <3>3. /\ copy'[k].got = copy[k].got /\ copy'[k].names = copy[k].names /\ copy'[k].wrote = copy[k].wrote
          /\ copy'[k].captured = copy[k].captured /\ copy'[k].raced = copy[k].raced
          /\ copy'[k].base = copy[k].base /\ copy'[k].start = copy[k].start
      BY <3>1 DEF Trees
    <3>4. copy'[k].fresh = copy[k].fresh /\ copy'[k].edited = copy[k].edited /\ copy'[k].committed = copy[k].committed
      BY <3>1 DEF Trees
    <3> QED BY <3>2, <3>3, <3>4 DEF C!Made
  <2>2. /\ at' \in [C!Legs -> TreeStages \cup SharedStages] /\ at'[l] = "settled" /\ \A k \in C!Legs \ {l} : at'[k] = at[k]
    BY <1>1 DEF CheckoutsInvariant, C!Goes, TreeStages
  <2>3. copy' \in [C!Legs -> Trees]
    BY <1>2, <2>1
  <2>4. ASSUME NEW k \in C!Legs, job.isolated[k] PROVE TreeFits(at'[k], copy'[k], out[k])
    <3>1. TreeFits(at[k], copy[k], out[k])
      BY <2>4, TreeIs
    <3>2. CASE k = l
      BY <1>1, <2>1, <2>2, <3>1, <3>2 DEF TreeFits, TreeStages, Handed
    <3>3. CASE k # l
      <4>1. at'[k] = at[k]
        BY <2>2, <3>3
      <4> DEFINE s == copy[k]
                 t == copy'[k]
                 r == out[k]
                 a == at[k]
      <4>2. /\ t.dir = s.dir /\ t.listed = (s.listed /\ s.dir)
            /\ t.removed = s.removed /\ t.stuck = s.stuck /\ t.got = s.got
            /\ t.names = s.names /\ t.wrote = s.wrote /\ t.captured = s.captured
            /\ t.raced = s.raced /\ t.base = s.base /\ t.start = s.start
            /\ t.fresh = s.fresh /\ C!Made(t) = C!Made(s) /\ TreeFits(a, s, r)
        BY <2>1, <3>1
      <4> HIDE DEF s, t, r, a
      <4>3. Handed(s, r) => Handed(t, r)
        BY <4>2 DEF Handed
      <4>4. TreeFits(a, t, r)
        BY <4>2, <4>3 DEF TreeFits
      <4> QED BY <4>1, <4>4 DEF s, t, r, a
    <3> QED BY <3>2, <3>3
  <2>5. ASSUME NEW k \in C!Legs, ~job.isolated[k] PROVE ShotFits(repo.status, at'[k], shot[k], out[k], job.owns[k])
    BY <1>1, <2>2, <2>5 DEF CheckoutsInvariant
  <2>6. C!Legs' = C!Legs /\ Trees' = Trees /\ Shots' = Shots /\ Results' = Results
    BY <1>1 DEF C!Legs, Trees, Shots, Results
  <2> QED BY <1>1, <2>2, <2>3, <2>4, <2>5, <2>6 DEF CheckoutsInvariant, ShotFits, Watched
<1> DEFINE t == [copy[l] EXCEPT !.stuck = TRUE]
<1>3. CASE C!Tree(l, t)
  <2>1. /\ t \in Trees /\ t.stuck /\ t.wrote = copy[l].wrote /\ t.raced = copy[l].raced
        /\ C!Made(t) = C!Made(copy[l]) /\ t.captured = copy[l].captured
    BY <1>1 DEF Trees, C!Made
  <2> HIDE DEF t
  <2>2. TreeFits("settled", t, out[l])
    BY <1>1, <2>1 DEF TreeFits, TreeStages, Handed
  <2>3. TreeTo(l, "settled", t, out[l])
    BY <1>1, <1>3, <2>1, <2>2, TreeIs DEF TreeTo, C!Goes, C!Tree
  <2> QED BY <1>1, <2>3, TreeKeeps
<1> QED BY <1>2, <1>3 DEF C!Prune

LEMMA TreeWriteKeeps == ASSUME CheckoutsInvariant, NEW l \in C!Legs, NEW f \in job.files, C!TreeWrite(l, f) PROVE CheckoutsInvariant'
<1> DEFINE t == IF f \in copy[l].tracked THEN [copy[l] EXCEPT !.edited = @ \cup {f}] ELSE [copy[l] EXCEPT !.fresh = @ \cup {f}]
<1>1. job.isolated[l] /\ TreeFits(at[l], copy[l], out[l]) /\ UNCHANGED <<job, repo, shot, out, at>> /\ copy[l] \in Trees
      /\ C!Tree(l, t)
  BY TreeIs DEF C!TreeWrite, C!Isolated
<1>2. /\ t \in Trees /\ t.dir = copy[l].dir /\ t.listed = copy[l].listed
      /\ t.removed = copy[l].removed /\ t.stuck = copy[l].stuck /\ t.got = copy[l].got
      /\ t.names = copy[l].names /\ t.wrote = copy[l].wrote /\ t.captured = copy[l].captured
      /\ t.raced = copy[l].raced /\ t.base = copy[l].base /\ t.start = copy[l].start
      /\ copy[l].fresh \subseteq t.fresh /\ C!Made(copy[l]) \subseteq C!Made(t)
  <2>1. CASE f \in copy[l].tracked
    BY <1>1, <2>1 DEF Trees, C!Made
  <2>2. CASE f \notin copy[l].tracked
    BY <1>1, <2>2 DEF Trees, C!Made
  <2> QED BY <2>1, <2>2
<1> HIDE DEF t
<1>3. Handed(copy[l], out[l]) => Handed(t, out[l])
  BY <1>2 DEF Handed
<1>4. TreeFits(at[l], t, out[l])
  BY <1>1, <1>2, <1>3 DEF TreeFits
<1>5. TreeTo(l, at[l], t, out[l])
  BY <1>1, <1>2, <1>4, TreeIs DEF TreeTo, C!Tree
<1> QED BY <1>1, <1>5, TreeKeeps

LEMMA TreeCommitKeeps == ASSUME CheckoutsInvariant, NEW l \in C!Legs, C!TreeCommit(l) PROVE CheckoutsInvariant'
<1> DEFINE t == [copy[l] EXCEPT !.committed = C!Made(copy[l]), !.edited = {}, !.fresh = {}, !.tracked = @ \cup copy[l].fresh,
                                !.raced = at[l] # "run"]
<1>1. job.isolated[l] /\ TreeFits(at[l], copy[l], out[l]) /\ UNCHANGED <<job, repo, shot, out, at>> /\ copy[l] \in Trees
      /\ C!Tree(l, t) /\ at[l] \in {"run", "diff", "list", "each", "remove"}
  BY TreeIs DEF C!TreeCommit, C!Isolated, C!Capturing
<1>2. /\ t \in Trees /\ t.dir = copy[l].dir /\ t.listed = copy[l].listed
      /\ t.removed = copy[l].removed /\ t.stuck = copy[l].stuck /\ t.got = copy[l].got
      /\ t.names = copy[l].names /\ t.wrote = copy[l].wrote /\ t.captured = copy[l].captured
      /\ t.base = copy[l].base /\ t.start = copy[l].start
      /\ t.raced = (at[l] # "run") /\ C!Made(t) = C!Made(copy[l])
  BY <1>1 DEF Trees, C!Made
<1> HIDE DEF t
<1>3. TreeFits(at[l], t, out[l])
  BY <1>1, <1>2 DEF TreeFits, Handed
<1>4. TreeTo(l, at[l], t, out[l])
  BY <1>1, <1>2, <1>3, TreeIs DEF TreeTo, C!Tree
<1> QED BY <1>1, <1>4, TreeKeeps

---------------------------------------------------------------------------
(* Legs in the shared checkout *)

SharedTo(l, a, s, r) ==
  /\ at' = [at EXCEPT ![l] = a] /\ shot' = [shot EXCEPT ![l] = s] /\ out' = [out EXCEPT ![l] = r]
  /\ UNCHANGED <<job, repo, copy>>
  /\ s \in Shots /\ r \in Results /\ ShotFits(repo.status, a, s, r, job.owns[l])

LEMMA SharedKeeps ==
  ASSUME CheckoutsInvariant, NEW l \in C!Legs, ~job.isolated[l], NEW a, NEW s, NEW r, SharedTo(l, a, s, r)
  PROVE  CheckoutsInvariant'
<1>1. a \in SharedStages
  BY DEF SharedTo, ShotFits
<1>2. /\ at' \in [C!Legs -> TreeStages \cup SharedStages] /\ shot' \in [C!Legs -> Shots] /\ out' \in [C!Legs -> Results]
      /\ at'[l] = a /\ shot'[l] = s /\ out'[l] = r
      /\ \A k \in C!Legs \ {l} : at'[k] = at[k] /\ shot'[k] = shot[k] /\ out'[k] = out[k]
  BY <1>1 DEF CheckoutsInvariant, SharedTo
<1>3. job' = job /\ repo' = repo /\ copy' = copy /\ C!Legs' = C!Legs /\ Trees' = Trees /\ Shots' = Shots /\ Results' = Results
  BY DEF SharedTo, C!Legs, Trees, Shots, Results
<1>4. ASSUME NEW k \in C!Legs, job.isolated[k] PROVE TreeFits(at'[k], copy[k], out'[k])
  BY <1>2, <1>4 DEF CheckoutsInvariant
<1>5. ASSUME NEW k \in C!Legs, ~job.isolated[k] PROVE ShotFits(repo.status, at'[k], shot'[k], out'[k], job.owns[k])
  BY <1>2, <1>5 DEF CheckoutsInvariant, SharedTo
<1> QED BY <1>2, <1>3, <1>4, <1>5 DEF CheckoutsInvariant, ShotFits, Watched

\* The snapshot of a leg, as the invariant has it.
LEMMA ShotIs ==
  ASSUME CheckoutsInvariant, NEW l \in C!Legs
  PROVE  /\ shot[l] \in Shots /\ shot = [shot EXCEPT ![l] = shot[l]] /\ repo.status \in [job.files -> Marks]
         /\ repo.tracked \in SUBSET job.files /\ repo.head \in Nat
         /\ ~job.isolated[l] => ShotFits(repo.status, at[l], shot[l], out[l], job.owns[l])
         /\ job.isolated[l] => at[l] \in TreeStages
         /\ C!Clean \in [job.files -> Marks]
BY TreeIs DEF CheckoutsInvariant, TreeFits, C!Clean, Marks

LEMMA BeforeKeeps == ASSUME CheckoutsInvariant, NEW l \in C!Legs, C!Before(l) PROVE CheckoutsInvariant'
<1>1. ~job.isolated[l] /\ at[l] = "before" /\ UNCHANGED <<job, repo, copy, out>> /\ C!Goes(l, "work")
  BY ShotIs DEF C!Before, TreeStages
<1>2. PICK taken \in BOOLEAN :
         shot' = [shot EXCEPT ![l] = [taken |-> taken, before |-> IF taken THEN repo.status ELSE C!Clean, touched |-> {}, wrote |-> {}, swept |-> {}]]
  BY DEF C!Before
<1> DEFINE s == [taken |-> taken, before |-> IF taken THEN repo.status ELSE C!Clean, touched |-> {}, wrote |-> {}, swept |-> {}]
<1>3. s \in Shots /\ s.wrote = {} /\ s.swept = {} /\ (s.taken => s.before = repo.status)
  BY ShotIs DEF Shots
<1>4. shot' = [shot EXCEPT ![l] = s]
  BY <1>2
<1> HIDE DEF s
<1>5. ShotFits(repo.status, "work", s, out[l], job.owns[l])
  BY <1>3 DEF ShotFits, SharedStages, Watched
<1>6. SharedTo(l, "work", s, out[l])
  BY <1>1, <1>3, <1>4, <1>5, TreeIs DEF SharedTo, C!Goes
<1> QED BY <1>1, <1>6, SharedKeeps

LEMMA WorkEndsKeeps == ASSUME CheckoutsInvariant, NEW l \in C!Legs, C!WorkEnds(l) PROVE CheckoutsInvariant'
<1>1. /\ ~job.isolated[l] /\ at[l] = "work" /\ UNCHANGED <<job, repo, copy, shot>>
      /\ ShotFits(repo.status, "work", shot[l], out[l], job.owns[l]) /\ shot[l] \in Shots
  BY ShotIs DEF C!WorkEnds, TreeStages
<1>2. PICK r \in Results, a \in {"after", "settled"} :
        C!Settles(l, r, a) /\ ((a = "after" <=> shot[l].taken) \/ (a = "settled" /\ r.kind = "contract"))
  <2>1. CASE \E kind \in {"none", "provider", "agent"} :
               C!Settles(l, C!Result(kind = "none", kind, FALSE), IF shot[l].taken THEN "after" ELSE "settled")
    <3>1. PICK kind \in {"none", "provider", "agent"} :
             C!Settles(l, C!Result(kind = "none", kind, FALSE), IF shot[l].taken THEN "after" ELSE "settled")
      BY <2>1
    <3> DEFINE r == C!Result(kind = "none", kind, FALSE)
    <3>2. r \in Results
      BY DEF C!Result, Results
    <3> HIDE DEF r
    <3>3. C!Settles(l, r, IF shot[l].taken THEN "after" ELSE "settled")
      BY <3>1 DEF r
    <3>4. CASE shot[l].taken
      BY <3>2, <3>3, <3>4
    <3>5. CASE ~shot[l].taken
      BY <3>2, <3>3, <3>5
    <3> QED BY <3>4, <3>5
  <2>2. CASE C!Settles(l, C!Contract, "settled")
    <3>1. C!Contract \in Results /\ C!Contract.kind = "contract"
      BY DEF C!Contract, C!Result, Results
    <3> QED BY <2>2, <3>1
  <2> QED BY <2>1, <2>2 DEF C!WorkEnds
<1>3. ShotFits(repo.status, a, shot[l], r, job.owns[l])
  BY <1>1, <1>2 DEF ShotFits, SharedStages
<1>4. SharedTo(l, a, shot[l], r)
  BY <1>1, <1>2, <1>3, ShotIs DEF SharedTo, C!Settles, C!Goes
<1> QED BY <1>1, <1>4, SharedKeeps

\* The first of a set of numbers, as many as may be shown.
LEMMA ShownFirst ==
  ASSUME NEW E, IsFiniteSet(E), E \subseteq Int, NEW m \in Nat
  PROVE  LET shown == {f \in E : Cardinality({g \in E : g < f}) < m} IN
         /\ IsFiniteSet(shown) /\ Cardinality(shown) \in Nat /\ Cardinality(E) \in Nat
         /\ shown = E \/ (Cardinality(shown) = m /\ Cardinality(shown) < Cardinality(E))
<1> DEFINE Below(f) == {g \in E : g < f}
           rank == [f \in E |-> Cardinality(Below(f))]
           n == Cardinality(E)
           shown == {f \in E : Cardinality(Below(f)) < m}
<1>1. n \in Nat /\ IsFiniteSet(shown) /\ Cardinality(shown) \in Nat
  BY FS_CardinalityType, FS_Subset
<1>2. ASSUME NEW f \in E
      PROVE  IsFiniteSet(Below(f)) /\ Cardinality(Below(f)) \in 0..(n - 1)
  <2>1. IsFiniteSet(E \ {f}) /\ Cardinality(E \ {f}) = n - 1
    BY FS_RemoveElement
  <2>2. Below(f) \subseteq E \ {f}
    OBVIOUS
  <2>3. IsFiniteSet(Below(f)) /\ Cardinality(Below(f)) <= n - 1
    BY <2>1, <2>2, FS_Subset
  <2>4. Cardinality(Below(f)) \in Nat
    BY <2>3, FS_CardinalityType
  <2> QED BY <1>1, <2>3, <2>4
<1>3. ASSUME NEW f \in E, NEW g \in E, f < g
      PROVE  Cardinality(Below(f)) < Cardinality(Below(g))
  <2>1. IsFiniteSet(Below(f) \cup {f}) /\ Cardinality(Below(f) \cup {f}) = Cardinality(Below(f)) + 1
    BY <1>2, FS_AddElement
  <2>2. Below(f) \cup {f} \subseteq Below(g)
    <3>1. f \in Int /\ g \in Int /\ \A h \in E : h \in Int /\ (h < f => h < g)
      BY <1>3
    <3> QED BY <1>3, <3>1
  <2>3. Cardinality(Below(f) \cup {f}) <= Cardinality(Below(g))
    BY <1>2, <2>2, FS_Subset
  <2> QED BY <1>2, <2>1, <2>3
<1>4. rank \in [E -> 0..(n - 1)]
  BY <1>2
<1>5. \A f, g \in E : rank[f] = rank[g] => f = g
  <2> SUFFICES ASSUME NEW f \in E, NEW g \in E, f # g PROVE Cardinality(Below(f)) # Cardinality(Below(g))
    OBVIOUS
  <2>1. f < g \/ g < f
    OBVIOUS
  <2>2. Cardinality(Below(f)) \in 0..(n - 1) /\ Cardinality(Below(g)) \in 0..(n - 1)
    BY <1>2
  <2> HIDE DEF Below
  <2>3. CASE f < g
    BY <1>3, <2>2, <2>3
  <2>4. CASE g < f
    BY <1>3, <2>2, <2>4
  <2> QED BY <2>1, <2>3, <2>4
<1>6. \A f \in E : rank[f] = Cardinality(Below(f))
  OBVIOUS
<1> HIDE DEF rank
<1>7. rank \in Surjection(E, 0..(n - 1))
  <2>1. rank \in Injection(E, 0..(n - 1))
    BY <1>4, <1>5 DEF Injection, IsInjective
  <2>2. IsFiniteSet(0..(n - 1)) /\ Cardinality(0..(n - 1)) = n
    <3> HIDE DEF n
    <3>1. 0 \in Int /\ n - 1 \in Int /\ (IF 0 > n - 1 THEN 0 ELSE (n - 1) - 0 + 1) = n
      BY <1>1
    <3> QED BY <3>1, FS_Interval
  <2> QED BY <2>1, <2>2, FS_Injection
<1>8. CASE n <= m
  <2>1. \A f \in E : Cardinality(Below(f)) < m
    <3>1. \A f \in E : Cardinality(Below(f)) \in 0..(n - 1)
      BY <1>2
    <3> HIDE DEF Below, n
    <3> QED BY <1>1, <1>8, <3>1
  <2> QED BY <1>1, <2>1
<1>9. CASE ~(n <= m)
  <2> DEFINE pos == [f \in shown |-> rank[f]]
  <2>1. pos \in [shown -> 0..(m - 1)]
    <3>1. ASSUME NEW f \in shown PROVE rank[f] \in 0..(m - 1)
      <4>1. rank[f] < m /\ rank[f] \in 0..(n - 1)
        BY <1>4, <1>6
      <4> QED BY <1>1, <4>1
    <3> QED BY <3>1
  <2>2. \A f, g \in shown : pos[f] = pos[g] => f = g
    BY <1>5
  <2>3. ASSUME NEW i \in 0..(m - 1) PROVE \E f \in shown : pos[f] = i
    <3>1. i \in 0..(n - 1) /\ i < m
      BY <1>1, <1>9
    <3>2. PICK f \in E : rank[f] = i
      BY <1>7, <3>1 DEF Surjection
    <3>3. f \in shown
      BY <1>6, <3>1, <3>2
    <3> QED BY <3>2, <3>3
  <2>4. pos \in Bijection(shown, 0..(m - 1))
    <3> HIDE DEF shown, pos
    <3> QED BY <2>1, <2>2, <2>3 DEF Bijection, Injection, Surjection, IsInjective
  <2>5. Cardinality(0..(m - 1)) = m
    BY FS_Interval
  <2>6. Cardinality(0..(m - 1)) = Cardinality(shown)
    BY <1>1, <2>4, FS_Bijection DEF ExistsBijection
  <2> QED BY <1>1, <1>9, <2>5, <2>6
<1> QED BY <1>8, <1>9 DEF shown, Below

LEMMA CountOf == \A W : C!Cardinality(W) = Cardinality(W)
BY DEF C!Cardinality, Cardinality

LEMMA AfterKeeps == ASSUME CheckoutsInvariant, NEW l \in C!Legs, C!After(l) PROVE CheckoutsInvariant'
<1>1. /\ ~job.isolated[l] /\ at[l] = "after" /\ UNCHANGED <<job, repo, copy>> /\ out[l] \in Results
      /\ ShotFits(repo.status, "after", shot[l], out[l], job.owns[l]) /\ shot[l] \in Shots
  BY ShotIs, TreeIs DEF C!After, TreeStages
<1> DEFINE before_ == shot[l].before
           changed == C!DiffStatus(before_, repo.status)
           r == C!Report(l, changed)
<1>2. CASE C!Settles(l, r, "settled") /\ UNCHANGED shot
  <2>1. MaxReported \in Nat /\ IsFiniteSet(job.files) /\ job.files \subseteq Int
    BY JobsAreLegs DEF CheckoutsInvariant
  <2>2. changed \subseteq job.files /\ IsFiniteSet(changed) /\ changed = {f \in job.files : before_[f] # repo.status[f]}
    BY <2>1, FS_Subset DEF C!DiffStatus
  <2> DEFINE shown == {f \in changed : Cardinality({g \in changed : g < f}) < MaxReported}
  <2>3. /\ IsFiniteSet(shown) /\ Cardinality(shown) \in Nat /\ Cardinality(changed) \in Nat /\ shown \subseteq changed
        /\ shown = changed \/ (Cardinality(shown) = MaxReported /\ Cardinality(shown) < Cardinality(changed))
    <3> HIDE DEF changed
    <3>1. changed \subseteq Int
      BY <2>1, <2>2
    <3>2. \A E : IsFiniteSet(E) /\ E \subseteq Int =>
            LET seen_ == {f \in E : Cardinality({g \in E : g < f}) < MaxReported} IN
            /\ IsFiniteSet(seen_) /\ Cardinality(seen_) \in Nat /\ Cardinality(E) \in Nat
            /\ seen_ = E \/ (Cardinality(seen_) = MaxReported /\ Cardinality(seen_) < Cardinality(E))
      BY <2>1, ShownFirst
    <3> QED BY <2>2, <3>1, <3>2
  <2>4. shown = {f \in changed : C!Cardinality({g \in changed : g < f}) < MaxReported}
    BY CountOf
  <2>5. r = [out[l] EXCEPT !.listed = shown, !.more = Cardinality(changed) - Cardinality(shown),
                           !.outside = IF job.owns[l] = {} THEN {} ELSE shown \ job.owns[l]]
    BY <2>4, CountOf DEF C!Report
  <2>6. Cardinality(changed) - Cardinality(shown) \in Nat
    <3> HIDE DEF shown, changed
    <3> QED BY <2>3
  <2> HIDE DEF shown, changed, r
  <2>7. /\ r \in Results /\ r.listed = shown /\ r.more = Cardinality(changed) - Cardinality(shown) /\ r.kind = out[l].kind
        /\ r.outside = IF job.owns[l] = {} THEN {} ELSE r.listed \ job.owns[l]
    BY <1>1, <2>2, <2>3, <2>5, <2>6 DEF Results
  <2>8. ASSUME shot[l].taken PROVE Reported(shot[l], r, job.owns[l])
    <3> DEFINE due == {f \in shot[l].wrote : before_[f] = "clean"} \cup {f \in shot[l].swept : before_[f] # "clean"}
    <3>1. Watched(repo.status, shot[l])
      BY <1>1, <2>8 DEF ShotFits
    <3>2. due \subseteq changed /\ changed \subseteq shot[l].touched
      BY <1>1, <2>2, <3>1 DEF Watched, Shots
    <3>3. IsFiniteSet(due) /\ Cardinality(due) <= Cardinality(changed) /\ Cardinality(due) \in Nat
      <4> HIDE DEF due
      <4> QED BY <2>2, <3>2, FS_Subset, FS_CardinalityType
    <3>4. r.listed \subseteq shot[l].touched /\ r.more \in Nat /\ Cardinality(r.listed) + r.more = Cardinality(changed)
      BY <2>3, <2>6, <2>7, <3>2
    <3>5. IF r.more = 0 THEN due \subseteq r.listed ELSE Cardinality(r.listed) = MaxReported
      <4>1. r.more = 0 => shown = changed
        BY <2>3, <2>7
      <4>2. r.more # 0 => Cardinality(shown) = MaxReported
        BY <2>3, <2>7
      <4> HIDE DEF due
      <4> QED BY <2>7, <3>2, <4>1, <4>2
    <3> QED BY <2>7, <3>3, <3>4, <3>5 DEF Reported
  <2>9. ShotFits(repo.status, "settled", shot[l], r, job.owns[l])
    BY <2>8 DEF ShotFits, SharedStages
  <2>10. SharedTo(l, "settled", shot[l], r)
    BY <1>1, <1>2, <2>7, <2>9, ShotIs DEF SharedTo, C!Settles, C!Goes
  <2> QED BY <1>1, <2>10, SharedKeeps
<1>3. CASE C!Settles(l, out[l], "settled") /\ shot' = [shot EXCEPT ![l].taken = FALSE]
  <2> DEFINE s == [shot[l] EXCEPT !.taken = FALSE]
  <2>1. s \in Shots /\ ~s.taken /\ shot' = [shot EXCEPT ![l] = s]
    BY <1>1, <1>3 DEF Shots
  <2> HIDE DEF s
  <2>2. ShotFits(repo.status, "settled", s, out[l], job.owns[l])
    BY <2>1 DEF ShotFits, SharedStages
  <2>3. SharedTo(l, "settled", s, out[l])
    BY <1>1, <1>3, <2>1, <2>2, TreeIs DEF SharedTo, C!Settles, C!Goes
  <2> QED BY <1>1, <2>3, SharedKeeps
<1> QED BY <1>2, <1>3 DEF C!After

\* A change of the shared checkout, and what each leg's history makes of it.
ChangesTo(s, t, mine, written, dropped) ==
  t = [s EXCEPT !.touched = @ \cup written \cup dropped, !.swept = (@ \ written) \cup dropped,
                !.wrote = (IF mine THEN @ \cup written ELSE @) \ dropped]

LEMMA ChangesKeep ==
  ASSUME CheckoutsInvariant, NEW by, NEW written \in SUBSET job.files, NEW dropped \in SUBSET job.files,
         C!Changes(by, written, dropped), UNCHANGED <<job, at, copy, out>>,
         repo' \in [status : [job.files -> Marks], tracked : SUBSET job.files, head : Nat],
         \A f \in job.files : /\ f \notin written \cup dropped => repo'.status[f] = repo.status[f]
                              /\ f \in dropped => repo'.status[f] = "clean"
                              /\ f \in written => repo'.status[f] # "clean"
  PROVE  CheckoutsInvariant'
<1>1. C!Legs' = C!Legs /\ Trees' = Trees /\ Shots' = Shots /\ Results' = Results
  BY DEF C!Legs, Trees, Shots, Results
<1>2. ASSUME NEW k \in C!Legs
      PROVE  /\ shot'[k] \in Shots
             /\ ~job.isolated[k] => ShotFits(repo'.status, at[k], shot'[k], out[k], job.owns[k])
  <2>1. shot[k] \in Shots /\ (~job.isolated[k] => ShotFits(repo.status, at[k], shot[k], out[k], job.owns[k]))
    BY ShotIs
  <2>2. CASE k \notin C!Reporting
    <3>1. shot'[k] = shot[k]
      BY <2>2 DEF C!Changes
    <3>2. ~job.isolated[k] => at[k] \notin {"work", "after"}
      BY <2>2 DEF C!Reporting, C!Isolated
    <3> QED BY <2>1, <3>1, <3>2 DEF ShotFits
  <2>3. CASE k \in C!Reporting
    <3>1. ChangesTo(shot[k], shot'[k], k = by, written, dropped)
      BY <2>3 DEF C!Changes, ChangesTo
    <3> DEFINE s == shot[k]
               t == shot'[k]
    <3>2. s \in Shots /\ ChangesTo(s, t, k = by, written, dropped) /\ at[k] \in {"work", "after"}
      BY <2>1, <2>3, <3>1 DEF C!Reporting
    <3> HIDE DEF s, t
    <3>3. /\ t \in Shots /\ t.taken = s.taken /\ t.before = s.before /\ t.touched = s.touched \cup written \cup dropped
          /\ t.swept = (s.swept \ written) \cup dropped /\ t.wrote \subseteq (s.wrote \cup written) \ dropped
      <4>1. CASE k = by
        BY <3>2, <4>1 DEF ChangesTo, Shots
      <4>2. CASE k # by
        BY <3>2, <4>2 DEF ChangesTo, Shots
      <4> QED BY <4>1, <4>2
    <3>4. Watched(repo.status, s) => Watched(repo'.status, t)
      BY <3>3 DEF Watched
    <3>5. ~job.isolated[k] => ShotFits(repo'.status, at[k], t, out[k], job.owns[k])
      BY <2>1, <3>2, <3>3, <3>4 DEF ShotFits, s
    <3> QED BY <3>3, <3>5 DEF t
  <2> QED BY <2>2, <2>3
<1>3. shot' \in [C!Legs -> Shots]
  BY <1>2 DEF C!Changes
<1> QED BY <1>1, <1>2, <1>3 DEF CheckoutsInvariant, ShotFits, Watched

LEMMA SharedWriteKeeps ==
  ASSUME CheckoutsInvariant, NEW by, NEW f \in job.files, C!SharedWrite(by, f) PROVE CheckoutsInvariant'
<1>1. repo \in [status : [job.files -> Marks], tracked : SUBSET job.files, head : Nat]
  BY DEF CheckoutsInvariant
<1>2. repo' = [repo EXCEPT !.status[f] = IF f \in repo.tracked THEN "changed" ELSE "new"] /\ C!Changes(by, {f}, {}) /\ UNCHANGED <<job, at, copy, out>>
  BY DEF C!SharedWrite
<1>3. /\ repo'.status[f] # "clean" /\ repo'.status \in [job.files -> Marks]
      /\ \A g \in job.files \ {f} : repo'.status[g] = repo.status[g]
      /\ repo' \in [status : [job.files -> Marks], tracked : SUBSET job.files, head : Nat]
  BY <1>1, <1>2 DEF Marks
<1>4. {f} \in SUBSET job.files /\ {} \in SUBSET job.files
  OBVIOUS
<1> QED BY <1>2, <1>3, <1>4, ChangesKeep

LEMMA SharedCommitKeeps ==
  ASSUME CheckoutsInvariant, NEW by, C!SharedCommit(by) PROVE CheckoutsInvariant'
<1> DEFINE dropped == {f \in job.files : repo.status[f] # "clean"}
<1>1. repo.status \in [job.files -> Marks] /\ repo.tracked \in SUBSET job.files /\ repo.head \in Nat /\ C!Clean \in [job.files -> Marks]
  BY ShotIs DEF CheckoutsInvariant, C!Clean, Marks
<1>2. PICK kept \in BOOLEAN :
        repo' = [status |-> C!Clean, head |-> repo.head + (IF kept THEN 1 ELSE 0),
                 tracked |-> repo.tracked \cup (IF kept THEN dropped ELSE {})]
  BY DEF C!SharedCommit
<1>3. repo' \in [status : [job.files -> Marks], tracked : SUBSET job.files, head : Nat] /\ repo'.status = C!Clean
  BY <1>1, <1>2
<1>4. C!Changes(by, {}, dropped) /\ UNCHANGED <<job, at, copy, out>> /\ dropped \in SUBSET job.files /\ {} \in SUBSET job.files
  BY DEF C!SharedCommit
<1>5. \A f \in job.files : repo'.status[f] = "clean" /\ (f \notin dropped => repo.status[f] = "clean")
  BY <1>3 DEF C!Clean
<1> HIDE DEF dropped
<1> QED BY <1>3, <1>4, <1>5, ChangesKeep

---------------------------------------------------------------------------
(* Attempts, and all of it *)

LEMMA AgainKeeps == ASSUME CheckoutsInvariant, NEW l \in C!Legs, C!Again(l) PROVE CheckoutsInvariant'
<1>1. at[l] = "settled" /\ C!Settles(l, C!NoResult, C!First(l)) /\ UNCHANGED <<job, repo, copy, shot>> /\ C!NoResult \in Results
  BY TreeIs DEF C!Again
<1>2. CASE job.isolated[l]
  <2>1. TreeFits("check", copy[l], C!NoResult)
    BY <1>1, <1>2, TreeIs DEF TreeFits, TreeStages
  <2>2. TreeTo(l, "check", copy[l], C!NoResult)
    BY <1>1, <1>2, <2>1, TreeIs DEF TreeTo, C!Settles, C!Goes, C!First
  <2> QED BY <1>2, <2>2, TreeKeeps
<1>3. CASE ~job.isolated[l]
  <2>1. ShotFits(repo.status, "before", shot[l], C!NoResult, job.owns[l])
    BY DEF ShotFits, SharedStages
  <2>2. SharedTo(l, "before", shot[l], C!NoResult)
    BY <1>1, <1>3, <2>1, ShotIs DEF SharedTo, C!Settles, C!Goes, C!First
  <2> QED BY <1>3, <2>2, SharedKeeps
<1> QED BY <1>2, <1>3

LEMMA EndsLegKeeps == ASSUME CheckoutsInvariant, NEW l \in C!Legs, C!Ends(l) PROVE CheckoutsInvariant'
<1>1. at[l] = "settled" /\ C!Goes(l, "over") /\ UNCHANGED <<job, repo, copy, shot, out>>
  BY DEF C!Ends
<1>2. CASE job.isolated[l]
  <2>1. TreeFits("over", copy[l], out[l])
    BY <1>1, <1>2, TreeIs DEF TreeFits, TreeStages
  <2>2. TreeTo(l, "over", copy[l], out[l])
    BY <1>1, <1>2, <2>1, TreeIs DEF TreeTo, C!Goes
  <2> QED BY <1>2, <2>2, TreeKeeps
<1>3. CASE ~job.isolated[l]
  <2>1. ShotFits(repo.status, "over", shot[l], out[l], job.owns[l])
    BY <1>1, <1>3, ShotIs DEF ShotFits, SharedStages
  <2>2. SharedTo(l, "over", shot[l], out[l])
    BY <1>1, <1>3, <2>1, ShotIs, TreeIs DEF SharedTo, C!Goes
  <2> QED BY <1>3, <2>2, SharedKeeps
<1> QED BY <1>2, <1>3

LEMMA CheckoutsNextKeeps == ASSUME CheckoutsInvariant, C!CheckoutsNext PROVE CheckoutsInvariant'
<1>1. CASE C!Moves
  <2>1. PICK l \in C!Legs : C!LegMoves(l)
    BY <1>1 DEF C!Moves
  <2> QED
    BY <2>1, PreflightKeeps, AddKeeps, PinKeeps, TreeEndsKeeps, DiffTrackedKeeps, ListNewKeeps, DiffNewKeeps, CapturedKeeps,
       RemoveKeeps, RmKeeps, PruneKeeps, BeforeKeeps, WorkEndsKeeps, AfterKeeps, AgainKeeps, EndsLegKeeps DEF C!LegMoves
<1>2. CASE \E l \in C!Legs : C!TreeCommit(l) \/ \E f \in job.files : C!TreeWrite(l, f)
  BY <1>2, TreeCommitKeeps, TreeWriteKeeps
<1>3. CASE \E by \in C!Legs \cup {"operator"} : C!SharedCommit(by) \/ \E f \in job.files : C!SharedWrite(by, f)
  BY <1>3, SharedCommitKeeps, SharedWriteKeeps
<1> QED BY <1>1, <1>2, <1>3 DEF C!CheckoutsNext

LEMMA CheckoutsBegin == ASSUME NEW j \in Jobs, C!CheckoutsStart(j, "first") PROVE CheckoutsInvariant
<1>1. /\ job \in Jobs /\ repo = [status |-> C!Clean, tracked |-> job.tracked, head |-> 0]
      /\ at = [l \in C!Legs |-> C!First(l)] /\ copy = [l \in C!Legs |-> C!NoTree]
      /\ shot = [l \in C!Legs |-> [taken |-> FALSE, before |-> C!Clean, touched |-> {}, wrote |-> {}, swept |-> {}]]
      /\ out = [l \in C!Legs |-> C!NoResult]
  BY DEF C!CheckoutsStart
<1>2. C!Clean \in [job.files -> Marks] /\ job.tracked \in SUBSET job.files
  BY <1>1, JobsAreLegs DEF C!Clean, Marks
<1>3. C!NoTree \in Trees /\ C!NoResult \in Results /\ C!NoTree.listed = FALSE
  BY DEF C!NoTree, Trees, C!NoResult, C!Result, Results
<1>4. [taken |-> FALSE, before |-> C!Clean, touched |-> {}, wrote |-> {}, swept |-> {}] \in Shots
  BY <1>2 DEF Shots
<1>5. ASSUME NEW l \in C!Legs, job.isolated[l] PROVE TreeFits(at[l], copy[l], out[l])
  <2>1. at[l] = "check" /\ copy[l] = C!NoTree /\ out[l] = C!NoResult
    BY <1>1, <1>5 DEF C!First
  <2> QED BY <1>3, <2>1 DEF TreeFits, TreeStages
<1>6. ASSUME NEW l \in C!Legs, ~job.isolated[l] PROVE ShotFits(repo.status, at[l], shot[l], out[l], job.owns[l])
  <2>1. at[l] = "before"
    BY <1>1, <1>6 DEF C!First
  <2> QED BY <2>1 DEF ShotFits, SharedStages
<1>7. at \in [C!Legs -> TreeStages \cup SharedStages]
  BY <1>1 DEF C!First, TreeStages, SharedStages
<1> QED BY <1>1, <1>2, <1>3, <1>4, <1>5, <1>6, <1>7 DEF CheckoutsInvariant

\* Whatever legs, what they leave running and the operator write and commit, and whatever
\* call of git fails, the checkouts of a job are where their legs are, and hold what a
\* capture has read of them.
THEOREM CheckoutsAreSound == Spec => [](part = "checkouts" => CheckoutsInvariant)
<1>1. Init => (part = "checkouts" => CheckoutsInvariant)
  <2> SUFFICES ASSUME Init, part = "checkouts" PROVE CheckoutsInvariant
    OBVIOUS
  <2>1. PICK j \in Jobs : C!CheckoutsStart(j, "first")
    BY DEF Init, C!CheckoutsInit
  <2> QED BY <2>1, CheckoutsBegin
<1>2. (part = "checkouts" => CheckoutsInvariant) /\ [Next]_vars => (part = "checkouts" => CheckoutsInvariant)'
  <2> SUFFICES ASSUME part = "checkouts" => CheckoutsInvariant, [Next]_vars, part' = "checkouts" PROVE CheckoutsInvariant'
    OBVIOUS
  <2>1. part = "checkouts" /\ (C!CheckoutsNext \/ UNCHANGED vars)
    BY DEF Next, vars, InCouncil, InFlow, InTurns, InCalls, InRuns, InCheckouts, InPersona, InRows, others
  <2>2. CASE C!CheckoutsNext
    BY <2>1, <2>2, CheckoutsNextKeeps
  <2>3. CASE UNCHANGED vars
    <3>1. UNCHANGED <<job, repo, at, copy, shot, out>>
      BY <2>3 DEF vars, restVars, checkoutVars
    <3> QED BY <2>1, <3>1 DEF CheckoutsInvariant, C!Legs, Trees, Shots, Results, ShotFits, Watched
  <2> QED BY <2>1, <2>2, <2>3
<1> QED BY <1>1, <1>2, PTL DEF Spec

LEMMA CheckoutsImplyTruth == ASSUME CheckoutsInvariant PROVE C!NoGhosts /\ C!ArtifactsAreTrue /\ C!ReportsAreTrue
<1>1. ASSUME NEW l \in C!Isolated, C!Over(l)
      PROVE  /\ TreeFits(at[l], copy[l], out[l]) /\ (copy[l].listed /\ ~copy[l].dir => copy[l].stuck) /\ Handed(copy[l], out[l])
  BY <1>1, TreeIs DEF C!Isolated, C!Over, TreeFits
<1>2. C!NoGhosts /\ C!ArtifactsAreTrue
  BY <1>1 DEF C!NoGhosts, C!ArtifactsAreTrue, Handed
<1>3. ASSUME NEW l \in C!Legs \ C!Isolated, C!Over(l), shot[l].taken, out[l].kind # "contract"
      PROVE  Reported(shot[l], out[l], job.owns[l])
  BY <1>3, ShotIs DEF C!Isolated, C!Over, ShotFits
<1>4. C!ReportsAreTrue
  BY <1>3, CountOf DEF C!ReportsAreTrue, Reported
<1> QED BY <1>2, <1>4

\* worktree.ts:147, engine.ts:239: for every job, no checkout stays listed without its
\* directory unless git would not prune it; an isolated leg hands over what it made and
\* nothing else, and a report names what changed and counts what it does not name.
THEOREM CheckoutsHold == Spec => [](part = "checkouts" => LimitsHold /\ OutcomesAreTrue)
<1>1. (part = "checkouts" => CheckoutsInvariant) => (part = "checkouts" => LimitsHold /\ OutcomesAreTrue)
  BY CheckoutsImplyTruth DEF LimitsHold, OutcomesAreTrue
<1> QED BY <1>1, CheckoutsAreSound, PTL
====
