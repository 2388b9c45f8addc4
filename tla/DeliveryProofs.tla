---- MODULE DeliveryProofs ----
(***************************************************************************)
(* Proofs about how word of the legs gets to their supervisor, and back:   *)
(* the relay of a child's calls, for any children and any calls; and the   *)
(* delivery of completions, for any runs and any calls.                    *)
(***************************************************************************)
EXTENDS BrokerRelay, CompletionDelivery, FiniteSetTheorems, SequenceTheorems, TLAPS

---------------------------------------------------------------------------
(* The relay.  What the cross-process broker promises, for any children,   *)
(* any number of messages, calls and steers: the two ends agree about      *)
(* every call, what a child is told of one is what happened to it, and     *)
(* mail and steers reach it once and in order, or are lost with their leg, *)
(* grant or connection.                                                    *)
(*                                                                         *)
(* RelayInv says of each call where it may be at once: on its way, held by *)
(* the host, answered on the wire, given up.  MailInv says that what a     *)
(* child was shown, what is on the wire to it and what is kept for it are  *)
(* one rising stream of numbers.  Each action comes with a lemma per part. *)

---------------------------------------------------------------------------
(* Sequences as the relay uses them.                                       *)

\* What a concatenation holds, and where.
LEMMA Concat ==
  ASSUME NEW S, NEW s \in Seq(S), NEW t \in Seq(S)
  PROVE  /\ s \o t \in Seq(S)
         /\ Len(s) \in Nat /\ Len(t) \in Nat
         /\ Len(s \o t) = Len(s) + Len(t)
         /\ DOMAIN (s \o t) = 1..(Len(s) + Len(t))
         /\ \A i \in DOMAIN s : (s \o t)[i] = s[i]
         /\ \A i \in DOMAIN t : (s \o t)[Len(s) + i] = t[i]
         /\ ToSet(s \o t) = ToSet(s) \cup ToSet(t)
<1>1. /\ s \o t \in Seq(S) /\ Len(s \o t) = Len(s) + Len(t)
      /\ Len(s) \in Nat /\ Len(t) \in Nat
      /\ DOMAIN s = 1..Len(s) /\ DOMAIN t = 1..Len(t)
      /\ \A i \in 1..(Len(s) + Len(t)) :
           (s \o t)[i] = IF i <= Len(s) THEN s[i] ELSE t[i - Len(s)]
  BY ConcatProperties, LenProperties
<1>2. DOMAIN (s \o t) = 1..(Len(s) + Len(t))
  BY <1>1, LenProperties
<1>3. \A i \in DOMAIN s : (s \o t)[i] = s[i] /\ i \in DOMAIN (s \o t)
  BY <1>1, <1>2
<1>4. \A i \in DOMAIN t : (s \o t)[Len(s) + i] = t[i] /\ Len(s) + i \in DOMAIN (s \o t)
  BY <1>1, <1>2
<1>5. ToSet(s) \subseteq ToSet(s \o t) /\ ToSet(t) \subseteq ToSet(s \o t)
  BY <1>3, <1>4 DEF ToSet
<1>6. ASSUME NEW i \in DOMAIN (s \o t) PROVE (s \o t)[i] \in ToSet(s) \cup ToSet(t)
  <2>1. CASE i <= Len(s) BY <1>1, <1>2, <2>1 DEF ToSet
  <2>2. CASE ~(i <= Len(s))
    <3>1. i - Len(s) \in DOMAIN t BY <1>1, <1>2, <2>2
    <3> QED BY <1>1, <1>2, <2>2, <3>1 DEF ToSet
  <2> QED BY <2>1, <2>2
<1>7. ToSet(s \o t) \subseteq ToSet(s) \cup ToSet(t)
  BY <1>6 DEF ToSet
<1> QED BY <1>1, <1>2, <1>3, <1>4, <1>5, <1>7

LEMMA Concat3 ==
  ASSUME NEW S, NEW s \in Seq(S), NEW t \in Seq(S), NEW u \in Seq(S)
  PROVE  /\ s \o t \o u = s \o (t \o u)
         /\ s \o (t \o u) \in Seq(S)
         /\ ToSet(s \o (t \o u)) = ToSet(s) \cup ToSet(t) \cup ToSet(u)
<1> DEFINE tu == t \o u
<1>1. s \o t \o u = s \o tu BY ConcatAssociative
<1>2. tu \in Seq(S) /\ ToSet(tu) = ToSet(t) \cup ToSet(u) BY Concat
<1> HIDE DEF tu
<1>3. s \o tu \in Seq(S) /\ ToSet(s \o tu) = ToSet(s) \cup ToSet(tu) BY <1>2, Concat
<1>4. s \o tu \in Seq(S) /\ ToSet(s \o tu) = ToSet(s) \cup ToSet(t) \cup ToSet(u) BY <1>2, <1>3
<1> QED BY <1>1, <1>4 DEF tu

\* What is left when the head is taken.
LEMMA TailOf ==
  ASSUME NEW S, NEW s \in Seq(S), s # <<>>
  PROVE  /\ Head(s) \in S /\ Tail(s) \in Seq(S) /\ Head(s) = s[1] /\ 1 \in DOMAIN s
         /\ Len(s) \in Nat
         /\ DOMAIN Tail(s) = 1..(Len(s) - 1)
         /\ \A i \in DOMAIN Tail(s) : Tail(s)[i] = s[i + 1] /\ i + 1 \in DOMAIN s
         /\ ToSet(s) = {Head(s)} \cup ToSet(Tail(s))
<1>1. /\ Head(s) \in S /\ Tail(s) \in Seq(S)
      /\ Len(s) \in Nat \ {0} /\ DOMAIN s = 1..Len(s)
      /\ Len(Tail(s)) = Len(s) - 1
      /\ \A i \in 1..Len(Tail(s)) : Tail(s)[i] = s[i + 1]
  BY HeadTailProperties, LenProperties, EmptySeq
<1>2. DOMAIN Tail(s) = 1..(Len(s) - 1)
  BY <1>1, LenProperties
<1>3. Head(s) = s[1] /\ 1 \in DOMAIN s
  BY <1>1
<1>4. \A i \in DOMAIN Tail(s) : Tail(s)[i] = s[i + 1] /\ i + 1 \in DOMAIN s
  BY <1>1, <1>2
<1>5. {Head(s)} \cup ToSet(Tail(s)) \subseteq ToSet(s)
  BY <1>3, <1>4 DEF ToSet
<1>6. ASSUME NEW i \in DOMAIN s PROVE s[i] \in {Head(s)} \cup ToSet(Tail(s))
  <2>1. CASE i = 1 BY <1>3, <2>1
  <2>2. CASE i # 1
    <3>1. i - 1 \in DOMAIN Tail(s) BY <1>1, <1>2, <2>2
    <3>2. Tail(s)[i - 1] = s[i] BY <1>1, <1>4, <3>1
    <3> QED BY <3>1, <3>2 DEF ToSet
  <2> QED BY <2>1, <2>2
<1>7. ToSet(s) \subseteq {Head(s)} \cup ToSet(Tail(s))
  BY <1>6 DEF ToSet
<1> QED BY <1>1, <1>2, <1>3, <1>4, <1>5, <1>7

\* A finite set, listed.
LEMMA Listed ==
  ASSUME NEW S, IsFiniteSet(S)
  PROVE  SetToSeq(S) \in Seq(S) /\ ToSet(SetToSeq(S)) = S
<1> DEFINE n == Cardinality(S)
           f == SetToSeq(S)
<1>1. n \in Nat /\ ExistsBijection(1..n, S)
  BY FS_CardinalityType
<1>2. \E g \in [1..n -> S] : IsInjective(g)
  BY <1>1 DEF ExistsBijection, Bijection, Injection
<1>3. f \in [1..n -> S] /\ IsInjective(f)
  BY <1>2 DEF SetToSeq
<1>4. IsFiniteSet(1..n) /\ Cardinality(1..n) = n
  <2>1. \A x \in 1..n : TRUE OBVIOUS
  <2> QED BY <1>1, FS_Interval
<1>5. f \in Injection(1..n, S)
  BY <1>3 DEF Injection
<1>6. f \in Surjection(1..n, S)
  BY <1>4, <1>5, FS_Injection
<1>7. f \in Seq(S)
  BY <1>1, <1>3, SeqDef
<1>8. ToSet(f) = S
  <2>1. DOMAIN f = 1..n BY <1>3
  <2>2. \A t \in S : \E i \in 1..n : f[i] = t BY <1>6 DEF Surjection
  <2>3. \A i \in 1..n : f[i] \in S BY <1>3
  <2> QED BY <2>1, <2>2, <2>3 DEF ToSet
<1> QED BY <1>7, <1>8

LEMMA Element == ASSUME NEW S, NEW s \in Seq(S) PROVE ToSet(s) \subseteq S /\ DOMAIN s = 1..Len(s) /\ Len(s) \in Nat
BY LenProperties, ElementOfSeq DEF ToSet

LEMMA Single == ASSUME NEW S, NEW e \in S PROVE <<e>> \in Seq(S) /\ ToSet(<<e>>) = {e} /\ Len(<<e>>) = 1 /\ DOMAIN <<e>> = {1}
<1>1. <<e>> \in Seq(S) /\ Len(<<e>>) = 1 OBVIOUS
<1>2. DOMAIN <<e>> = {1} OBVIOUS
<1> QED BY <1>1, <1>2 DEF ToSet

LEMMA Nothing == ASSUME NEW S PROVE <<>> \in Seq(S) /\ ToSet(<<>>) = {} /\ DOMAIN <<>> = {}
<1>1. DOMAIN <<>> = {} OBVIOUS
<1> QED BY <1>1, EmptySeq DEF ToSet

---------------------------------------------------------------------------
(* What the host writes.                                                   *)

LEMMA AnswerFrame == \A k \in Nat, ok \in BOOLEAN : Answer(k, ok) \in Frames
BY DEF Answer, Frame, Frames

LEMMA AnswersListed ==
  ASSUME RelayTypeOK, NEW c \in Children
  PROVE  /\ AnswersTo(c) \in Seq(Frames)
         /\ ToSet(AnswersTo(c)) =
              {Answer(k, asks'[relay[k]].phase = "replied") : k \in SettledNow(c)}
<1> DEFINE K == SettledNow(c)
           T == {Answer(k, asks'[relay[k]].phase = "replied") : k \in K}
           f == [k \in K |-> Answer(k, asks'[relay[k]].phase = "replied")]
<1>1. K \subseteq DOMAIN calls /\ DOMAIN calls = 1..Len(calls) /\ Len(calls) \in Nat
  BY Element DEF SettledNow, RelayedFor, RelayTypeOK
<1>2. IsFiniteSet(K)
  <2>1. IsFiniteSet(1..Len(calls)) BY <1>1, FS_Interval
  <2>2. K \in SUBSET (1..Len(calls)) BY <1>1
  <2> QED BY <2>1, <2>2, FS_Subset
<1>3. f \in Surjection(K, T)
  BY DEF Surjection
<1>4. IsFiniteSet(T)
  BY <1>2, <1>3, FS_Surjection
<1>5. T \subseteq Frames
  <2>1. \A k \in K : k \in Nat BY <1>1
  <2>2. \A k \in K : Answer(k, asks'[relay[k]].phase = "replied") \in Frames
    BY <2>1, AnswerFrame
  <2> QED BY <2>2
<1>6. SetToSeq(T) \in Seq(T) /\ ToSet(SetToSeq(T)) = T
  BY <1>4, Listed
<1>7. SetToSeq(T) \in Seq(Frames)
  BY <1>5, <1>6, SeqMonotonic
<1> QED BY <1>6, <1>7 DEF AnswersTo

\* A connection there to be written to.
Reaches(c) == conn'[c] = "bound" /\ cli[c] # "offline"

LEMMA Written ==
  ASSUME RelayTypeOK, NEW frames \in [Children -> Seq(Frames)], Write(frames)
  PROVE  /\ down' \in [Children -> Seq(Frames)]
         /\ \A c \in Children :
              /\ ~Reaches(c) => down'[c] = down[c]
              /\ Reaches(c) =>
                   /\ down'[c] = down[c] \o (frames[c] \o AnswersTo(c))
                   /\ AnswersTo(c) \in Seq(Frames)
                   /\ ToSet(down'[c]) = ToSet(down[c]) \cup ToSet(frames[c]) \cup ToSet(AnswersTo(c))
                   /\ ToSet(AnswersTo(c)) =
                        {Answer(k, asks'[relay[k]].phase = "replied") : k \in SettledNow(c)}
<1>1. ASSUME NEW c \in Children
      PROVE  /\ down'[c] \in Seq(Frames)
             /\ ~Reaches(c) => down'[c] = down[c]
             /\ Reaches(c) =>
                   /\ down'[c] = down[c] \o (frames[c] \o AnswersTo(c))
                   /\ AnswersTo(c) \in Seq(Frames)
                   /\ ToSet(down'[c]) = ToSet(down[c]) \cup ToSet(frames[c]) \cup ToSet(AnswersTo(c))
                   /\ ToSet(AnswersTo(c)) =
                        {Answer(k, asks'[relay[k]].phase = "replied") : k \in SettledNow(c)}
  <2>1. down[c] \in Seq(Frames) /\ frames[c] \in Seq(Frames) /\ AnswersTo(c) \in Seq(Frames)
    BY AnswersListed DEF RelayTypeOK
  <2> DEFINE a == AnswersTo(c)
             d == down[c]
             f == frames[c]
  <2>2. ToSet(a) = {Answer(k, asks'[relay[k]].phase = "replied") : k \in SettledNow(c)}
    BY AnswersListed
  <2>3. down'[c] = IF Reaches(c) THEN d \o f \o a ELSE d
    BY DEF Write, Reaches
  <2>4. a \in Seq(Frames) /\ d \in Seq(Frames) /\ f \in Seq(Frames) BY <2>1
  <2> HIDE DEF a, d, f
  <2>6. /\ d \o f \o a = d \o (f \o a)
        /\ d \o (f \o a) \in Seq(Frames)
        /\ ToSet(d \o (f \o a)) = ToSet(d) \cup ToSet(f) \cup ToSet(a)
    BY <2>4, Concat3
  <2>7. CASE Reaches(c)
    <3>1. down'[c] = d \o (f \o a) BY <2>3, <2>6, <2>7
    <3>2. ToSet(down'[c]) = ToSet(d) \cup ToSet(f) \cup ToSet(a) BY <3>1, <2>6
    <3> QED BY <2>2, <2>4, <2>6, <2>7, <3>1, <3>2 DEF a, d, f
  <2>8. CASE ~Reaches(c) BY <2>3, <2>4, <2>8 DEF d
  <2> QED BY <2>7, <2>8
<1>2. down' = [c \in Children |-> down'[c]]
  BY DEF Write
<1> QED BY <1>1, <1>2

LEMMA ToOne ==
  ASSUME NEW c \in Children, NEW s \in Seq(Frames)
  PROVE  /\ To(c, s) \in [Children -> Seq(Frames)]
         /\ To(c, s)[c] = s /\ \A d \in Children \ {c} : To(c, s)[d] = <<>>
BY Nothing DEF To, NoFrames

LEMMA ToNone == NoFrames \in [Children -> Seq(Frames)] /\ \A c \in Children : NoFrames[c] = <<>>
BY Nothing DEF NoFrames

\* The frames that carry the numbers of s.
LEMMA EachFrame ==
  ASSUME NEW s \in Seq(Nat), NEW t \in {"deliver", "steer"}
  PROVE  /\ Each(t, s) \in Seq(Frames) /\ DOMAIN Each(t, s) = DOMAIN s
         /\ Len(Each(t, s)) = Len(s)
         /\ \A i \in DOMAIN s : Each(t, s)[i] = Frame(t, s[i], TRUE)
<1>1. DOMAIN s = 1..Len(s) /\ Len(s) \in Nat /\ \A i \in 1..Len(s) : s[i] \in Nat
  BY LenProperties, ElementOfSeq
<1>2. \A i \in 1..Len(s) : Frame(t, s[i], TRUE) \in Frames
  BY <1>1 DEF Frame, Frames
<1>3. Each(t, s) \in [1..Len(s) -> Frames]
  BY <1>1, <1>2 DEF Each
<1>4. Each(t, s) \in Seq(Frames)
  BY <1>1, <1>3, SeqDef
<1>5. Len(Each(t, s)) = Len(s)
  BY <1>1, <1>3, <1>4, LenProperties
<1> QED BY <1>1, <1>4, <1>5 DEF Each

LEMMA DrainedFrames ==
  ASSUME RelayTypeOK, NEW q
  PROVE  /\ Drained(q) \in [Children -> Seq(Frames)]
         /\ \A c \in Children : ToSet(Drained(q)[c]) \subseteq {Frame("deliver", MsgId, TRUE)}
<1>1. Len(asks) \in Nat BY Element DEF RelayTypeOK
<1>2. Frame("deliver", MsgId, TRUE) \in Frames BY <1>1 DEF Frame, Frames, MsgId
<1> QED BY <1>2, Single, Nothing DEF Drained

---------------------------------------------------------------------------
(* Types.                                                                  *)

\* A frame about a call is on the connection of the child that made it.
UpFits ==
  \A c \in Children : \A i \in DOMAIN up[c] :
    up[c][i].t \in {"call", "cancel"} =>
      up[c][i].n \in DOMAIN calls /\ calls[up[c][i].n].by = c

\* What any step may do to the messages of the bus: add some, close open ones.
BusMoves ==
  /\ asks' \in Seq(Questions) /\ peers' \subseteq Names
  /\ Len(asks) <= Len(asks') /\ DOMAIN asks \subseteq DOMAIN asks'
  /\ \A i \in DOMAIN asks :
       /\ asks'[i].from = asks[i].from
       /\ asks'[i].phase = asks[i].phase \/ (IsWaiting(i) /\ asks'[i].phase \in Reasons)

LEMMA AskTypes ==
  ASSUME RelayTypeOK
  PROVE  /\ DOMAIN asks = 1..Len(asks) /\ Len(asks) \in Nat /\ MsgId \in Nat
         /\ \A i \in DOMAIN asks : asks[i] \in Questions
         /\ DOMAIN calls = 1..Len(calls) /\ Len(calls) \in Nat
         /\ \A k \in DOMAIN calls : calls[k] \in Calls /\ calls[k].by \in Children
         /\ DOMAIN relay = DOMAIN calls
<1>1. asks \in Seq(Questions) /\ calls \in Seq(Calls) /\ DOMAIN relay = DOMAIN calls BY DEF RelayTypeOK
<1>2. DOMAIN asks = 1..Len(asks) /\ Len(asks) \in Nat /\ DOMAIN calls = 1..Len(calls) /\ Len(calls) \in Nat
  BY <1>1, LenProperties
<1>3. \A i \in DOMAIN asks : asks[i] \in Questions BY <1>1, <1>2, ElementOfSeq
<1>4. \A k \in DOMAIN calls : calls[k] \in Calls BY <1>1, <1>2, ElementOfSeq
<1> QED BY <1>1, <1>2, <1>3, <1>4 DEF Calls, MsgId

LEMMA StillMoves ==
  ASSUME RelayTypeOK, UNCHANGED contractVars
  PROVE  BusMoves
BY AskTypes DEF BusMoves, contractVars, RelayTypeOK

LEMMA JoinMoves ==
  ASSUME RelayTypeOK, NEW c \in Children, Join(c)
  PROVE  BusMoves /\ asks' = asks
BY AskTypes DEF BusMoves, Join, RelayTypeOK, Children

LEMMA PutMoves ==
  ASSUME RelayTypeOK, NEW q \in Questions, Put(q)
  PROVE  BusMoves /\ MsgId \in DOMAIN asks' /\ asks'[MsgId] = q /\ Len(asks') = Len(asks) + 1
         /\ (\A i \in DOMAIN asks : asks'[i] = asks[i])
<1>1. asks \in Seq(Questions) /\ peers' = peers /\ asks' = Append(asks, q)
  BY DEF Put, RelayTypeOK
<1>2. /\ asks' \in Seq(Questions) /\ Len(asks') = Len(asks) + 1
      /\ asks'[Len(asks) + 1] = q
      /\ \A i \in 1..Len(asks) : asks'[i] = asks[i]
  BY <1>1
<1>3. DOMAIN asks' = 1..(Len(asks) + 1) BY <1>2, LenProperties
<1>4. DOMAIN asks = 1..Len(asks) /\ Len(asks) \in Nat BY AskTypes
<1>5. MsgId \in DOMAIN asks' /\ asks'[MsgId] = q BY <1>2, <1>3, <1>4 DEF MsgId
<1>6. \A i \in DOMAIN asks : asks'[i] = asks[i] BY <1>2, <1>4
<1>7. peers' \subseteq Names BY <1>1 DEF RelayTypeOK
<1>8. Len(asks) <= Len(asks') /\ DOMAIN asks \subseteq DOMAIN asks' BY <1>2, <1>3, <1>4
<1> QED BY <1>2, <1>5, <1>6, <1>7, <1>8 DEF BusMoves

LEMMA CloseMoves ==
  ASSUME RelayTypeOK, NEW i \in DOMAIN asks, NEW r \in Reasons, Close(i, r)
  PROVE  /\ BusMoves /\ DOMAIN asks' = DOMAIN asks
         /\ asks'[i].phase = r /\ \A j \in DOMAIN asks \ {i} : asks'[j] = asks[j]
<1>1. asks \in Seq(Questions) /\ DOMAIN asks = 1..Len(asks) /\ asks[i] \in Questions /\ Len(asks) \in Nat
  BY AskTypes DEF RelayTypeOK
<1>2. [asks[i] EXCEPT !.phase = r] \in Questions
  BY <1>1 DEF Questions, Phases
<1>3. asks' = [asks EXCEPT ![i] = [asks[i] EXCEPT !.phase = r]]
  BY DEF Close
<1>4. asks' \in Seq(Questions) /\ Len(asks') = Len(asks) /\ DOMAIN asks' = DOMAIN asks
  BY <1>1, <1>2, <1>3, ExceptSeq
<1>5. asks'[i] = [asks[i] EXCEPT !.phase = r] /\ \A j \in DOMAIN asks \ {i} : asks'[j] = asks[j]
  BY <1>1, <1>3
<1>6. asks'[i].from = asks[i].from /\ asks'[i].phase = r
  BY <1>1, <1>5 DEF Questions
<1>7. \A j \in DOMAIN asks : asks'[j].from = asks[j].from /\ (asks'[j].phase = asks[j].phase \/ (IsWaiting(j) /\ asks'[j].phase \in Reasons))
  BY <1>5, <1>6 DEF Close, IsWaiting
<1> QED BY <1>1, <1>4, <1>5, <1>6, <1>7 DEF BusMoves, Close, RelayTypeOK

LEMMA DepartMoves ==
  ASSUME RelayTypeOK, NEW C \in SUBSET Children, NEW A \in SUBSET Children, Depart(C, A)
  PROVE  /\ BusMoves /\ DOMAIN asks' = DOMAIN asks
         /\ mailbox' \in [Children -> Seq(Nat)]
         /\ \A i \in DOMAIN asks : asks[i].from \in C \/ i \in RelayedOf(A) => ~IsWaiting(i)'
<1>1. asks \in Seq(Questions) /\ DOMAIN asks = 1..Len(asks) /\ Len(asks) \in Nat
      /\ \A i \in DOMAIN asks : asks[i] \in Questions
  BY AskTypes DEF RelayTypeOK
<1>2. {"aborted", "unregistered"} \subseteq Reasons /\ "waiting" \notin Reasons BY RelayAssumption
<1>3. \A i \in DOMAIN asks :
        /\ asks'[i] \in Questions
        /\ asks'[i].from = asks[i].from
        /\ asks'[i].phase = asks[i].phase \/ (IsWaiting(i) /\ asks'[i].phase \in Reasons)
        /\ asks[i].from \in C \/ i \in RelayedOf(A) => asks'[i].phase # "waiting"
  <2> SUFFICES ASSUME NEW i \in DOMAIN asks
               PROVE  /\ asks'[i] \in Questions
                      /\ asks'[i].from = asks[i].from
                      /\ asks'[i].phase = asks[i].phase \/ (IsWaiting(i) /\ asks'[i].phase \in Reasons)
                      /\ asks[i].from \in C \/ i \in RelayedOf(A) => asks'[i].phase # "waiting"
    OBVIOUS
  <2>1. asks[i] \in Questions BY <1>1
  <2>2. asks'[i] = IF IsWaiting(i) /\ i \in RelayedOf(A) THEN [asks[i] EXCEPT !.phase = "aborted"]
                   ELSE IF IsWaiting(i) /\ {asks[i].from, asks[i].to} \cap C # {}
                   THEN [asks[i] EXCEPT !.phase = "unregistered"] ELSE asks[i]
    BY DEF Depart
  <2>3. CASE IsWaiting(i) /\ i \in RelayedOf(A) BY <2>1, <2>2, <2>3, <1>2 DEF Questions, Phases, IsWaiting
  <2>4. CASE IsWaiting(i) /\ i \notin RelayedOf(A) /\ {asks[i].from, asks[i].to} \cap C # {}
    BY <2>1, <2>2, <2>4, <1>2 DEF Questions, Phases, IsWaiting
  <2>5. CASE ~IsWaiting(i) \/ (i \notin RelayedOf(A) /\ {asks[i].from, asks[i].to} \cap C = {})
    <3>1. asks'[i] = asks[i] BY <2>2, <2>5
    <3> QED BY <2>1, <2>5, <3>1 DEF IsWaiting
  <2> QED BY <2>3, <2>4, <2>5
<1>4. DOMAIN asks' = DOMAIN asks BY DEF Depart
<1>5. asks' \in [1..Len(asks) -> Questions]
  <2>1. asks' = [i \in DOMAIN asks |-> asks'[i]] BY DEF Depart
  <2> QED BY <1>1, <1>3, <2>1
<1>6. asks' \in Seq(Questions) BY <1>1, <1>5, SeqDef
<1>7. Len(asks') = Len(asks) BY <1>1, <1>5, <1>6, LenProperties
<1>8. mailbox' \in [Children -> Seq(Nat)] BY Nothing DEF Depart, RelayTypeOK
<1>9. peers' \subseteq Names BY DEF Depart, RelayTypeOK
<1>10. \A i \in DOMAIN asks : asks[i].from \in C \/ i \in RelayedOf(A) => ~IsWaiting(i)'
  BY <1>3 DEF IsWaiting
<1>11. BusMoves BY <1>1, <1>3, <1>4, <1>6, <1>7, <1>9 DEF BusMoves
<1> QED BY <1>4, <1>8, <1>10, <1>11

SupervisorTypes ==
  /\ host \in {"idle", "starting", "up", "failed", "retrying", "closed"}
  /\ leg \in [Children -> {"none", "running", "settled"}]
  /\ grant \in [Children -> {"none", "active", "bound", "revoked"}]
  /\ expected \subseteq Children
  /\ held \in [Children -> Seq(Nat)] /\ steered \in [Children -> Nat]
HostTypes ==
  /\ mailbox \in [Children -> Seq(Nat)]
  /\ conn \in [Children -> {"none", "open", "bound", "ended"}]
  /\ relay \in Seq(Nat) /\ DOMAIN relay = DOMAIN calls
  /\ \A k \in DOMAIN relay : relay[k] \in {0} \cup DOMAIN asks
  /\ serving \subseteq DOMAIN calls
ChildTypes ==
  /\ calls \in Seq(Calls)
  /\ cli \in [Children -> {"off", "dialing", "handshake", "online", "offline"}]
  /\ heard \in [Children -> Seq(Nat)] /\ told \in [Children -> Seq(Nat)]
UpTypes == up \in [Children -> Seq(Requests)]
DownTypes == down \in [Children -> Seq(Frames)]

LEMMA TypeParts ==
  /\ RelayTypeOK => SupervisorTypes /\ HostTypes /\ ChildTypes /\ UpTypes /\ DownTypes
  /\ BusMoves /\ SupervisorTypes' /\ HostTypes' /\ ChildTypes' /\ UpTypes' /\ DownTypes' => RelayTypeOK'
BY DEF RelayTypeOK, SupervisorTypes, HostTypes, ChildTypes, UpTypes, DownTypes, BusMoves

LEMMA RelayStill ==
  ASSUME RelayTypeOK, BusMoves, relay' = relay, UNCHANGED calls,
         mailbox' \in [Children -> Seq(Nat)],
         conn' \in [Children -> {"none", "open", "bound", "ended"}],
         serving' \subseteq DOMAIN calls
  PROVE  HostTypes'
BY DEF RelayTypeOK, HostTypes, BusMoves

LEMMA CutTypes == ASSUME RelayTypeOK, Cut PROVE UpTypes'
BY Nothing DEF Cut, UpTypes, RelayTypeOK

LEMMA DisconnectTypes ==
  ASSUME RelayTypeOK, NEW C \in SUBSET Children, Disconnect(C)
  PROVE  /\ conn' \in [Children -> {"none", "open", "bound", "ended"}]
         /\ serving' \subseteq serving /\ serving' \subseteq DOMAIN calls
BY DEF Disconnect, RelayTypeOK

LEMMA HeldTypes ==
  ASSUME RelayTypeOK
  PROVE  /\ NoFrames \in [Children -> Seq(Nat)]
         /\ \A c \in Children : [held EXCEPT ![c] = <<>>] \in [Children -> Seq(Nat)]
         /\ \A C : [c \in Children |-> IF c \in C THEN <<>> ELSE held[c]] \in [Children -> Seq(Nat)]
BY Nothing DEF NoFrames, RelayTypeOK

LEMMA BrokerCloseTypes == ASSUME RelayTypeOK, BrokerClose PROVE RelayTypeOK' /\ BusMoves
<1> DEFINE bound == {c \in Children : conn[c] = "bound"}
<1>1. /\ Depart(bound, GrantBoundOf(bound))
      /\ Disconnect({c \in Children : conn[c] \in {"open", "bound"}})
      /\ Write(NoFrames) /\ Cut
  BY DEF BrokerClose
<1>2. BusMoves /\ mailbox' \in [Children -> Seq(Nat)]
  BY <1>1, DepartMoves DEF GrantBoundOf
<1>3. DownTypes' BY <1>1, Written, ToNone DEF DownTypes
<1>4. UpTypes' BY <1>1, CutTypes
<1>5. HostTypes'
  <2>1. conn' \in [Children -> {"none", "open", "bound", "ended"}] /\ serving' \subseteq DOMAIN calls
    BY <1>1, DisconnectTypes
  <2> QED BY <1>2, <2>1, RelayStill DEF BrokerClose, childSide
<1>6. SupervisorTypes'
  BY HeldTypes DEF BrokerClose, SupervisorTypes, RelayTypeOK
<1>7. ChildTypes' BY DEF BrokerClose, childSide, ChildTypes, RelayTypeOK
<1> QED BY <1>2, <1>3, <1>4, <1>5, <1>6, <1>7, TypeParts

\* The host's socket of a child goes: what HostDrops does to the types.
LEMMA DropsTypes ==
  ASSUME RelayTypeOK, NEW c \in Children, HostDrops(c), UNCHANGED <<relay, calls, host, leg, steered>>
  PROVE  BusMoves /\ HostTypes' /\ SupervisorTypes'
<1> DEFINE there == {c} \cap {d \in Children : conn[d] = "bound"}
<1>1. Depart(there, there) /\ Disconnect({c}) /\ Revoke(GrantBoundOf({c}))
  BY DEF HostDrops
<1>2. BusMoves /\ mailbox' \in [Children -> Seq(Nat)]
  BY <1>1, DepartMoves
<1>3. HostTypes' BY <1>1, <1>2, DisconnectTypes, RelayStill
<1>4. SupervisorTypes'
  BY <1>1, HeldTypes DEF Revoke, SupervisorTypes, RelayTypeOK
<1> QED BY <1>2, <1>3, <1>4

LEMMA RevokeReaderTypes ==
  ASSUME RelayTypeOK, NEW c \in Children, RevokeReader(c) PROVE RelayTypeOK' /\ BusMoves
<1>1. DownTypes' BY Written, ToNone DEF DownTypes, RevokeReader
<1>2. UpTypes' BY CutTypes DEF RevokeReader
<1>3. ChildTypes' BY DEF RevokeReader, childSide, ChildTypes, RelayTypeOK
<1>4. BusMoves /\ HostTypes' /\ SupervisorTypes'
  <2>1. CASE grant[c] = "bound"
    BY <2>1, DropsTypes DEF RevokeReader, childSide
  <2>2. CASE grant[c] # "bound"
    <3>1. Revoke({c}) /\ UNCHANGED <<contractVars, mailbox, conn, serving, host, leg, steered, relay, childSide>>
      BY <2>2 DEF RevokeReader
    <3>2. SupervisorTypes' BY <3>1, HeldTypes DEF Revoke, SupervisorTypes, RelayTypeOK
    <3>3. BusMoves BY <3>1, StillMoves
    <3>4. HostTypes' BY <3>1, <3>3, RelayStill DEF childSide, RelayTypeOK
    <3> QED BY <3>2, <3>3, <3>4
  <2> QED BY <2>1, <2>2
<1> QED BY <1>1, <1>2, <1>3, <1>4, TypeParts

LEMMA LegSettlesTypes ==
  ASSUME RelayTypeOK, NEW c \in Children, LegSettles(c) PROVE RelayTypeOK' /\ BusMoves
<1>1. DownTypes' BY Written, ToNone DEF DownTypes, LegSettles
<1>2. UpTypes' BY CutTypes DEF LegSettles
<1>3. ChildTypes' BY DEF LegSettles, childSide, ChildTypes, RelayTypeOK
<1>4. SupervisorTypes'
  BY HeldTypes DEF LegSettles, ForgetHandle, SupervisorTypes, RelayTypeOK
<1>5. GrantBoundOf({c}) \in SUBSET Children BY DEF GrantBoundOf
<1>6. BusMoves /\ mailbox' \in [Children -> Seq(Nat)]
  BY <1>5, DepartMoves DEF LegSettles
<1>7. HostTypes'
  BY <1>5, <1>6, DisconnectTypes, RelayStill DEF LegSettles, childSide
<1> QED BY <1>1, <1>2, <1>3, <1>4, <1>6, <1>7, TypeParts

LEMMA QuietTypes ==
  ASSUME RelayTypeOK, Ensure \/ HostUp \/ HostFails \/ UNCHANGED relayVars
  PROVE  RelayTypeOK' /\ BusMoves
<1>1. UNCHANGED <<contractVars, leg, grant, expected, steered, hostSide, childSide, wire>>
  BY DEF Ensure, HostUp, HostFails, relayVars, supervisorSide
<1>2. BusMoves BY <1>1, StillMoves
<1>3. HostTypes' BY <1>1, <1>2, RelayStill DEF hostSide, childSide, RelayTypeOK
<1>4. SupervisorTypes'
  BY <1>1, HeldTypes DEF Ensure, HostUp, HostFails, relayVars, SupervisorTypes, RelayTypeOK, supervisorSide
<1>5. ChildTypes' /\ UpTypes' /\ DownTypes'
  BY <1>1 DEF ChildTypes, UpTypes, DownTypes, RelayTypeOK, childSide, wire
<1> QED BY <1>2, <1>3, <1>4, <1>5, TypeParts

LEMMA SpawnTypes ==
  ASSUME RelayTypeOK, NEW c \in Children, NEW reader \in BOOLEAN, SpawnChild(c, reader)
  PROVE  RelayTypeOK' /\ BusMoves
<1>2. BusMoves BY JoinMoves DEF SpawnChild
<1>3. HostTypes' BY <1>2, RelayStill DEF SpawnChild, hostSide, RelayTypeOK
<1>4. SupervisorTypes' BY DEF SpawnChild, SupervisorTypes, RelayTypeOK
<1>5. ChildTypes' /\ UpTypes' /\ DownTypes'
  BY DEF SpawnChild, ChildTypes, UpTypes, DownTypes, RelayTypeOK, wire
<1> QED BY <1>2, <1>3, <1>4, <1>5, TypeParts

LEMMA Appended ==
  ASSUME NEW S, NEW s \in Seq(S), NEW e \in S
  PROVE  /\ Append(s, e) \in Seq(S) /\ Len(Append(s, e)) = Len(s) + 1
         /\ DOMAIN Append(s, e) = 1..(Len(s) + 1) /\ DOMAIN s = 1..Len(s) /\ Len(s) \in Nat
         /\ Append(s, e)[Len(s) + 1] = e /\ \A i \in DOMAIN s : Append(s, e)[i] = s[i]
         /\ ToSet(Append(s, e)) = ToSet(s) \cup {e}
<1>1. /\ Append(s, e) \in Seq(S) /\ Len(Append(s, e)) = Len(s) + 1 /\ Len(s) \in Nat
      /\ Append(s, e)[Len(s) + 1] = e /\ \A i \in 1..Len(s) : Append(s, e)[i] = s[i]
  OBVIOUS
<1>2. DOMAIN Append(s, e) = 1..(Len(s) + 1) /\ DOMAIN s = 1..Len(s) BY <1>1, LenProperties
<1>3. ToSet(Append(s, e)) = ToSet(s) \cup {e}
  BY <1>1, <1>2 DEF ToSet
<1> QED BY <1>1, <1>2, <1>3

LEMMA SteerTypes ==
  ASSUME RelayTypeOK, NEW c \in Children, Steer(c)
  PROVE  RelayTypeOK' /\ BusMoves
<1>1. UNCHANGED <<contractVars, host, leg, grant, expected, hostSide, childSide, up>>
  BY DEF Steer
<1>2. BusMoves BY <1>1, StillMoves
<1>3. HostTypes' BY <1>1, <1>2, RelayStill DEF hostSide, childSide, RelayTypeOK
<1>4. ChildTypes' /\ UpTypes' BY <1>1 DEF ChildTypes, UpTypes, RelayTypeOK, childSide
<1>5. steered' \in [Children -> Nat] /\ steered'[c] \in Nat BY DEF Steer, RelayTypeOK
<1>6. CASE conn[c] = "bound"
  <2>1. Frame("steer", steered'[c], TRUE) \in Frames BY <1>5 DEF Frame, Frames
  <2>2. To(c, <<Frame("steer", steered'[c], TRUE)>>) \in [Children -> Seq(Frames)]
    BY <2>1, Single, ToOne
  <2>3. held' = held /\ Write(To(c, <<Frame("steer", steered'[c], TRUE)>>)) BY <1>6 DEF Steer
  <2>4. DownTypes' BY <2>2, <2>3, Written DEF DownTypes
  <2>5. SupervisorTypes' BY <1>1, <1>5, <2>3 DEF SupervisorTypes, RelayTypeOK
  <2> QED BY <1>2, <1>3, <1>4, <2>4, <2>5, TypeParts
<1>7. CASE conn[c] # "bound"
  <2>1. held' = [held EXCEPT ![c] = Append(@, steered'[c])] /\ down' = down BY <1>7 DEF Steer
  <2>2. held[c] \in Seq(Nat) BY DEF RelayTypeOK
  <2>3. Append(held[c], steered'[c]) \in Seq(Nat) BY <1>5, <2>2, Appended
  <2>4. SupervisorTypes' BY <1>1, <1>5, <2>1, <2>3 DEF SupervisorTypes, RelayTypeOK
  <2>5. DownTypes' BY <2>1 DEF DownTypes, RelayTypeOK
  <2> QED BY <1>2, <1>3, <1>4, <2>4, <2>5, TypeParts
<1> QED BY <1>6, <1>7

\* A message the bus accepts.
LEMMA AcceptedTypes ==
  ASSUME RelayTypeOK, NEW q \in Questions, Accepted(q)
  PROVE  /\ BusMoves /\ MsgId \in DOMAIN asks' /\ asks'[MsgId] = q /\ Len(asks') = Len(asks) + 1
         /\ \A i \in DOMAIN asks : asks'[i] = asks[i]
         /\ mailbox' \in [Children -> Seq(Nat)]
<1>1. Put(q) /\ Unread(q) BY DEF Accepted
<1>2. \A c \in Children : mailbox[c] \in Seq(Nat) /\ Append(mailbox[c], MsgId) \in Seq(Nat)
  BY Appended, AskTypes DEF RelayTypeOK
<1>3. mailbox' \in [Children -> Seq(Nat)] BY <1>1, <1>2 DEF Unread
<1> QED BY <1>1, <1>3, PutMoves

LEMMA MessageType ==
  ASSUME NEW f \in Names, NEW t \in Names, NEW p \in {"note", "waiting"}
  PROVE  Message(f, t, p) \in Questions
BY DEF Message, Questions, Phases

LEMMA SupervisorWritesTypes ==
  ASSUME RelayTypeOK, NEW c \in Children, SupervisorWrites(c)
  PROVE  RelayTypeOK' /\ BusMoves
<1> DEFINE q == Message(Supervisor, c, "note")
<1>1. UNCHANGED <<host, supervisorSide, conn, relay, serving, childSide, up>> /\ Accepted(q) /\ Write(Drained(q))
  BY DEF SupervisorWrites
<1>2. q \in Questions BY MessageType, RelayAssumption DEF Children
<1>3. BusMoves /\ mailbox' \in [Children -> Seq(Nat)] BY <1>1, <1>2, AcceptedTypes
<1>4. DownTypes' BY <1>1, DrainedFrames, Written DEF DownTypes
<1>5. HostTypes' BY <1>1, <1>3, RelayStill DEF childSide, RelayTypeOK
<1>6. SupervisorTypes' /\ ChildTypes' /\ UpTypes'
  BY <1>1 DEF SupervisorTypes, ChildTypes, UpTypes, RelayTypeOK, childSide, supervisorSide
<1> QED BY <1>3, <1>4, <1>5, <1>6, TypeParts

LEMMA SettlesTypes ==
  ASSUME RelayTypeOK, NEW i \in DOMAIN asks, NEW r \in {"replied", "timeout"}, Settles(i, r)
  PROVE  RelayTypeOK' /\ BusMoves
<1>1. UNCHANGED <<host, supervisorSide, hostSide, childSide, up>> /\ Close(i, r) /\ Write(NoFrames)
  BY DEF Settles, AskCloses
<1>2. r \in Reasons BY RelayAssumption
<1>3. BusMoves BY <1>1, <1>2, CloseMoves
<1>4. DownTypes' BY <1>1, ToNone, Written DEF DownTypes
<1>5. HostTypes' BY <1>1, <1>3, RelayStill DEF hostSide, childSide, RelayTypeOK
<1>6. SupervisorTypes' /\ ChildTypes' /\ UpTypes'
  BY <1>1 DEF SupervisorTypes, ChildTypes, UpTypes, RelayTypeOK, childSide, supervisorSide
<1> QED BY <1>3, <1>4, <1>5, <1>6, TypeParts

LEMMA AnswerSent ==
  ASSUME RelayTypeOK, NEW k \in DOMAIN calls, NEW ok \in BOOLEAN
  PROVE  To(calls[k].by, <<Answer(k, ok)>>) \in [Children -> Seq(Frames)]
<1>1. calls[k].by \in Children /\ k \in Nat BY AskTypes
<1>2. <<Answer(k, ok)>> \in Seq(Frames) BY <1>1, AnswerFrame, Single
<1> QED BY <1>1, <1>2, ToOne

LEMMA AnswersReadTypes ==
  ASSUME RelayTypeOK, NEW k \in DOMAIN calls, NEW ok \in BOOLEAN, HostAnswersRead(k, ok)
  PROVE  RelayTypeOK' /\ BusMoves
<1> DEFINE F == To(calls[k].by, <<Answer(k, ok)>>)
<1>1. /\ UNCHANGED <<contractVars, host, supervisorSide, mailbox, conn, relay, childSide, up>>
      /\ Write(F) /\ serving' = serving \ {k}
  BY DEF HostAnswersRead
<1>2. F \in [Children -> Seq(Frames)]
  BY AnswerSent
<1>3. BusMoves BY <1>1, StillMoves
<1>4. DownTypes' BY <1>1, <1>2, Written DEF DownTypes
<1>5. HostTypes' BY <1>1, <1>3, RelayStill DEF childSide, RelayTypeOK
<1>6. SupervisorTypes' /\ ChildTypes' /\ UpTypes'
  BY <1>1 DEF SupervisorTypes, ChildTypes, UpTypes, RelayTypeOK, childSide, supervisorSide
<1> QED BY <1>3, <1>4, <1>5, <1>6, TypeParts

LEMMA SeesCloseTypes ==
  ASSUME RelayTypeOK, NEW c \in Children, HostSeesClose(c)
  PROVE  RelayTypeOK' /\ BusMoves
<1>1. HostDrops(c) /\ Write(NoFrames) /\ Cut /\ UNCHANGED <<host, leg, steered, relay, childSide>>
  BY DEF HostSeesClose
<1>2. BusMoves /\ HostTypes' /\ SupervisorTypes' BY <1>1, DropsTypes DEF childSide
<1>3. DownTypes' BY <1>1, Written, ToNone DEF DownTypes
<1>4. UpTypes' BY <1>1, CutTypes
<1>5. ChildTypes' BY <1>1 DEF childSide, ChildTypes, RelayTypeOK
<1> QED BY <1>2, <1>3, <1>4, <1>5, TypeParts

LEMMA RequestFrames ==
  /\ Frame("register", 0, TRUE) \in Requests /\ Frame("bye", 0, TRUE) \in Requests
  /\ \A k \in Nat : Frame("call", k, TRUE) \in Requests /\ Frame("cancel", k, TRUE) \in Requests
BY DEF Frame, Requests

\* Frames sent up: kept, unless the connection has ended.
LEMMA Sent ==
  ASSUME RelayTypeOK, NEW c \in Children, NEW s \in Seq(Requests), Send(c, s)
  PROVE  /\ UpTypes'
         /\ \A d \in Children \ {c} : up'[d] = up[d]
         /\ conn[c] = "ended" => up'[c] = <<>>
         /\ conn[c] # "ended" => up'[c] = up[c] \o s
<1>1. up[c] \in Seq(Requests) BY DEF RelayTypeOK
<1>2. up[c] \o s \in Seq(Requests) BY <1>1, Concat
<1> QED BY <1>2, Nothing DEF Send, UpTypes, RelayTypeOK

LEMMA FailTypes ==
  ASSUME RelayTypeOK, NEW c \in Children, FailPending(c)
  PROVE  /\ calls' \in Seq(Calls) /\ DOMAIN calls' = DOMAIN calls
         /\ \A k \in DOMAIN calls :
              /\ calls'[k].by = calls[k].by /\ calls'[k].kind = calls[k].kind
              /\ calls[k].by = c => calls'[k].state # "pending"
              /\ calls'[k].state = calls[k].state \/ (calls'[k].state = "failed" /\ calls[k].by = c)
<1>1. DOMAIN calls = 1..Len(calls) /\ Len(calls) \in Nat /\ \A k \in DOMAIN calls : calls[k] \in Calls
  BY AskTypes
<1>2. \A k \in DOMAIN calls :
         /\ calls'[k] \in Calls
         /\ calls'[k].by = calls[k].by /\ calls'[k].kind = calls[k].kind
         /\ calls[k].by = c => calls'[k].state # "pending"
         /\ calls'[k].state = calls[k].state \/ (calls'[k].state = "failed" /\ calls[k].by = c)
  BY <1>1 DEF FailPending, PendingOf, Calls
<1>3. calls' \in [1..Len(calls) -> Calls]
  <2>1. calls' = [k \in DOMAIN calls |-> calls'[k]] BY DEF FailPending
  <2> QED BY <1>1, <1>2, <2>1
<1>4. calls' \in Seq(Calls) BY <1>1, <1>3, SeqDef
<1> QED BY <1>1, <1>2, <1>3, <1>4

LEMMA ChildLeavesTypes ==
  ASSUME RelayTypeOK, NEW c \in Children, NEW bye \in BOOLEAN, ChildGoes(c, bye) \/ ChildSeesClose(c)
  PROVE  RelayTypeOK' /\ BusMoves
<1>1. /\ UNCHANGED <<contractVars, host, supervisorSide, hostSide, heard, told>>
      /\ cli' = [cli EXCEPT ![c] = "offline"] /\ FailPending(c) /\ down' = [down EXCEPT ![c] = <<>>]
      /\ up' = up \/ \E s \in Seq(Requests) : Send(c, s)
  <2>1. <<>> \in Seq(Requests) /\ <<Frame("bye", 0, TRUE)>> \in Seq(Requests)
    BY RequestFrames, Single, Nothing
  <2> QED BY <2>1 DEF ChildGoes, ChildSeesClose
<1>2. calls' \in Seq(Calls) /\ DOMAIN calls' = DOMAIN calls BY <1>1, FailTypes
<1>3. UpTypes' BY <1>1, Sent DEF UpTypes, RelayTypeOK
<1>4. DownTypes' BY <1>1, Nothing DEF DownTypes, RelayTypeOK
<1>5. ChildTypes' BY <1>1, <1>2 DEF ChildTypes, RelayTypeOK
<1>6. BusMoves BY <1>1, StillMoves
<1>7. HostTypes' BY <1>1, <1>2, <1>6 DEF HostTypes, RelayTypeOK, hostSide, contractVars
<1>8. SupervisorTypes' BY <1>1 DEF SupervisorTypes, RelayTypeOK, supervisorSide
<1> QED BY <1>3, <1>4, <1>5, <1>6, <1>7, <1>8, TypeParts

LEMMA ConnectsTypes ==
  ASSUME RelayTypeOK, NEW c \in Children, Connects(c)
  PROVE  RelayTypeOK' /\ BusMoves
<1>1. /\ UNCHANGED <<contractVars, host, supervisorSide, mailbox, relay, serving, calls, heard, told, down>>
      /\ cli' = [cli EXCEPT ![c] = "handshake"] /\ conn' = [conn EXCEPT ![c] = "open"]
      /\ up' = [up EXCEPT ![c] = <<Frame("register", 0, TRUE)>>]
  BY DEF Connects
<1>2. BusMoves BY <1>1, StillMoves
<1>3. UpTypes' BY <1>1, RequestFrames, Single DEF UpTypes, RelayTypeOK
<1>4. ChildTypes' /\ DownTypes' /\ SupervisorTypes'
  BY <1>1 DEF ChildTypes, DownTypes, SupervisorTypes, RelayTypeOK, supervisorSide
<1>5. HostTypes' BY <1>1, <1>2, RelayStill DEF RelayTypeOK
<1> QED BY <1>2, <1>3, <1>4, <1>5, TypeParts

LEMMA CallsTypes ==
  ASSUME RelayTypeOK, NEW c \in Children, NEW kind \in CallKinds, NEW to \in Names, ChildCalls(c, kind, to)
  PROVE  RelayTypeOK' /\ BusMoves
<1> DEFINE e == [by |-> c, kind |-> kind, to |-> to, state |-> "pending"]
<1>1. /\ UNCHANGED <<contractVars, host, supervisorSide, mailbox, conn, serving, cli, heard, told, down>>
      /\ calls' = Append(calls, e) /\ relay' = Append(relay, 0)
      /\ Send(c, <<Frame("call", Len(calls) + 1, TRUE)>>)
  BY DEF ChildCalls
<1>2. e \in Calls /\ calls \in Seq(Calls) /\ relay \in Seq(Nat) /\ 0 \in Nat
  BY DEF Calls, RelayTypeOK
<1>3. BusMoves BY <1>1, StillMoves
<1>4. calls' \in Seq(Calls) /\ DOMAIN calls' = 1..(Len(calls) + 1) /\ Len(calls) \in Nat /\ DOMAIN calls = 1..Len(calls)
  BY <1>1, <1>2, Appended
<1>5. relay' \in Seq(Nat) /\ DOMAIN relay' = 1..(Len(relay) + 1) /\ Len(relay) \in Nat /\ DOMAIN relay = 1..Len(relay)
      /\ relay'[Len(relay) + 1] = 0 /\ \A i \in DOMAIN relay : relay'[i] = relay[i]
  BY <1>1, <1>2, Appended
<1>6. Len(relay) = Len(calls) /\ DOMAIN relay' = DOMAIN calls'
  <2>1. 1..Len(relay) = 1..Len(calls) BY <1>4, <1>5 DEF RelayTypeOK
  <2>2. ~(Len(relay) < Len(calls))
    <3>1. Len(relay) < Len(calls) => Len(calls) \in 1..Len(calls) /\ Len(calls) \notin 1..Len(relay) BY <1>4, <1>5
    <3> QED BY <2>1, <3>1
  <2>3. ~(Len(calls) < Len(relay))
    <3>1. Len(calls) < Len(relay) => Len(relay) \in 1..Len(relay) /\ Len(relay) \notin 1..Len(calls) BY <1>4, <1>5
    <3> QED BY <2>1, <3>1
  <2>5. Len(relay) \in Nat /\ Len(calls) \in Nat BY <1>4, <1>5
  <2>4. Len(relay) = Len(calls) BY <2>2, <2>3, <2>5
  <2> QED BY <2>4, <1>4, <1>5
<1>7. \A k \in DOMAIN relay' : relay'[k] \in {0} \cup DOMAIN asks'
  <2> SUFFICES ASSUME NEW k \in DOMAIN relay' PROVE relay'[k] \in {0} \cup DOMAIN asks' OBVIOUS
  <2>1. CASE k = Len(relay) + 1 BY <2>1, <1>5
  <2>2. CASE k # Len(relay) + 1
    <3>1. k \in DOMAIN relay BY <1>5, <2>2
    <3> QED BY <3>1, <1>5, <1>1 DEF RelayTypeOK, contractVars
  <2> QED BY <2>1, <2>2
<1>8. HostTypes' BY <1>1, <1>4, <1>5, <1>6, <1>7 DEF HostTypes, RelayTypeOK
<1>9. UpTypes'
  <2>1. Len(calls) + 1 \in Nat BY <1>4
  <2>2. Frame("call", Len(calls) + 1, TRUE) \in Requests BY <2>1, RequestFrames
  <2>3. <<Frame("call", Len(calls) + 1, TRUE)>> \in Seq(Requests) BY <2>2, Single
  <2> QED BY <1>1, <2>3, Sent
<1>10. ChildTypes' /\ DownTypes' /\ SupervisorTypes'
  BY <1>1, <1>4 DEF ChildTypes, DownTypes, SupervisorTypes, RelayTypeOK, supervisorSide
<1> QED BY <1>3, <1>8, <1>9, <1>10, TypeParts

\* One call's state changes.
LEMMA StateTypes ==
  ASSUME RelayTypeOK, NEW k \in DOMAIN calls, NEW st \in {"pending", "answered", "failed"},
         calls' = [calls EXCEPT ![k].state = st]
  PROVE  /\ calls' \in Seq(Calls) /\ DOMAIN calls' = DOMAIN calls
         /\ calls'[k].state = st /\ calls'[k].by = calls[k].by /\ calls'[k].kind = calls[k].kind
         /\ \A j \in DOMAIN calls \ {k} : calls'[j] = calls[j]
<1>1. calls \in Seq(Calls) /\ k \in 1..Len(calls) /\ calls[k] \in Calls
  BY AskTypes DEF RelayTypeOK
<1>2. [calls[k] EXCEPT !.state = st] \in Calls BY <1>1 DEF Calls
<1>3. calls' = [calls EXCEPT ![k] = [calls[k] EXCEPT !.state = st]] OBVIOUS
<1>4. calls' \in Seq(Calls) /\ Len(calls') = Len(calls) /\ calls'[k] = [calls[k] EXCEPT !.state = st]
      /\ \A j \in DOMAIN calls \ {k} : calls'[j] = calls[j] /\ DOMAIN calls' = DOMAIN calls
  BY <1>1, <1>2, <1>3, ExceptSeq
<1> QED BY <1>1, <1>3, <1>4 DEF Calls

LEMMA GivesUpTypes ==
  ASSUME RelayTypeOK, NEW k \in DOMAIN calls, ChildGivesUp(k)
  PROVE  RelayTypeOK' /\ BusMoves
<1>1. /\ UNCHANGED <<contractVars, host, supervisorSide, hostSide, cli, heard, told, down>>
      /\ calls' = [calls EXCEPT ![k].state = "failed"] /\ Send(calls[k].by, Cancels(k))
  BY DEF ChildGivesUp
<1>2. calls' \in Seq(Calls) /\ DOMAIN calls' = DOMAIN calls BY <1>1, StateTypes
<1>3. BusMoves BY <1>1, StillMoves
<1>4. UpTypes'
  <2>1. calls[k].by \in Children /\ k \in Nat BY AskTypes
  <2>2. <<Frame("cancel", k, TRUE)>> \in Seq(Requests) BY <2>1, RequestFrames, Single
  <2>3. Cancels(k) \in Seq(Requests) BY <2>2, Nothing DEF Cancels
  <2> QED BY <1>1, <2>1, <2>3, Sent
<1>5. HostTypes' BY <1>1, <1>2 DEF HostTypes, RelayTypeOK, hostSide, contractVars
<1>6. ChildTypes' /\ DownTypes' /\ SupervisorTypes'
  BY <1>1, <1>2 DEF ChildTypes, DownTypes, SupervisorTypes, RelayTypeOK, supervisorSide
<1> QED BY <1>3, <1>4, <1>5, <1>6, TypeParts

LEMMA ReadsTypes ==
  ASSUME RelayTypeOK, NEW c \in Children, ChildReads(c)
  PROVE  RelayTypeOK' /\ BusMoves
<1> DEFINE f == Head(down[c])
<1>1. /\ UNCHANGED <<contractVars, host, supervisorSide, hostSide, up>>
      /\ down[c] # <<>> /\ down' = [down EXCEPT ![c] = Tail(@)]
      /\ cli' = [cli EXCEPT ![c] = IF f.t = "registered" THEN "online" ELSE @]
      /\ calls' = IF f.t = "answer" /\ calls[f.n].state = "pending"
                  THEN [calls EXCEPT ![f.n].state = IF f.ok THEN "answered" ELSE "failed"]
                  ELSE calls
      /\ heard' = [heard EXCEPT ![c] = IF f.t = "deliver" THEN Append(@, f.n) ELSE @]
      /\ told' = [told EXCEPT ![c] = IF f.t = "steer" THEN Append(@, f.n) ELSE @]
  BY DEF ChildReads
<1>2. down[c] \in Seq(Frames) /\ f \in Frames /\ Tail(down[c]) \in Seq(Frames)
  BY <1>1, TailOf DEF RelayTypeOK
<1>3. calls' \in Seq(Calls) /\ DOMAIN calls' = DOMAIN calls
  <2>1. CASE f.n \in DOMAIN calls
    BY <1>1, <2>1, StateTypes DEF RelayTypeOK
  <2>2. CASE f.n \notin DOMAIN calls
    <3>1. [calls EXCEPT ![f.n].state = IF f.ok THEN "answered" ELSE "failed"] = calls
      BY <2>2, AskTypes DEF RelayTypeOK
    <3> QED BY <1>1, <3>1 DEF RelayTypeOK
  <2> QED BY <2>1, <2>2, SMTT(30)
<1>4. heard' \in [Children -> Seq(Nat)] /\ told' \in [Children -> Seq(Nat)]
  <2>1. f.n \in Nat BY <1>2 DEF Frames
  <2>2. \A s \in Seq(Nat) : Append(s, f.n) \in Seq(Nat) BY <2>1, Appended
  <2> QED BY <1>1, <2>2 DEF RelayTypeOK
<1>5. ChildTypes' BY <1>1, <1>3, <1>4 DEF ChildTypes, RelayTypeOK
<1>6. BusMoves BY <1>1, StillMoves
<1>7. HostTypes' BY <1>1, <1>3 DEF HostTypes, RelayTypeOK, hostSide, contractVars
<1>8. DownTypes' BY <1>1, <1>2 DEF DownTypes, RelayTypeOK
<1>9. UpTypes' /\ SupervisorTypes' BY <1>1 DEF UpTypes, SupervisorTypes, RelayTypeOK, supervisorSide
<1> QED BY <1>5, <1>6, <1>7, <1>8, <1>9, TypeParts

\* The frame the host takes, and what is left.
LEMMA TakeTypes ==
  ASSUME RelayTypeOK, NEW c \in Children, up[c] # <<>>, Take(c)
  PROVE  /\ UpTypes' /\ Head(up[c]) \in Requests /\ Head(up[c]) = up[c][1] /\ 1 \in DOMAIN up[c]
         /\ \A d \in Children \ {c} : up'[d] = up[d]
         /\ up'[c] = IF conn'[c] = "ended" THEN <<>> ELSE Tail(up[c])
<1>1. up[c] \in Seq(Requests) BY DEF RelayTypeOK
<1>2. Head(up[c]) \in Requests /\ Tail(up[c]) \in Seq(Requests) /\ Head(up[c]) = up[c][1] /\ 1 \in DOMAIN up[c]
  BY <1>1, TailOf
<1> QED BY <1>2, Nothing DEF Take, UpTypes, RelayTypeOK

\* The first words to a child: registered, its mail, its steers.
LEMMA GreetFrames ==
  ASSUME RelayTypeOK, NEW c \in Children
  PROVE  /\ Greet(c) \in Seq(Frames)
         /\ ToSet(Greet(c)) = {Frame("registered", 0, TRUE)}
                \cup ToSet(Each("deliver", mailbox[c])) \cup ToSet(Each("steer", held[c]))
<1> DEFINE r == <<Frame("registered", 0, TRUE)>>
           m == Each("deliver", mailbox[c])
           s == Each("steer", held[c])
<1>1. Frame("registered", 0, TRUE) \in Frames BY DEF Frame, Frames
<1>2. r \in Seq(Frames) /\ ToSet(r) = {Frame("registered", 0, TRUE)} BY <1>1, Single
<1>3. m \in Seq(Frames) /\ s \in Seq(Frames) BY EachFrame DEF RelayTypeOK
<1>4. Greet(c) = r \o m \o s BY DEF Greet
<1>5. ToSet(r \o m) = ToSet(r) \cup ToSet(m) /\ r \o m \in Seq(Frames)
  <2> HIDE DEF r, m
  <2> QED BY <1>2, <1>3, Concat, ZenonT(60)
<1> DEFINE rm == r \o m
<1> HIDE DEF rm, s
<1>6. rm \in Seq(Frames) BY <1>5 DEF rm
<1>7. rm \o s \in Seq(Frames) /\ ToSet(rm \o s) = ToSet(rm) \cup ToSet(s)
  BY <1>6, <1>3, Concat
<1> QED BY <1>2, <1>4, <1>5, <1>7 DEF rm, s

LEMMA GreetSays ==
  ASSUME RelayTypeOK, NEW c \in Children
  PROVE  \A e \in ToSet(Greet(c)) :
           \/ e = Frame("registered", 0, TRUE)
           \/ \E i \in DOMAIN mailbox[c] : e = Frame("deliver", mailbox[c][i], TRUE)
           \/ \E i \in DOMAIN held[c] : e = Frame("steer", held[c][i], TRUE)
<1>1. mailbox[c] \in Seq(Nat) /\ held[c] \in Seq(Nat) BY DEF RelayTypeOK
<1> DEFINE m == Each("deliver", mailbox[c])
           h == Each("steer", held[c])
<1>2. DOMAIN m = DOMAIN mailbox[c] /\ \A i \in DOMAIN mailbox[c] : m[i] = Frame("deliver", mailbox[c][i], TRUE)
  BY <1>1, EachFrame
<1>3. DOMAIN h = DOMAIN held[c] /\ \A i \in DOMAIN held[c] : h[i] = Frame("steer", held[c][i], TRUE)
  BY <1>1, EachFrame
<1>4. ToSet(Greet(c)) = {Frame("registered", 0, TRUE)} \cup ToSet(m) \cup ToSet(h) BY GreetFrames
<1> HIDE DEF m, h
<1>5. \A e \in ToSet(m) : \E i \in DOMAIN mailbox[c] : e = Frame("deliver", mailbox[c][i], TRUE)
  BY <1>2 DEF ToSet
<1>6. \A e \in ToSet(h) : \E i \in DOMAIN held[c] : e = Frame("steer", held[c][i], TRUE)
  BY <1>3 DEF ToSet
<1> QED BY <1>4, <1>5, <1>6

LEMMA RegistersTypes ==
  ASSUME RelayTypeOK, NEW c \in Children, HostRegisters(c), UNCHANGED <<host, childSide>>
  PROVE  BusMoves /\ SupervisorTypes' /\ HostTypes' /\ ChildTypes' /\ DownTypes'
<1>1. ChildTypes' BY DEF ChildTypes, RelayTypeOK, childSide
<1>2. CASE Refused(c)
  <2>1. UNCHANGED <<contractVars, grant, held, mailbox, down, leg, expected, steered, relay, serving>>
        /\ conn' = [conn EXCEPT ![c] = "ended"]
    BY <1>2 DEF HostRegisters
  <2>2. BusMoves BY <2>1, StillMoves
  <2>3. HostTypes' BY <2>1, <2>2, RelayStill DEF RelayTypeOK, childSide
  <2>4. SupervisorTypes' /\ DownTypes' BY <2>1 DEF SupervisorTypes, DownTypes, RelayTypeOK
  <2> QED BY <1>1, <2>2, <2>3, <2>4
<1>3. CASE ~Refused(c)
  <2>1. /\ conn' = [conn EXCEPT ![c] = "bound"]
        /\ grant' = [grant EXCEPT ![c] = IF @ = "active" THEN "bound" ELSE @]
        /\ Join(c) /\ mailbox' = [mailbox EXCEPT ![c] = <<>>] /\ held' = [held EXCEPT ![c] = <<>>]
        /\ Write(To(c, Greet(c)))
        /\ UNCHANGED <<leg, expected, steered, relay, serving>>
    BY <1>3 DEF HostRegisters
  <2>2. BusMoves BY <2>1, JoinMoves
  <2>3. mailbox' \in [Children -> Seq(Nat)] BY <2>1, Nothing DEF RelayTypeOK
  <2>4. HostTypes' BY <2>1, <2>2, <2>3, RelayStill DEF RelayTypeOK, childSide
  <2>5. SupervisorTypes' BY <2>1, HeldTypes DEF SupervisorTypes, RelayTypeOK
  <2>6. Greet(c) \in Seq(Frames) BY GreetFrames
  <2>7. DownTypes' BY <2>1, <2>6, ToOne, Written DEF DownTypes
  <2> QED BY <1>1, <2>2, <2>4, <2>5, <2>7
<1> QED BY <1>2, <1>3

\* What the acceptance of a note writes: the note, and its receipt.
WithReceipt(q, c, k) == [d \in Children |-> Drained(q)[d] \o To(c, Receipt(c, k, TRUE))[d]]

LEMMA ReceiptFrames ==
  ASSUME RelayTypeOK, NEW q, NEW k \in DOMAIN calls, NEW c, c = calls[k].by
  PROVE  LET F == WithReceipt(q, c, k) IN
         /\ F \in [Children -> Seq(Frames)]
         /\ ToSet(F[c]) \subseteq {Frame("deliver", MsgId, TRUE), Answer(k, TRUE)}
         /\ Answer(k, TRUE) \in ToSet(F[c])
         /\ \A d \in Children \ {c} : ToSet(F[d]) \subseteq {Frame("deliver", MsgId, TRUE)}
<1> DEFINE G == Drained(q)
           r == <<Answer(k, TRUE)>>
           R == To(c, r)
           F == [d \in Children |-> G[d] \o R[d]]
<1>1. c \in Children /\ k \in Nat BY AskTypes
<1>2. G \in [Children -> Seq(Frames)] /\ \A d \in Children : ToSet(G[d]) \subseteq {Frame("deliver", MsgId, TRUE)}
  BY DrainedFrames
<1>3. r \in Seq(Frames) /\ ToSet(r) = {Answer(k, TRUE)} BY <1>1, AnswerFrame, Single
<1>4. Receipt(c, k, TRUE) = r BY DEF Receipt
<1> HIDE DEF r
<1>5. R \in [Children -> Seq(Frames)] /\ R[c] = r /\ \A d \in Children \ {c} : R[d] = <<>>
  BY <1>1, <1>3, ToOne
<1>6. ToSet(R[c]) = {Answer(k, TRUE)} /\ \A d \in Children \ {c} : ToSet(R[d]) = {}
  BY <1>3, <1>5, Nothing
<1> HIDE DEF G, R
<1>7. \A d \in Children : G[d] \o R[d] \in Seq(Frames) /\ ToSet(G[d] \o R[d]) = ToSet(G[d]) \cup ToSet(R[d])
  BY <1>2, <1>5, Concat
<1>8. /\ F \in [Children -> Seq(Frames)]
      /\ ToSet(F[c]) \subseteq {Frame("deliver", MsgId, TRUE), Answer(k, TRUE)}
      /\ Answer(k, TRUE) \in ToSet(F[c])
      /\ \A d \in Children \ {c} : ToSet(F[d]) \subseteq {Frame("deliver", MsgId, TRUE)}
  BY <1>1, <1>2, <1>6, <1>7, ZenonT(60)
<1> QED BY <1>4, <1>8 DEF G, R, WithReceipt

\* A call the host takes from the wire.
LEMMA TakesTypes ==
  ASSUME RelayTypeOK, NEW c \in Children, NEW k \in DOMAIN calls, calls[k].by = c,
         HostTakesCall(c, k), UNCHANGED <<supervisorSide, conn, host, childSide>>
  PROVE  BusMoves /\ HostTypes' /\ DownTypes'
<1>1. calls[k] \in Calls /\ calls[k].to \in Names /\ c \in Names /\ k \in Nat
      /\ To(c, <<Answer(k, FALSE)>>) \in [Children -> Seq(Frames)]
  <2>1. calls[k] \in Calls /\ k \in Nat BY AskTypes
  <2>2. To(c, <<Answer(k, FALSE)>>) \in [Children -> Seq(Frames)] BY AnswerSent
  <2> QED BY <2>1, <2>2 DEF Calls, Children
<1>2. UNCHANGED calls BY DEF childSide
<1>3. ASSUME UNCHANGED <<contractVars, mailbox, relay>>, serving' \subseteq DOMAIN calls,
             UNCHANGED down \/ Write(To(c, <<Answer(k, FALSE)>>))
      PROVE  BusMoves /\ HostTypes' /\ DownTypes'
  <2>1. BusMoves BY <1>3, StillMoves
  <2>2. HostTypes' BY <1>2, <1>3, <2>1, RelayStill DEF RelayTypeOK
  <2>3. DownTypes' BY <1>1, <1>3, Written DEF DownTypes, RelayTypeOK
  <2> QED BY <2>1, <2>2, <2>3
<1>4. ASSUME NEW p \in {"note", "waiting"}, Accepted(Message(c, calls[k].to, p)),
             relay' = [relay EXCEPT ![k] = MsgId], UNCHANGED serving
      PROVE  BusMoves /\ HostTypes'
  <2>1. Message(c, calls[k].to, p) \in Questions BY <1>1, MessageType
  <2>2. BusMoves /\ MsgId \in DOMAIN asks' /\ mailbox' \in [Children -> Seq(Nat)]
    BY <1>4, <2>1, AcceptedTypes
  <2>3. relay' \in Seq(Nat) /\ DOMAIN relay' = DOMAIN relay /\ relay'[k] = MsgId
        /\ \A j \in DOMAIN relay \ {k} : relay'[j] = relay[j]
    <3>1. relay \in Seq(Nat) /\ DOMAIN relay = DOMAIN calls /\ MsgId \in Nat BY AskTypes DEF RelayTypeOK
    <3>2. k \in 1..Len(relay) BY <3>1, LenProperties
    <3> QED BY <1>4, <3>1, <3>2, ExceptSeq
  <2>4. \A j \in DOMAIN relay' : relay'[j] \in {0} \cup DOMAIN asks'
    BY <2>2, <2>3 DEF BusMoves, RelayTypeOK
  <2> QED BY <1>2, <1>4, <2>2, <2>3, <2>4 DEF HostTypes, RelayTypeOK
<1>5. CASE calls[k].kind = "ask"
  <2>1. HostAsks(c, k) /\ UNCHANGED serving BY <1>5 DEF HostTakesCall
  <2> DEFINE q == Message(c, calls[k].to, "waiting")
  <2>2. CASE Accepted(q) /\ relay' = [relay EXCEPT ![k] = MsgId] /\ Write(Drained(q))
    <3>1. DownTypes' BY <2>2, DrainedFrames, Written DEF DownTypes
    <3> QED BY <1>4, <2>1, <2>2, <3>1
  <2>3. CASE UNCHANGED <<contractVars, mailbox, relay>> /\ Write(To(c, <<Answer(k, FALSE)>>))
    BY <1>3, <2>1, <2>3 DEF RelayTypeOK
  <2> QED BY <2>1, <2>2, <2>3 DEF HostAsks
<1>6. CASE calls[k].kind = "note"
  <2>1. HostSends(c, k) /\ UNCHANGED serving BY <1>6 DEF HostTakesCall
  <2> DEFINE q == Message(c, calls[k].to, "note")
             F == WithReceipt(q, c, k)
  <2>2. CASE Accepted(q) /\ relay' = [relay EXCEPT ![k] = MsgId] /\ Write(F)
    <3>1. F \in [Children -> Seq(Frames)]
      BY ReceiptFrames
    <3>2. DownTypes' BY <2>2, <3>1, Written DEF DownTypes
    <3> QED BY <1>4, <2>1, <2>2, <3>2
  <2>3. CASE UNCHANGED <<contractVars, mailbox, relay>> /\ Write(To(c, Receipt(c, k, FALSE)))
    BY <1>3, <2>1, <2>3 DEF RelayTypeOK, Receipt
  <2> QED BY <2>1, <2>2, <2>3 DEF HostSends, WithReceipt
<1>7. CASE calls[k].kind = "read"
  <2>1. UNCHANGED <<contractVars, mailbox, relay>> /\ HostStartsReading(c, k) BY <1>7 DEF HostTakesCall
  <2>2. serving' \subseteq DOMAIN calls /\ (UNCHANGED down \/ Write(To(c, <<Answer(k, FALSE)>>)))
    BY <2>1 DEF HostStartsReading, RelayTypeOK
  <2> QED BY <1>3, <2>1, <2>2
<1> QED BY <1>1, <1>5, <1>6, <1>7 DEF HostTakesCall

LEMMA CancelsTypes ==
  ASSUME RelayTypeOK, NEW c \in Children, NEW k \in DOMAIN calls, calls[k].by = c,
         HostCancels(c, k), UNCHANGED <<supervisorSide, mailbox, conn, relay, host, childSide>>
  PROVE  BusMoves /\ HostTypes' /\ DownTypes'
<1>1. UNCHANGED calls /\ To(c, <<Answer(k, FALSE)>>) \in [Children -> Seq(Frames)]
  BY AnswerSent DEF childSide
<1>2. BusMoves
  <2>1. CASE OpenQuestion(k) /\ Close(relay[k], "aborted")
    <3>1. relay[k] \in DOMAIN asks BY <2>1 DEF OpenQuestion, RelayTypeOK
    <3> QED BY <2>1, <3>1, CloseMoves, RelayAssumption
  <2>2. CASE UNCHANGED contractVars BY <2>2, StillMoves
  <2> QED BY <2>1, <2>2 DEF HostCancels
<1>3. serving' \subseteq DOMAIN calls BY DEF HostCancels, RelayTypeOK
<1>4. HostTypes' BY <1>1, <1>2, <1>3, RelayStill DEF RelayTypeOK
<1>5. DownTypes' BY <1>1, ToNone, Written DEF HostCancels, DownTypes, RelayTypeOK
<1> QED BY <1>2, <1>4, <1>5

LEMMA HostReadsTypes ==
  ASSUME RelayTypeOK, UpFits, NEW c \in Children, HostReads(c)
  PROVE  RelayTypeOK' /\ BusMoves
<1> DEFINE f == Head(up[c])
<1>1. up[c] # <<>> /\ Take(c) /\ UNCHANGED <<host, childSide>> BY DEF HostReads
<1>2. UpTypes' /\ f = up[c][1] /\ 1 \in DOMAIN up[c] BY <1>1, TakeTypes
<1>3. f.t \in {"call", "cancel"} => f.n \in DOMAIN calls /\ calls[f.n].by = c
  BY <1>2 DEF UpFits
<1>4. ChildTypes' BY <1>1 DEF ChildTypes, RelayTypeOK, childSide
<1>5. CASE f.t = "register" /\ HostRegisters(c)
  BY <1>1, <1>2, <1>5, RegistersTypes, TypeParts
<1>6. CASE f.t = "call" /\ UNCHANGED <<supervisorSide, conn>> /\ HostTakesCall(c, f.n)
  <2>1. BusMoves /\ HostTypes' /\ DownTypes' BY <1>1, <1>3, <1>6, TakesTypes
  <2>2. SupervisorTypes' BY <1>1, <1>6 DEF SupervisorTypes, RelayTypeOK, supervisorSide
  <2> QED BY <1>2, <1>4, <2>1, <2>2, TypeParts
<1>7. CASE f.t = "cancel" /\ UNCHANGED <<supervisorSide, mailbox, conn, relay>> /\ HostCancels(c, f.n)
  <2>1. BusMoves /\ HostTypes' /\ DownTypes' BY <1>1, <1>3, <1>7, CancelsTypes
  <2>2. SupervisorTypes' BY <1>1, <1>7 DEF SupervisorTypes, RelayTypeOK, supervisorSide
  <2> QED BY <1>2, <1>4, <2>1, <2>2, TypeParts
<1>8. CASE HostDrops(c) /\ Write(NoFrames) /\ UNCHANGED <<leg, steered, relay>>
  <2>1. BusMoves /\ HostTypes' /\ SupervisorTypes' BY <1>1, <1>8, DropsTypes DEF childSide
  <2>2. DownTypes' BY <1>8, Written, ToNone DEF DownTypes
  <2> QED BY <1>2, <1>4, <2>1, <2>2, TypeParts
<1> QED BY <1>5, <1>6, <1>7, <1>8 DEF HostReads

\* Any step keeps the types, and closes questions or adds messages.
LEMMA TypeStep ==
  ASSUME RelayTypeOK, UpFits, [RelayNext]_relayVars
  PROVE  RelayTypeOK' /\ BusMoves
<1>1. CASE Ensure \/ HostUp \/ HostFails \/ UNCHANGED relayVars BY <1>1, QuietTypes
<1>2. CASE BrokerClose BY <1>2, BrokerCloseTypes
<1>3. ASSUME NEW c \in Children, NEW reader \in BOOLEAN, SpawnChild(c, reader)
      PROVE  RelayTypeOK' /\ BusMoves
  BY <1>3, SpawnTypes
<1>4. ASSUME NEW c \in Children,
             \/ RevokeReader(c) \/ LegSettles(c) \/ Steer(c) \/ SupervisorWrites(c)
             \/ HostReads(c) \/ HostSeesClose(c)
      PROVE  RelayTypeOK' /\ BusMoves
  BY <1>4, RevokeReaderTypes, LegSettlesTypes, SteerTypes, SupervisorWritesTypes, HostReadsTypes, SeesCloseTypes
<1>5. ASSUME NEW c \in Children, Connects(c) \/ ChildSeesClose(c) \/ ChildReads(c) \/ \E bye \in BOOLEAN : ChildGoes(c, bye)
      PROVE  RelayTypeOK' /\ BusMoves
  BY <1>5, ConnectsTypes, ChildLeavesTypes, ReadsTypes
<1>6. ASSUME NEW c \in Children, NEW kind \in CallKinds, NEW to \in Names, ChildCalls(c, kind, to)
      PROVE  RelayTypeOK' /\ BusMoves
  BY <1>6, CallsTypes
<1>7. ASSUME NEW i \in DOMAIN asks, NEW r \in {"replied", "timeout"}, Settles(i, r)
      PROVE  RelayTypeOK' /\ BusMoves
  BY <1>7, SettlesTypes
<1>8. ASSUME NEW k \in DOMAIN calls, ChildGivesUp(k) \/ \E ok \in BOOLEAN : HostAnswersRead(k, ok)
      PROVE  RelayTypeOK' /\ BusMoves
  BY <1>8, GivesUpTypes, AnswersReadTypes
<1> QED BY <1>1, <1>2, <1>3, <1>4, <1>5, <1>6, <1>7, <1>8, RelayAssumption DEF RelayNext, CallKinds

---------------------------------------------------------------------------
(* The invariant of the calls.                                             *)

\* Where a leg, its child and their connection stand together.
StagesFit ==
  \A c \in Children :
    /\ leg[c] = "none" => cli[c] = "off"
    /\ cli[c] \in {"off", "dialing"} => conn[c] = "none" /\ \A k \in DOMAIN calls : calls[k].by # c
    /\ grant[c] = "bound" => conn[c] = "bound"
    /\ conn[c] \in {"none", "open"} => down[c] = <<>>
    /\ conn[c] = "ended" => up[c] = <<>>

\* An answer is on the connection of the child that called.
DownFits ==
  \A c \in Children : \A f \in ToSet(down[c]) :
    f.t = "answer" => f.n \in DOMAIN calls /\ calls[f.n].by = c

\* What the host holds for a call is of the call's kind and maker.
HeldFor(k) ==
  /\ k \in serving => calls[k].kind = "read" /\ ~Answered(k)
  /\ relay[k] # 0 =>
       /\ calls[k].kind # "read"
       /\ asks[relay[k]].from = calls[k].by
       /\ calls[k].kind = "note" <=> asks[relay[k]].phase = "note"

\* A call on its way is nowhere else, and its cancellation comes after it.
OnItsWay(k) ==
  LET s == up[calls[k].by]
      call == Frame("call", k, TRUE)
      cancel == Frame("cancel", k, TRUE) IN
  \A i \in DOMAIN s : s[i] = call =>
    /\ relay[k] = 0 /\ k \notin serving /\ ~Answered(k)
    /\ calls[k].kind = "note" \/ calls[k].state = "pending" \/ Cancelled(k) \/ cli[calls[k].by] = "offline"
    /\ \A j \in DOMAIN s : (s[j] = call => i = j) /\ (s[j] = cancel => i < j)

\* What CallsAgree says of one call.
Agrees(k) ==
  LET c == calls[k].by IN
  /\ calls[k].state = "pending" =>
       /\ cli[c] = "online"
       /\ Asked(k) \/ OpenAtHost(k) \/ Answered(k) \/ conn[c] = "ended"
  /\ OpenAtHost(k) =>
       /\ conn[c] = "bound"
       /\ k \in serving => grant[c] = "bound"
       /\ calls[k].state = "pending" \/ Cancelled(k) \/ cli[c] = "offline"

\* Is an answer to k true, and will it stay so?
True(k, ok) ==
  IF ok
  THEN /\ calls[k].kind = "ask" => relay[k] # 0 /\ asks[relay[k]].phase = "replied"
       /\ calls[k].kind = "note" => relay[k] # 0
  ELSE relay[k] = 0 \/ asks[relay[k]].phase \notin {"note", "waiting", "replied"}

TruthTold(k) ==
  /\ calls[k].state = "answered" => True(k, TRUE)
  /\ \A ok \in BOOLEAN : Answer(k, ok) \in ToSet(down[calls[k].by]) => True(k, ok)

CallFits(k) == HeldFor(k) /\ OnItsWay(k) /\ Agrees(k) /\ TruthTold(k)

RelayInv ==
  /\ RelayTypeOK /\ StagesFit /\ UpFits /\ DownFits
  /\ \A k \in DOMAIN calls : CallFits(k)

LEMMA InvMeans == RelayInv => CallsAgree /\ OutcomesAreTrue
<1> SUFFICES ASSUME RelayInv PROVE CallsAgree /\ OutcomesAreTrue OBVIOUS
<1>1. CallsAgree BY DEF RelayInv, CallFits, Agrees, CallsAgree
<1>2. \A k \in DOMAIN calls : TruthTold(k) BY DEF RelayInv, CallFits
<1>3. OutcomesAreTrue BY <1>2 DEF TruthTold, True, OutcomesAreTrue, Reported
<1> QED BY <1>1, <1>3

LEMMA InvStarts == RelayInit => RelayInv
<1> SUFFICES ASSUME RelayInit PROVE RelayInv OBVIOUS
<1>1. \A S : NoFrames \in [Children -> Seq(S)] BY Nothing DEF NoFrames
<1>2. <<>> \in Seq(Questions) /\ <<>> \in Seq(Calls) /\ <<>> \in Seq(Nat) /\ DOMAIN <<>> = {} BY Nothing
<1>3. RelayTypeOK BY <1>1, <1>2, RelayAssumption DEF RelayInit, RelayTypeOK
<1>4. \A c \in Children : up[c] = <<>> /\ down[c] = <<>> /\ ToSet(down[c]) = {}
  BY Nothing DEF RelayInit, NoFrames
<1>5. StagesFit BY <1>4 DEF RelayInit, StagesFit
<1>6. UpFits /\ DownFits BY <1>2, <1>4 DEF UpFits, DownFits
<1> QED BY <1>2, <1>3, <1>5, <1>6 DEF RelayInv, RelayInit

\* The frames to the host that a step leaves on the wire keep their order; it
\* takes the first one, or all of them with the connection.  The one it takes is
\* about k only when it cancels it.
UpKept(k) ==
  LET c == calls[k].by
      call == Frame("call", k, TRUE)
      cancel == Frame("cancel", k, TRUE) IN
  \/ up'[c] = <<>> /\ conn'[c] = "ended"
  \/ /\ \E d \in {0, 1} : \A i \in DOMAIN up'[c] : i + d \in DOMAIN up[c] /\ up'[c][i] = up[c][i + d]
     /\ \A f \in {call, cancel} : f \in ToSet(up[c]) => f \in ToSet(up'[c])
  \/ ~Asked(k) /\ ~Asked(k)' /\ ~OpenAtHost(k)'

\* A step of the host or the supervisor that does not take call k.
Undisturbed(k) ==
  LET c == calls[k].by IN
  /\ k \in DOMAIN calls' /\ calls'[k] = calls[k] /\ relay'[k] = relay[k] /\ cli'[c] = cli[c]
  /\ conn'[c] \in {conn[c], "ended"} \/ conn[c] = "open"
  /\ UpKept(k)
  /\ ToSet(down[c]) \subseteq ToSet(down'[c])
  /\ \A ok \in BOOLEAN : Answer(k, ok) \in ToSet(down'[c]) =>
        \/ Answer(k, ok) \in ToSet(down[c])
        \/ OpenQuestion(k) /\ ~OpenQuestion(k)' /\ ok = (asks'[relay[k]].phase = "replied")
        \/ k \in serving /\ k \notin serving' /\ True(k, ok)'
  /\ k \in serving' => k \in serving /\ conn'[c] = conn[c] /\ grant'[c] = grant[c]
  /\ OpenQuestion(k)' => conn'[c] = conn[c]
  /\ OpenAtHost(k) => OpenAtHost(k)' \/ Answered(k)' \/ conn'[c] = "ended" \/ cli[c] = "offline"

LEMMA FrameSets ==
  ASSUME RelayTypeOK, NEW c \in Children
  PROVE  /\ \A f \in ToSet(down[c]) : f \in Frames
         /\ \A k : (\E f \in ToSet(down[c]) : f.t = "answer" /\ f.n = k) <=>
                   (\E ok \in BOOLEAN : Answer(k, ok) \in ToSet(down[c]))
<1>1. \A f \in ToSet(down[c]) : f \in Frames BY Element DEF RelayTypeOK
<1>2. \A f \in Frames : f.t = "answer" => f = Answer(f.n, f.ok) /\ f.ok \in BOOLEAN
  BY DEF Frames, Answer, Frame
<1>3. \A k, ok : Answer(k, ok).t = "answer" /\ Answer(k, ok).n = k BY DEF Answer, Frame
<1> QED BY <1>1, <1>2, <1>3

LEMMA AnsweredMeans ==
  ASSUME RelayTypeOK, NEW k \in DOMAIN calls
  PROVE  Answered(k) <=> \E ok \in BOOLEAN : Answer(k, ok) \in ToSet(down[calls[k].by])
BY AskTypes, FrameSets DEF Answered

LEMMA AnsweredNext ==
  ASSUME RelayTypeOK', NEW k \in DOMAIN calls'
  PROVE  Answered(k)' <=> \E ok \in BOOLEAN : Answer(k, ok) \in ToSet(down'[calls'[k].by])
<1>1. calls'[k].by \in Children
  <2>1. calls' \in Seq(Calls) BY DEF RelayTypeOK
  <2>2. calls'[k] \in Calls BY <2>1, LenProperties, ElementOfSeq
  <2> QED BY <2>2 DEF Calls
<1>2. down'[calls'[k].by] \in Seq(Frames) BY <1>1 DEF RelayTypeOK
<1>3. \A f \in ToSet(down'[calls'[k].by]) : f \in Frames BY <1>2, Element
<1>4. \A f \in Frames : f.t = "answer" => f = Answer(f.n, f.ok) /\ f.ok \in BOOLEAN
  BY DEF Frames, Answer, Frame
<1>5. \A ok : Answer(k, ok).t = "answer" /\ Answer(k, ok).n = k BY DEF Answer, Frame
<1> QED BY <1>3, <1>4, <1>5 DEF Answered

\* What is true of an answer stays true.
LEMMA TrueStays ==
  ASSUME RelayTypeOK, BusMoves, NEW k \in DOMAIN calls, NEW ok \in BOOLEAN, True(k, ok), HeldFor(k),
         k \in DOMAIN calls', calls'[k].kind = calls[k].kind, relay'[k] = relay[k]
  PROVE  True(k, ok)'
<1>1. relay[k] # 0 => relay[k] \in DOMAIN asks BY AskTypes DEF RelayTypeOK
<1>2. relay[k] # 0 => asks'[relay[k]].phase = asks[relay[k]].phase \/ asks[relay[k]].phase = "waiting"
  BY <1>1 DEF BusMoves, IsWaiting
<1>3. relay[k] # 0 /\ ~ok => asks'[relay[k]].phase = asks[relay[k]].phase BY <1>2 DEF True
<1> QED BY <1>2, <1>3 DEF True

LEMMA UndisturbedFits ==
  ASSUME RelayTypeOK, RelayTypeOK', BusMoves, NEW k \in DOMAIN calls, CallFits(k), Undisturbed(k)
  PROVE  CallFits(k)'
<1> DEFINE c == calls[k].by
<1>1. k \in DOMAIN calls' /\ calls'[k] = calls[k] /\ relay'[k] = relay[k] /\ cli'[c] = cli[c] BY DEF Undisturbed
<1>2. relay[k] # 0 => relay[k] \in DOMAIN asks BY AskTypes DEF RelayTypeOK
<1>3. {"note", "waiting"} \cap Reasons = {} BY RelayAssumption
<1>5. OpenQuestion(k)' => OpenQuestion(k)
  BY <1>1, <1>2, <1>3 DEF OpenQuestion, BusMoves, IsWaiting
<1>6. OpenAtHost(k)' => OpenAtHost(k) /\ conn'[c] = conn[c]
  BY <1>5 DEF OpenAtHost, Undisturbed
<1>7. Answered(k) => Answered(k)'
  BY <1>1 DEF Undisturbed, Answered
<1>8. Answered(k)' => Answered(k) \/ OpenQuestion(k) \/ (k \in serving /\ k \notin serving')
  BY <1>1, AnsweredMeans, AnsweredNext DEF Undisturbed
<1>4. HeldFor(k)'
  <2>1. k \in serving' => calls'[k].kind = "read" /\ ~Answered(k)'
    BY <1>1, <1>8 DEF HeldFor, Undisturbed, CallFits, OpenQuestion
  <2>2. relay'[k] # 0 =>
          /\ calls'[k].kind # "read" /\ asks'[relay'[k]].from = calls'[k].by
          /\ calls'[k].kind = "note" <=> asks'[relay'[k]].phase = "note"
    BY <1>1, <1>2, <1>3 DEF HeldFor, BusMoves, CallFits, IsWaiting
  <2> QED BY <2>1, <2>2 DEF HeldFor
<1>9. Asked(k) => Asked(k)' \/ conn'[c] = "ended"
  BY <1>1 DEF Undisturbed, UpKept, Asked
<1>10. Cancelled(k) => Cancelled(k)' \/ conn'[c] = "ended" \/ ~OpenAtHost(k)'
  BY <1>1 DEF Undisturbed, UpKept, Cancelled
<1>11. Agrees(k)'
  <2>1. calls'[k].state = "pending" =>
          cli'[c] = "online" /\ (Asked(k)' \/ OpenAtHost(k)' \/ Answered(k)' \/ conn'[c] = "ended")
    BY <1>1, <1>7, <1>9 DEF Agrees, CallFits, Undisturbed
  <2>2. OpenAtHost(k)' =>
          /\ conn'[c] = "bound"
          /\ k \in serving' => grant'[c] = "bound"
          /\ calls'[k].state = "pending" \/ Cancelled(k)' \/ cli'[c] = "offline"
    BY <1>1, <1>6, <1>10 DEF Agrees, CallFits, Undisturbed
  <2> QED BY <1>1, <2>1, <2>2 DEF Agrees
<1>12. TruthTold(k)'
  <2>1. calls'[k].state = "answered" => True(k, TRUE)'
    BY <1>1, TrueStays DEF CallFits, TruthTold
  <2>2. ASSUME NEW ok \in BOOLEAN, Answer(k, ok) \in ToSet(down'[c]) PROVE True(k, ok)'
    <3>1. CASE Answer(k, ok) \in ToSet(down[c]) BY <1>1, <3>1, TrueStays DEF CallFits, TruthTold
    <3>2. CASE OpenQuestion(k) /\ ~OpenQuestion(k)' /\ ok = (asks'[relay[k]].phase = "replied")
      <4>1. relay[k] # 0 /\ IsWaiting(relay[k]) /\ relay'[k] = relay[k] /\ ~IsWaiting(relay[k])'
        BY <1>1, <3>2 DEF OpenQuestion, IsWaiting
      <4>2. asks'[relay[k]].phase # "waiting" /\ asks'[relay[k]].phase # "note"
        BY <1>2, <1>3, <4>1 DEF BusMoves, IsWaiting
      <4>3. calls[k].kind # "note" BY <4>1 DEF CallFits, HeldFor, IsWaiting
      <4> QED BY <1>1, <3>2, <4>1, <4>2, <4>3 DEF True
    <3> QED BY <2>2, <3>1, <3>2 DEF Undisturbed
  <2> QED BY <1>1, <2>1, <2>2 DEF TruthTold
<1>13. OnItsWay(k)'
  <2> DEFINE call == Frame("call", k, TRUE)
             cancel == Frame("cancel", k, TRUE)
  <2>1. CASE up'[c] = <<>>
    BY <1>1, <2>1, Nothing DEF OnItsWay
  <2>3. CASE ~Asked(k)'
    <3>1. \A i \in DOMAIN up'[c] : up'[c][i] # call BY <1>1, <2>3 DEF Asked, ToSet
    <3> QED BY <1>1, <3>1 DEF OnItsWay
  <2>2. CASE up'[c] # <<>> /\ Asked(k)'
    <3>1. PICK d \in {0, 1} : \A i \in DOMAIN up'[c] : i + d \in DOMAIN up[c] /\ up'[c][i] = up[c][i + d]
      BY <2>2 DEF Undisturbed, UpKept
    <3>2. Cancelled(k) => Cancelled(k)' BY <1>1, <2>2 DEF Undisturbed, UpKept, Cancelled
    <3>3. up'[c] \in Seq(Requests) /\ DOMAIN up'[c] \subseteq Nat
      <4>1. c \in Children BY AskTypes
      <4>2. up'[c] \in Seq(Requests) BY <4>1 DEF RelayTypeOK
      <4> QED BY <4>2, Element
    <3>4. ASSUME NEW i \in DOMAIN up'[c], up'[c][i] = call
          PROVE  /\ relay'[k] = 0 /\ k \notin serving' /\ ~Answered(k)'
                 /\ calls[k].kind = "note" \/ calls[k].state = "pending" \/ Cancelled(k)' \/ cli[c] = "offline"
                 /\ \A j \in DOMAIN up'[c] : (up'[c][j] = call => i = j) /\ (up'[c][j] = cancel => i < j)
      <4>1. i + d \in DOMAIN up[c] /\ up[c][i + d] = call BY <3>1, <3>4
      <4>2. /\ relay[k] = 0 /\ k \notin serving /\ ~Answered(k)
            /\ calls[k].kind = "note" \/ calls[k].state = "pending" \/ Cancelled(k) \/ cli[c] = "offline"
            /\ \A j \in DOMAIN up[c] : (up[c][j] = call => i + d = j) /\ (up[c][j] = cancel => i + d < j)
        BY <4>1 DEF CallFits, OnItsWay
      <4>3. k \notin serving' BY <4>2 DEF Undisturbed
      <4>4. ~Answered(k)' BY <1>8, <4>2 DEF OpenQuestion
      <4>5. ASSUME NEW j \in DOMAIN up'[c]
            PROVE  (up'[c][j] = call => i = j) /\ (up'[c][j] = cancel => i < j)
        <5>1. j + d \in DOMAIN up[c] /\ up'[c][j] = up[c][j + d] BY <3>1
        <5>2. (up'[c][j] = call => i + d = j + d) /\ (up'[c][j] = cancel => i + d < j + d)
          BY <4>2, <5>1
        <5>3. i \in Nat /\ j \in Nat /\ d \in Nat BY <3>3
        <5>4. (i + d = j + d => i = j) /\ (i + d < j + d => i < j) BY <5>3
        <5> QED BY <5>2, <5>4
      <4> QED BY <1>1, <3>2, <4>2, <4>3, <4>4, <4>5
    <3> QED BY <1>1, <3>4 DEF OnItsWay
  <2> QED BY <2>1, <2>2, <2>3
<1> QED BY <1>4, <1>11, <1>12, <1>13 DEF CallFits

LEMMA SameAnswer ==
  \A k, j, a, b : Answer(k, a) = Answer(j, b) => k = j /\ a = b
BY DEF Answer, Frame

\* What the host writes says of a call the step is not about.
LEMMA HostWrote ==
  ASSUME RelayTypeOK, RelayTypeOK', BusMoves, NEW k \in DOMAIN calls,
         NEW frames \in [Children -> Seq(Frames)], Write(frames),
         calls' = calls, relay'[k] = relay[k],
         \A ok \in BOOLEAN : Answer(k, ok) \notin ToSet(frames[calls[k].by])
  PROVE  LET c == calls[k].by IN
         /\ ToSet(down[c]) \subseteq ToSet(down'[c])
         /\ \A ok \in BOOLEAN : Answer(k, ok) \in ToSet(down'[c]) =>
               \/ Answer(k, ok) \in ToSet(down[c])
               \/ OpenQuestion(k) /\ ~OpenQuestion(k)' /\ ok = (asks'[relay[k]].phase = "replied")
         /\ OpenQuestion(k) =>
               OpenQuestion(k)' \/ Answered(k)' \/ conn'[c] # "bound" \/ cli[c] = "offline"
<1> DEFINE c == calls[k].by
<1>1. c \in Children BY AskTypes
<1>2. ~Reaches(c) => down'[c] = down[c] BY <1>1, Written
<1>3. Reaches(c) =>
        /\ ToSet(down'[c]) = ToSet(down[c]) \cup ToSet(frames[c]) \cup ToSet(AnswersTo(c))
        /\ ToSet(AnswersTo(c)) = {Answer(j, asks'[relay[j]].phase = "replied") : j \in SettledNow(c)}
  BY <1>1, Written
<1>4. ToSet(down[c]) \subseteq ToSet(down'[c]) BY <1>2, <1>3
<1>5. ASSUME NEW ok \in BOOLEAN, Answer(k, ok) \in ToSet(down'[c]), Answer(k, ok) \notin ToSet(down[c])
      PROVE  OpenQuestion(k) /\ ~OpenQuestion(k)' /\ ok = (asks'[relay[k]].phase = "replied")
  <2>1. Reaches(c) /\ Answer(k, ok) \in ToSet(AnswersTo(c)) BY <1>2, <1>3, <1>5
  <2>2. PICK j \in SettledNow(c) : Answer(k, ok) = Answer(j, asks'[relay[j]].phase = "replied")
    BY <1>3, <2>1
  <2>3. j = k /\ ok = (asks'[relay[j]].phase = "replied") BY <2>2, SameAnswer
  <2>4. relay[k] # 0 /\ IsWaiting(relay[k]) /\ asks'[relay[k]].phase # "waiting"
    BY <2>3 DEF SettledNow, RelayedFor
  <2> QED BY <2>3, <2>4 DEF OpenQuestion, IsWaiting
<1>6. ASSUME OpenQuestion(k), ~OpenQuestion(k)', conn'[c] = "bound", cli[c] # "offline"
      PROVE  Answered(k)'
  <2>1. k \in SettledNow(c) BY <1>6 DEF OpenQuestion, SettledNow, RelayedFor, IsWaiting
  <2>2. Answer(k, asks'[relay[k]].phase = "replied") \in ToSet(down'[c])
    BY <1>3, <1>6, <2>1 DEF Reaches
  <2> QED BY <2>2 DEF Answered, Answer, Frame
<1> QED BY <1>4, <1>5, <1>6

LEMMA UpSame ==
  ASSUME RelayTypeOK, NEW k \in DOMAIN calls, up'[calls[k].by] = up[calls[k].by]
  PROVE  UpKept(k)
<1> DEFINE c == calls[k].by
<1>1. up[c] \in Seq(Requests) BY AskTypes DEF RelayTypeOK
<1>2. \A i \in DOMAIN up[c] : i + 0 = i BY <1>1, Element
<1>3. \E d \in {0, 1} : \A i \in DOMAIN up'[c] : i + d \in DOMAIN up[c] /\ up'[c][i] = up[c][i + d]
  BY <1>2
<1> QED BY <1>3 DEF UpKept

LEMMA UpCut ==
  ASSUME RelayTypeOK, NEW k \in DOMAIN calls, Cut
  PROVE  UpKept(k)
<1>1. CASE conn'[calls[k].by] = "ended" BY <1>1, AskTypes DEF Cut, UpKept
<1>2. CASE conn'[calls[k].by] # "ended"
  <2>1. up'[calls[k].by] = up[calls[k].by] BY <1>2, AskTypes DEF Cut
  <2> QED BY <2>1, UpSame
<1> QED BY <1>1, <1>2

\* The host takes a frame that is not about k.
LEMMA UpTaken ==
  ASSUME RelayTypeOK, NEW k \in DOMAIN calls, NEW c \in Children, up[c] # <<>>, Take(c),
         \/ Head(up[c]).t \notin {"call", "cancel"} \/ Head(up[c]).n # k
  PROVE  UpKept(k)
<1> DEFINE s == up[c]
<1>1. CASE calls[k].by # c
  BY <1>1, AskTypes, TakeTypes, UpSame
<1>2. CASE calls[k].by = c /\ conn'[c] = "ended"
  BY <1>2, TakeTypes DEF UpKept
<1>3. CASE calls[k].by = c /\ conn'[c] # "ended"
  <2>1. s \in Seq(Requests) BY DEF RelayTypeOK
  <2>2. up'[c] = Tail(s) BY <1>3, TakeTypes
  <2>3. /\ \A i \in DOMAIN Tail(s) : Tail(s)[i] = s[i + 1] /\ i + 1 \in DOMAIN s
        /\ ToSet(s) = {Head(s)} \cup ToSet(Tail(s))
    BY <2>1, TailOf
  <2>4. Head(s) # Frame("call", k, TRUE) /\ Head(s) # Frame("cancel", k, TRUE) BY DEF Frame
  <2>5. \E d \in {0, 1} : \A i \in DOMAIN up'[c] : i + d \in DOMAIN up[c] /\ up'[c][i] = up[c][i + d]
    BY <2>2, <2>3
  <2> QED BY <1>3, <2>2, <2>3, <2>4, <2>5 DEF UpKept
<1> QED BY <1>1, <1>2, <1>3

\* Steps that touch neither a call nor its maker's connection and wires.
LEMMA QuietFits ==
  ASSUME RelayTypeOK, RelayTypeOK', BusMoves, NEW k \in DOMAIN calls, CallFits(k),
         k \in DOMAIN calls', calls'[k] = calls[k], relay'[k] = relay[k], UNCHANGED <<asks, serving>>,
         LET c == calls[k].by IN
           cli'[c] = cli[c] /\ conn'[c] = conn[c] /\ grant'[c] = grant[c] /\ up'[c] = up[c] /\ down'[c] = down[c]
  PROVE  CallFits(k)'
<1>1. UpKept(k) BY UpSame
<1>2. OpenQuestion(k)' <=> OpenQuestion(k) BY DEF OpenQuestion, IsWaiting
<1>3. Undisturbed(k) BY <1>1, <1>2 DEF Undisturbed, OpenAtHost
<1> QED BY <1>3, UndisturbedFits

\* Teardown: what Depart and Disconnect leave of a call.
LEMMA TornFits ==
  ASSUME RelayTypeOK, RelayTypeOK', NEW k \in DOMAIN calls, CallFits(k), StagesFit,
         NEW C \in SUBSET Children, NEW A \in SUBSET Children, NEW D \in SUBSET Children,
         Depart(C, A), Disconnect(D), Write(NoFrames), UpKept(k),
         UNCHANGED <<calls, relay, cli>>,
         \* whoever's connection ends has its questions closed
         calls[k].by \in D /\ conn[calls[k].by] = "bound" => calls[k].by \in C \cup A,
         \* a bound grant is revoked with its connection only
         calls[k].by \notin D => grant'[calls[k].by] = grant[calls[k].by] \/ grant[calls[k].by] # "bound"
  PROVE  CallFits(k)'
<1> DEFINE c == calls[k].by
<1>1. BusMoves /\ \A i \in DOMAIN asks : asks[i].from \in C \/ i \in RelayedOf(A) => ~IsWaiting(i)'
  BY DepartMoves
<1>2. c \in Children BY AskTypes
<1>3. relay[k] # 0 => relay[k] \in DOMAIN asks /\ asks[relay[k]].from = c
  BY AskTypes DEF RelayTypeOK, CallFits, HeldFor
<1>4. \A ok \in BOOLEAN : Answer(k, ok) \notin ToSet(NoFrames[c]) BY <1>2, ToNone, Nothing
<1>5. /\ ToSet(down[c]) \subseteq ToSet(down'[c])
      /\ \A ok \in BOOLEAN : Answer(k, ok) \in ToSet(down'[c]) =>
               \/ Answer(k, ok) \in ToSet(down[c])
               \/ OpenQuestion(k) /\ ~OpenQuestion(k)' /\ ok = (asks'[relay[k]].phase = "replied")
      /\ OpenQuestion(k) =>
               OpenQuestion(k)' \/ Answered(k)' \/ conn'[c] # "bound" \/ cli[c] = "offline"
  BY <1>1, <1>4, ToNone, HostWrote
<1>6. conn'[c] = (IF c \in D THEN "ended" ELSE conn[c]) /\ (k \in serving' <=> k \in serving /\ c \notin D)
  BY <1>2 DEF Disconnect
<1>7. OpenQuestion(k)' => OpenQuestion(k)
  BY <1>1, <1>3, RelayAssumption DEF OpenQuestion, BusMoves, IsWaiting
<1>8. OpenAtHost(k) => conn[c] = "bound" /\ (k \in serving => grant[c] = "bound")
  BY DEF CallFits, Agrees
<1>9. OpenQuestion(k)' => conn'[c] = conn[c]
  <2> SUFFICES ASSUME OpenQuestion(k)', c \in D PROVE FALSE BY <1>6
  <2>1. relay[k] # 0 /\ IsWaiting(relay[k])' /\ conn[c] = "bound" BY <1>7, <1>8 DEF OpenQuestion, OpenAtHost, IsWaiting
  <2>2. c \in C \cup A BY <2>1
  <2>3. c \in A => relay[k] \in RelayedOf(A) BY <2>1 DEF RelayedOf, RelayedFor
  <2> QED BY <1>1, <1>3, <2>1, <2>2, <2>3
<1>10. k \in serving' => grant'[c] = grant[c] BY <1>6, <1>8 DEF OpenAtHost
<1>11. OpenAtHost(k) => OpenAtHost(k)' \/ Answered(k)' \/ conn'[c] = "ended" \/ cli[c] = "offline"
  BY <1>5, <1>6, <1>8 DEF OpenAtHost
<1>12. Undisturbed(k)
  BY <1>5, <1>6, <1>9, <1>10, <1>11 DEF Undisturbed
<1> QED BY <1>1, <1>12, UndisturbedFits

\* Steps that write to the children and change no connection.
LEMMA SaidFits ==
  ASSUME RelayTypeOK, RelayTypeOK', BusMoves, NEW k \in DOMAIN calls, CallFits(k), StagesFit,
         NEW frames \in [Children -> Seq(Frames)], Write(frames) \/ UNCHANGED <<down, asks>>, UpKept(k),
         \A ok \in BOOLEAN : Answer(k, ok) \notin ToSet(frames[calls[k].by]),
         UNCHANGED <<calls, cli, conn>>, relay'[k] = relay[k], k \in serving' <=> k \in serving,
         grant'[calls[k].by] = grant[calls[k].by] \/ grant[calls[k].by] # "bound"
  PROVE  CallFits(k)'
<1> DEFINE c == calls[k].by
<1>1. c \in Children BY AskTypes
<1>2. /\ ToSet(down[c]) \subseteq ToSet(down'[c])
      /\ \A ok \in BOOLEAN : Answer(k, ok) \in ToSet(down'[c]) =>
               \/ Answer(k, ok) \in ToSet(down[c])
               \/ OpenQuestion(k) /\ ~OpenQuestion(k)' /\ ok = (asks'[relay[k]].phase = "replied")
      /\ OpenQuestion(k) =>
               OpenQuestion(k)' \/ Answered(k)' \/ conn'[c] # "bound" \/ cli[c] = "offline"
  <2>1. CASE Write(frames) BY <2>1, HostWrote
  <2>2. CASE UNCHANGED <<down, asks>> BY <2>2 DEF OpenQuestion, IsWaiting
  <2> QED BY <2>1, <2>2
<1>3. OpenAtHost(k) => conn[c] = "bound" BY DEF CallFits, Agrees
<1>4. OpenAtHost(k) => OpenAtHost(k)' \/ Answered(k)' \/ conn'[c] = "ended" \/ cli[c] = "offline"
  BY <1>2, <1>3 DEF OpenAtHost
<1>5. k \in serving' => grant'[c] = grant[c] BY DEF CallFits, Agrees, OpenAtHost
<1>6. Undisturbed(k) BY <1>2, <1>4, <1>5 DEF Undisturbed
<1> QED BY <1>6, UndisturbedFits

\* A sequence with something behind it that is not f.
LEMMA Extended ==
  ASSUME NEW S, NEW u \in Seq(S), NEW s \in Seq(S), NEW f, f \notin ToSet(s)
  PROVE  /\ DOMAIN u \subseteq DOMAIN (u \o s) /\ \A i \in DOMAIN u : (u \o s)[i] = u[i]
         /\ \A i \in DOMAIN (u \o s) : i \in DOMAIN u \/ ((u \o s)[i] # f /\ \A j \in DOMAIN u : j < i)
         /\ ToSet(u) \subseteq ToSet(u \o s)
<1>1. /\ Len(u) \in Nat /\ Len(s) \in Nat /\ DOMAIN (u \o s) = 1..(Len(u) + Len(s))
      /\ \A i \in DOMAIN u : (u \o s)[i] = u[i]
      /\ \A i \in DOMAIN s : (u \o s)[Len(u) + i] = s[i]
      /\ ToSet(u \o s) = ToSet(u) \cup ToSet(s)
  BY Concat
<1>2. DOMAIN u = 1..Len(u) /\ DOMAIN s = 1..Len(s) BY Element
<1>3. ASSUME NEW i \in DOMAIN (u \o s), i \notin DOMAIN u
      PROVE  (u \o s)[i] # f /\ \A j \in DOMAIN u : j < i
  <2>1. i \in Nat /\ i - Len(u) \in DOMAIN s /\ Len(u) + (i - Len(u)) = i BY <1>1, <1>2, <1>3
  <2>2. (u \o s)[i] = s[i - Len(u)] BY <1>1, <2>1
  <2>3. s[i - Len(u)] \in ToSet(s) BY <2>1 DEF ToSet
  <2>4. \A j \in DOMAIN u : j < i BY <1>1, <1>2, <1>3
  <2> QED BY <2>2, <2>3, <2>4
<1>4. DOMAIN u \subseteq DOMAIN (u \o s) BY <1>1, <1>2
<1> QED BY <1>1, <1>3, <1>4

\* Steps of the child, for the calls it made before.
LEMMA ChildFits ==
  ASSUME RelayTypeOK, RelayTypeOK', BusMoves, NEW k \in DOMAIN calls, CallFits(k), k \in DOMAIN calls',
         calls'[k].by = calls[k].by, calls'[k].kind = calls[k].kind, relay'[k] = relay[k],
         UNCHANGED <<asks, serving, conn, grant>>,
         LET c == calls[k].by IN
         /\ ToSet(down'[c]) \subseteq ToSet(down[c])
         /\ conn[c] = "ended" => up'[c] = <<>>
         /\ \/ conn[c] = "ended" \/ up'[c] = up[c]
            \/ \E s \in Seq(Requests) : up'[c] = up[c] \o s /\ Frame("call", k, TRUE) \notin ToSet(s)
         /\ cli[c] = "offline" => cli'[c] = "offline"
         /\ calls'[k].state = "pending" =>
              calls[k].state = "pending" /\ cli'[c] = "online" /\ (Answered(k) => Answered(k)')
         /\ calls[k].state = "pending" =>
              \/ calls'[k].state = "pending" \/ calls[k].kind = "note"
              \/ conn[c] = "ended" \/ Cancelled(k)' \/ cli'[c] = "offline" \/ Answered(k)
         /\ calls'[k].state = "answered" => calls[k].state = "answered" \/ True(k, TRUE)
  PROVE  CallFits(k)'
<1> DEFINE c == calls[k].by
           call == Frame("call", k, TRUE)
           cancel == Frame("cancel", k, TRUE)
<1>1. c \in Children /\ up[c] \in Seq(Requests) BY AskTypes DEF RelayTypeOK
<1>2. relay[k] # 0 => relay[k] \in DOMAIN asks BY AskTypes DEF RelayTypeOK
<1>4. (OpenAtHost(k)' <=> OpenAtHost(k)) /\ (OpenQuestion(k)' <=> OpenQuestion(k))
  BY DEF OpenAtHost, OpenQuestion, IsWaiting
<1>5. conn[c] # "ended" =>
        /\ DOMAIN up[c] \subseteq DOMAIN up'[c] /\ \A i \in DOMAIN up[c] : up'[c][i] = up[c][i]
        /\ \A i \in DOMAIN up'[c] : i \in DOMAIN up[c] \/ (up'[c][i] # call /\ \A j \in DOMAIN up[c] : j < i)
        /\ ToSet(up[c]) \subseteq ToSet(up'[c])
  <2>1. CASE up'[c] = up[c] BY <2>1
  <2>2. ASSUME NEW s \in Seq(Requests), up'[c] = up[c] \o s, call \notin ToSet(s)
        PROVE  /\ DOMAIN up[c] \subseteq DOMAIN up'[c] /\ \A i \in DOMAIN up[c] : up'[c][i] = up[c][i]
               /\ \A i \in DOMAIN up'[c] : i \in DOMAIN up[c] \/ (up'[c][i] # call /\ \A j \in DOMAIN up[c] : j < i)
               /\ ToSet(up[c]) \subseteq ToSet(up'[c])
    <3> DEFINE u == up[c]
               v == up'[c]
    <3>1. u \in Seq(Requests) /\ s \in Seq(Requests) /\ v = u \o s /\ call \notin ToSet(s) BY <1>1, <2>2
    <3> HIDE DEF u, v, call
    <3>2. /\ DOMAIN u \subseteq DOMAIN (u \o s) /\ \A i \in DOMAIN u : (u \o s)[i] = u[i]
          /\ \A i \in DOMAIN (u \o s) : i \in DOMAIN u \/ ((u \o s)[i] # call /\ \A j \in DOMAIN u : j < i)
          /\ ToSet(u) \subseteq ToSet(u \o s)
      BY <3>1, Extended
    <3> QED BY <3>1, <3>2 DEF u, v
  <2> QED BY <2>1, <2>2
<1>6. conn[c] # "ended" => (Asked(k) => Asked(k)') /\ (Cancelled(k) => Cancelled(k)')
  BY <1>5 DEF Asked, Cancelled
<1>7. Answered(k)' => Answered(k) BY DEF Answered
<1>3. HeldFor(k)' BY <1>7 DEF HeldFor, CallFits
<1>8. Agrees(k)'
  <2>1. calls'[k].state = "pending" =>
          cli'[c] = "online" /\ (Asked(k)' \/ OpenAtHost(k)' \/ Answered(k)' \/ conn'[c] = "ended")
    BY <1>4, <1>6 DEF Agrees, CallFits
  <2>2. OpenAtHost(k) => ~Answered(k) /\ calls[k].kind # "note"
    <3>1. Answered(k) => \E ok \in BOOLEAN : True(k, ok) BY AnsweredMeans DEF CallFits, TruthTold
    <3>2. OpenQuestion(k) => calls[k].kind = "ask" /\ asks[relay[k]].phase = "waiting" /\ relay[k] # 0
      <4>1. calls[k].kind \in CallKinds BY AskTypes DEF Calls
      <4> QED BY <4>1 DEF OpenQuestion, IsWaiting, CallFits, HeldFor, CallKinds
    <3> QED BY <3>1, <3>2 DEF OpenAtHost, CallFits, HeldFor, True
  <2>3. OpenAtHost(k)' =>
          /\ conn'[c] = "bound"
          /\ k \in serving' => grant'[c] = "bound"
          /\ calls'[k].state = "pending" \/ Cancelled(k)' \/ cli'[c] = "offline"
    BY <1>4, <1>6, <2>2 DEF Agrees, CallFits
  <2> QED BY <2>1, <2>3 DEF Agrees
<1>9. TruthTold(k)'
  <2>1. True(k, TRUE)' <=> True(k, TRUE) BY DEF True
  <2>2. True(k, FALSE)' <=> True(k, FALSE) BY DEF True
  <2> QED BY <2>1, <2>2 DEF TruthTold, CallFits
<1>10. OnItsWay(k)'
  <2> SUFFICES ASSUME NEW i \in DOMAIN up'[c], up'[c][i] = call
               PROVE  /\ relay'[k] = 0 /\ k \notin serving' /\ ~Answered(k)'
                      /\ calls'[k].kind = "note" \/ calls'[k].state = "pending" \/ Cancelled(k)' \/ cli'[c] = "offline"
                      /\ \A j \in DOMAIN up'[c] : (up'[c][j] = call => i = j) /\ (up'[c][j] = cancel => i < j)
    BY DEF OnItsWay
  <2>1. CASE conn[c] = "ended" BY <2>1, Nothing
  <2>2. CASE conn[c] # "ended"
    <3>1. i \in DOMAIN up[c] /\ up[c][i] = call BY <1>5, <2>2
    <3>2. /\ relay[k] = 0 /\ k \notin serving /\ ~Answered(k)
          /\ calls[k].kind = "note" \/ calls[k].state = "pending" \/ Cancelled(k) \/ cli[c] = "offline"
          /\ \A j \in DOMAIN up[c] : (up[c][j] = call => i = j) /\ (up[c][j] = cancel => i < j)
      BY <3>1 DEF CallFits, OnItsWay
    <3>3. calls'[k].kind = "note" \/ calls'[k].state = "pending" \/ Cancelled(k)' \/ cli'[c] = "offline"
      BY <1>6, <2>2, <3>2
    <3>4. ASSUME NEW j \in DOMAIN up'[c] PROVE (up'[c][j] = call => i = j) /\ (up'[c][j] = cancel => i < j)
      BY <1>5, <2>2, <3>1, <3>2
    <3> QED BY <1>7, <3>2, <3>3, <3>4
  <2> QED BY <2>1, <2>2
<1> QED BY <1>3, <1>8, <1>9, <1>10 DEF CallFits

\* The step keeps what holds of every call.
AllFit == \A k \in DOMAIN calls : CallFits(k)

LEMMA DropFits ==
  ASSUME RelayInv, RelayTypeOK', NEW c \in Children, NEW k \in DOMAIN calls,
         HostDrops(c), Write(NoFrames), UpKept(k), UNCHANGED <<relay, calls, cli>>
  PROVE  CallFits(k)'
<1> DEFINE there == {c} \cap {d \in Children : conn[d] = "bound"}
<1>1. Depart(there, there) /\ Disconnect({c}) /\ Revoke(GrantBoundOf({c})) BY DEF HostDrops
<1>2. calls[k].by \in Children BY AskTypes DEF RelayInv
<1>3. calls[k].by \in {c} /\ conn[calls[k].by] = "bound" => calls[k].by \in there \cup there OBVIOUS
<1>4. calls[k].by \notin {c} => grant'[calls[k].by] = grant[calls[k].by]
  BY <1>1, <1>2 DEF Revoke, GrantBoundOf
<1>5. CallFits(k) /\ StagesFit /\ RelayTypeOK BY DEF RelayInv
<1>6. there \in SUBSET Children /\ {c} \in SUBSET Children OBVIOUS
<1> HIDE DEF there
<1> QED BY <1>1, <1>3, <1>4, <1>5, <1>6, TornFits

LEMMA BrokerCloseFits == ASSUME RelayInv, RelayTypeOK', BrokerClose PROVE AllFit'
<1> DEFINE bound == {c \in Children : conn[c] = "bound"}
           D == {c \in Children : conn[c] \in {"open", "bound"}}
           A == GrantBoundOf(bound)
<1>1. /\ Depart(bound, A) /\ Disconnect(D) /\ Write(NoFrames) /\ Cut
      /\ UNCHANGED <<relay, calls, cli>>
      /\ grant' = [c \in Children |-> IF Granted(c) THEN "revoked" ELSE grant[c]]
  BY DEF BrokerClose, childSide
<1>2. bound \in SUBSET Children /\ D \in SUBSET Children /\ A \in SUBSET Children BY DEF GrantBoundOf
<1>3. ASSUME NEW k \in DOMAIN calls PROVE CallFits(k)'
  <2>1. calls[k].by \in Children /\ CallFits(k) /\ StagesFit /\ RelayTypeOK BY AskTypes DEF RelayInv
  <2>2. calls[k].by \in D /\ conn[calls[k].by] = "bound" => calls[k].by \in bound \cup A BY <2>1
  <2>3. calls[k].by \notin D => grant[calls[k].by] # "bound" BY <2>1 DEF StagesFit
  <2>4. UpKept(k) BY <1>1, <2>1, UpCut
  <2> HIDE DEF bound, D, A
  <2> QED BY <1>1, <1>2, <2>1, <2>2, <2>3, <2>4, TornFits
<1> QED BY <1>1, <1>3 DEF AllFit

LEMMA RevokeReaderFits ==
  ASSUME RelayInv, RelayTypeOK', BusMoves, NEW c \in Children, RevokeReader(c) PROVE AllFit'
<1>1. Write(NoFrames) /\ Cut /\ UNCHANGED <<relay, calls, cli>> BY DEF RevokeReader, childSide
<1>2. ASSUME NEW k \in DOMAIN calls PROVE CallFits(k)'
  <2>1. calls[k].by \in Children /\ CallFits(k) /\ StagesFit /\ RelayTypeOK BY AskTypes DEF RelayInv
  <2>2. UpKept(k) BY <1>1, <2>1, UpCut
  <2>3. CASE grant[c] = "bound"
    BY <1>1, <2>2, <2>3, DropFits DEF RevokeReader
  <2>4. CASE grant[c] # "bound"
    <3>1. Revoke({c}) /\ UNCHANGED <<conn, serving>> BY <2>4 DEF RevokeReader
    <3>2. grant'[calls[k].by] = grant[calls[k].by] \/ grant[calls[k].by] # "bound"
      BY <2>1, <2>4, <3>1 DEF Revoke
    <3>3. \A ok \in BOOLEAN : Answer(k, ok) \notin ToSet(NoFrames[calls[k].by])
      BY <2>1, ToNone, Nothing
    <3> QED BY <1>1, <2>1, <2>2, <3>1, <3>2, <3>3, ToNone, SaidFits
  <2> QED BY <2>3, <2>4
<1> QED BY <1>1, <1>2 DEF AllFit

LEMMA LegSettlesFits ==
  ASSUME RelayInv, RelayTypeOK', NEW c \in Children, LegSettles(c) PROVE AllFit'
<1> DEFINE D == GrantBoundOf({c})
<1>1. /\ Depart({c}, D) /\ Disconnect(D) /\ Write(NoFrames) /\ Cut
      /\ UNCHANGED <<relay, calls, cli>>
      /\ grant' = [grant EXCEPT ![c] = IF Granted(c) THEN "revoked" ELSE @]
  BY DEF LegSettles, childSide
<1>2. {c} \in SUBSET Children /\ D \in SUBSET Children /\ D \subseteq {c} BY DEF GrantBoundOf
<1>3. ASSUME NEW k \in DOMAIN calls PROVE CallFits(k)'
  <2>1. calls[k].by \in Children /\ CallFits(k) /\ StagesFit /\ RelayTypeOK BY AskTypes DEF RelayInv
  <2>2. calls[k].by \in D => calls[k].by \in {c} \cup D OBVIOUS
  <2>3. calls[k].by \notin D => grant'[calls[k].by] = grant[calls[k].by] \/ grant[calls[k].by] # "bound"
    BY <1>1, <2>1, ZenonT(60) DEF GrantBoundOf, RelayTypeOK
  <2>4. UpKept(k) BY <1>1, <2>1, UpCut
  <2> HIDE DEF D
  <2> QED BY <1>1, <1>2, <2>1, <2>2, <2>3, <2>4, TornFits
<1> QED BY <1>1, <1>3 DEF AllFit

LEMMA QuietAllFit ==
  ASSUME RelayInv, RelayTypeOK', BusMoves, Ensure \/ HostUp \/ HostFails \/ UNCHANGED relayVars PROVE AllFit'
<1>1. UNCHANGED <<asks, serving, calls, relay, cli, conn, grant, up, down>>
  BY DEF Ensure, HostUp, HostFails, relayVars, contractVars, supervisorSide, hostSide, childSide, wire
<1>2. ASSUME NEW k \in DOMAIN calls PROVE CallFits(k)'
  BY <1>1, QuietFits DEF RelayInv
<1> QED BY <1>1, <1>2 DEF AllFit

LEMMA SpawnFits ==
  ASSUME RelayInv, RelayTypeOK', BusMoves, NEW c \in Children, NEW reader \in BOOLEAN, SpawnChild(c, reader)
  PROVE  AllFit'
<1>1. /\ UNCHANGED <<asks, serving, calls, relay, conn, up, down>> /\ cli[c] = "off"
      /\ \A d \in Children \ {c} : cli'[d] = cli[d] /\ grant'[d] = grant[d]
  BY DEF SpawnChild, Join, hostSide, wire, RelayInv, StagesFit, RelayTypeOK
<1>2. ASSUME NEW k \in DOMAIN calls PROVE CallFits(k)'
  <2>1. calls[k].by \in Children \ {c} BY <1>1, AskTypes DEF RelayInv, StagesFit
  <2> QED BY <1>1, <2>1, QuietFits DEF RelayInv
<1> QED BY <1>1, <1>2 DEF AllFit

LEMMA ConnectsFits ==
  ASSUME RelayInv, RelayTypeOK', BusMoves, NEW c \in Children, Connects(c)
  PROVE  AllFit'
<1>1. /\ UNCHANGED <<asks, serving, calls, relay, grant, down>> /\ cli[c] = "dialing"
      /\ \A d \in Children \ {c} : cli'[d] = cli[d] /\ conn'[d] = conn[d] /\ up'[d] = up[d]
  BY DEF Connects, contractVars, supervisorSide, RelayInv, RelayTypeOK
<1>2. ASSUME NEW k \in DOMAIN calls PROVE CallFits(k)'
  <2>1. calls[k].by \in Children \ {c} BY <1>1, AskTypes DEF RelayInv, StagesFit
  <2> QED BY <1>1, <2>1, QuietFits DEF RelayInv
<1> QED BY <1>1, <1>2 DEF AllFit

\* Frames that answer nobody.
NoAnswer(frames) == \A c \in Children : \A f \in ToSet(frames[c]) : f.t # "answer"

LEMMA SpeakFits ==
  ASSUME RelayInv, RelayTypeOK', BusMoves, NEW frames \in [Children -> Seq(Frames)], NoAnswer(frames),
         Write(frames) \/ UNCHANGED <<down, asks>>, UNCHANGED <<up, calls, cli, conn, grant, relay, serving>>
  PROVE  AllFit'
<1>1. ASSUME NEW k \in DOMAIN calls PROVE CallFits(k)'
  <2>1. calls[k].by \in Children /\ CallFits(k) /\ StagesFit /\ RelayTypeOK BY AskTypes DEF RelayInv
  <2>2. \A ok \in BOOLEAN : Answer(k, ok) \notin ToSet(frames[calls[k].by])
    BY <2>1 DEF NoAnswer, Answer, Frame
  <2>3. UpKept(k) BY <2>1, UpSame
  <2> QED BY <2>1, <2>2, <2>3, SaidFits
<1> QED BY <1>1 DEF AllFit

LEMMA SteerFits ==
  ASSUME RelayInv, RelayTypeOK', BusMoves, NEW c \in Children, Steer(c) PROVE AllFit'
<1> DEFINE F == To(c, <<Frame("steer", steered'[c], TRUE)>>)
<1>1. Frame("steer", steered'[c], TRUE) \in Frames
  BY DEF Frame, Frames, Steer, RelayInv, RelayTypeOK
<1>2. F \in [Children -> Seq(Frames)] /\ NoAnswer(F)
  <2> DEFINE e == Frame("steer", steered'[c], TRUE)
             s == <<e>>
  <2>1. s \in Seq(Frames) /\ ToSet(s) = {e} BY <1>1, Single
  <2>2. e.t = "steer" BY DEF Frame
  <2> HIDE DEF e, s
  <2>3. To(c, s) \in [Children -> Seq(Frames)] /\ To(c, s)[c] = s /\ \A d \in Children \ {c} : To(c, s)[d] = <<>>
    BY <2>1, ToOne
  <2>4. NoAnswer(To(c, s)) BY <2>1, <2>2, <2>3, Nothing DEF NoAnswer
  <2> QED BY <2>3, <2>4 DEF s, e
<1>3. Write(F) \/ UNCHANGED <<down, asks>> BY DEF Steer, contractVars
<1>4. UNCHANGED <<up, calls, cli, conn, grant, relay, serving>> BY DEF Steer, hostSide, childSide
<1> QED BY <1>2, <1>3, <1>4, SpeakFits

LEMMA SupervisorWritesFits ==
  ASSUME RelayInv, RelayTypeOK', BusMoves, NEW c \in Children, SupervisorWrites(c) PROVE AllFit'
<1> DEFINE F == Drained(Message(Supervisor, c, "note"))
<1>1. F \in [Children -> Seq(Frames)] /\ NoAnswer(F)
  BY DrainedFrames DEF NoAnswer, Frame, RelayInv
<1>2. Write(F) /\ UNCHANGED <<up, calls, cli, conn, grant, relay, serving>>
  BY DEF SupervisorWrites, supervisorSide, childSide
<1> QED BY <1>1, <1>2, SpeakFits

LEMMA SettlesFits ==
  ASSUME RelayInv, RelayTypeOK', BusMoves, NEW i \in DOMAIN asks, NEW r \in {"replied", "timeout"}, Settles(i, r)
  PROVE  AllFit'
<1>1. NoFrames \in [Children -> Seq(Frames)] /\ NoAnswer(NoFrames)
  BY ToNone, Nothing DEF NoAnswer
<1>2. Write(NoFrames) /\ UNCHANGED <<up, calls, cli, conn, grant, relay, serving>>
  BY DEF Settles, AskCloses, supervisorSide, hostSide, childSide
<1> QED BY <1>1, <1>2, SpeakFits

LEMMA SeesCloseFits ==
  ASSUME RelayInv, RelayTypeOK', NEW c \in Children, HostSeesClose(c) PROVE AllFit'
<1>1. HostDrops(c) /\ Write(NoFrames) /\ Cut /\ UNCHANGED <<relay, calls, cli>>
  BY DEF HostSeesClose, childSide
<1>2. \A k \in DOMAIN calls : UpKept(k) BY <1>1, UpCut DEF RelayInv
<1> QED BY <1>1, <1>2, DropFits DEF AllFit

LEMMA ByeFits ==
  ASSUME RelayInv, RelayTypeOK', NEW c \in Children, up[c] # <<>>, Take(c), Head(up[c]).t = "bye",
         HostDrops(c), Write(NoFrames), UNCHANGED <<relay, calls, cli>>
  PROVE  AllFit'
<1>1. \A k \in DOMAIN calls : UpKept(k) BY UpTaken DEF RelayInv
<1> QED BY <1>1, DropFits DEF AllFit

LEMMA RegistersFits ==
  ASSUME RelayInv, RelayTypeOK', BusMoves, NEW c \in Children, up[c] # <<>>, Take(c),
         Head(up[c]).t = "register", HostRegisters(c), UNCHANGED <<calls, cli>>
  PROVE  AllFit'
<1>1. ASSUME NEW k \in DOMAIN calls PROVE CallFits(k)'
  <2> DEFINE d == calls[k].by
  <2>1. d \in Children /\ CallFits(k) /\ RelayTypeOK BY AskTypes DEF RelayInv
  <2>2. UpKept(k) BY <2>1, UpTaken
  <2>3. conn[c] = "open" /\ UNCHANGED <<relay, serving>> BY DEF HostRegisters
  <2>4. d = c => ~OpenAtHost(k) BY <2>1, <2>3 DEF CallFits, Agrees
  <2>5. asks' = asks /\ (OpenQuestion(k)' <=> OpenQuestion(k)) /\ (OpenAtHost(k)' <=> OpenAtHost(k))
    BY <2>3 DEF HostRegisters, Join, contractVars, OpenAtHost, OpenQuestion, IsWaiting
  <2>6. d # c => conn'[d] = conn[d] /\ grant'[d] = grant[d]
    <3>1. conn' = [conn EXCEPT ![c] = "ended"] \/ conn' = [conn EXCEPT ![c] = "bound"] BY DEF HostRegisters
    <3>2. grant' = grant \/ grant' = [grant EXCEPT ![c] = IF @ = "active" THEN "bound" ELSE @] BY DEF HostRegisters
    <3>5. DOMAIN conn = Children BY <2>1 DEF RelayTypeOK
    <3>3. d # c => conn'[d] = conn[d] BY <2>1, <3>1, <3>5
    <3>4. d # c => grant'[d] = grant[d] BY <2>1, <3>2, ZenonT(60) DEF RelayTypeOK
    <3> QED BY <3>3, <3>4
  <2>7. /\ ToSet(down[d]) \subseteq ToSet(down'[d])
        /\ \A ok \in BOOLEAN : Answer(k, ok) \in ToSet(down'[d]) => Answer(k, ok) \in ToSet(down[d])
    <3>1. CASE down' = down BY <3>1
    <3>2. CASE Write(To(c, Greet(c)))
      <4>1. Greet(c) \in Seq(Frames) BY <2>1, GreetFrames
      <4>2. \A e \in ToSet(Greet(c)) : e.t # "answer" BY <2>1, GreetSays DEF Frame
      <4>3. To(c, Greet(c)) \in [Children -> Seq(Frames)] /\ \A ok \in BOOLEAN : Answer(k, ok) \notin ToSet(To(c, Greet(c))[d])
        <5>1. \A ok : Answer(k, ok).t = "answer" BY DEF Answer, Frame
        <5> DEFINE g == Greet(c)
        <5>2. g \in Seq(Frames) /\ \A e \in ToSet(g) : e.t # "answer" BY <4>1, <4>2
        <5> HIDE DEF g
        <5>3. To(c, g) \in [Children -> Seq(Frames)] /\ To(c, g)[c] = g /\ \A e \in Children \ {c} : To(c, g)[e] = <<>>
          BY <5>2, ToOne
        <5>4. CASE d = c BY <5>1, <5>2, <5>3, <5>4 DEF g
        <5>5. CASE d # c BY <2>1, <5>3, <5>5, Nothing DEF g
        <5> QED BY <5>4, <5>5
      <4> QED BY <2>1, <2>3, <2>5, <3>2, <4>3, HostWrote
    <3> QED BY <3>1, <3>2 DEF HostRegisters
  <2>8. conn'[d] \in {conn[d], "ended"} \/ conn[d] = "open" BY <2>3, <2>6
  <2>9. Undisturbed(k) BY <2>1, <2>2, <2>3, <2>4, <2>5, <2>6, <2>7, <2>8 DEF Undisturbed, OpenAtHost
  <2> QED BY <2>1, <2>9, UndisturbedFits
<1> QED BY <1>1 DEF AllFit

\* What is open at the host for k is closed by k's cancellation or its answer.
LEMMA ClosedFits ==
  ASSUME RelayInv, RelayTypeOK', BusMoves, NEW k \in DOMAIN calls, NEW j \in DOMAIN calls, NEW ok \in BOOLEAN,
         k \in serving, serving' = serving \ {k}, UpKept(j),
         UNCHANGED <<contractVars, relay, calls, cli, conn, grant>>,
         Write(To(calls[k].by, <<Answer(k, ok)>>))
  PROVE  CallFits(j)'
<1> DEFINE c == calls[k].by
           r == <<Answer(k, ok)>>
<1>1. c \in Children /\ calls[j].by \in Children /\ k \in Nat /\ CallFits(k) /\ CallFits(j) /\ RelayTypeOK /\ StagesFit
  BY AskTypes DEF RelayInv
<1>2. r \in Seq(Frames) /\ ToSet(r) = {Answer(k, ok)} BY <1>1, AnswerFrame, Single
<1>3. Write(To(c, r)) OBVIOUS
<1>4. calls[k].kind = "read" /\ relay[k] = 0 BY <1>1 DEF CallFits, HeldFor
<1> HIDE DEF r
<1>5. To(c, r) \in [Children -> Seq(Frames)] /\ To(c, r)[c] = r /\ \A d \in Children \ {c} : To(c, r)[d] = <<>>
  BY <1>1, <1>2, ToOne
<1>6. CASE j # k
  <2>1. \A b \in BOOLEAN : Answer(j, b) \notin ToSet(To(c, r)[calls[j].by])
    BY <1>1, <1>2, <1>5, <1>6, SameAnswer, Nothing
  <2> QED BY <1>1, <1>3, <1>5, <1>6, <2>1, SaidFits
<1>7. CASE j = k
  <2>1. ~Reaches(c) => down'[c] = down[c] BY <1>1, <1>3, <1>5, Written
  <2>2. Reaches(c) =>
          /\ ToSet(down'[c]) = ToSet(down[c]) \cup ToSet(To(c, r)[c]) \cup ToSet(AnswersTo(c))
          /\ ToSet(AnswersTo(c)) = {Answer(i, asks'[relay[i]].phase = "replied") : i \in SettledNow(c)}
    BY <1>1, <1>3, <1>5, Written
  <2>3. SettledNow(c) = {} BY DEF SettledNow, contractVars, IsWaiting
  <2>4. ~OpenQuestion(k)' /\ ~OpenQuestion(k) /\ ~OpenAtHost(k)' BY <1>4 DEF OpenQuestion, OpenAtHost
  <2>5. True(k, ok)' BY <1>4 DEF True
  <2>6. \A b \in BOOLEAN : Answer(k, b) \in ToSet(down'[c]) => Answer(k, b) \in ToSet(down[c]) \/ b = ok
    BY <1>2, <1>5, <2>1, <2>2, <2>3, SameAnswer
  <2>7. ToSet(down[c]) \subseteq ToSet(down'[c]) BY <2>1, <2>2
  <2>8. conn[c] = "bound" BY <1>1 DEF CallFits, Agrees, OpenAtHost
  <2>9. Answered(k)' \/ cli[c] = "offline"
    <3>1. cli[c] # "offline" => Answer(k, ok) \in ToSet(down'[c]) BY <1>2, <1>5, <2>2, <2>8 DEF Reaches
    <3> QED BY <3>1 DEF Answered, Answer, Frame
  <2>10. \A b \in BOOLEAN : Answer(k, b) \in ToSet(down'[c]) => Answer(k, b) \in ToSet(down[c]) \/ True(k, b)'
    BY <2>5, <2>6
  <2>11. Undisturbed(k)
    BY <1>1, <1>7, <2>4, <2>7, <2>9, <2>10 DEF Undisturbed
  <2> QED BY <1>1, <1>7, <2>11, UndisturbedFits
<1> QED BY <1>6, <1>7

LEMMA AnswersReadFits ==
  ASSUME RelayInv, RelayTypeOK', BusMoves, NEW k \in DOMAIN calls, NEW ok \in BOOLEAN, HostAnswersRead(k, ok)
  PROVE  AllFit'
<1>1. /\ k \in serving /\ serving' = serving \ {k} /\ UNCHANGED <<contractVars, relay, calls, cli, conn, grant, up>>
      /\ Write(To(calls[k].by, <<Answer(k, ok)>>))
  BY DEF HostAnswersRead, supervisorSide, childSide
<1>2. \A j \in DOMAIN calls : UpKept(j) BY <1>1, UpSame DEF RelayInv
<1> QED BY <1>1, <1>2, ClosedFits DEF AllFit

LEMMA CancelsFits ==
  ASSUME RelayInv, RelayTypeOK', BusMoves, NEW c \in Children, NEW k \in DOMAIN calls, calls[k].by = c,
         up[c] # <<>>, Take(c), Head(up[c]) = Frame("cancel", k, TRUE), HostCancels(c, k),
         UNCHANGED <<relay, calls, cli, conn, grant>>
  PROVE  AllFit'
<1>1. RelayTypeOK /\ StagesFit /\ CallFits(k) /\ \A j \in DOMAIN calls : calls[j].by \in Children /\ CallFits(j)
  BY AskTypes DEF RelayInv
<1>2. \A j \in DOMAIN calls \ {k} : UpKept(j) BY <1>1, UpTaken DEF Frame
<1>3. ~Asked(k) /\ ~Asked(k)'
  <2> DEFINE s == up[c]
             call == Frame("call", k, TRUE)
  <2>1. s \in Seq(Requests) /\ 1 \in DOMAIN s /\ s[1] = Frame("cancel", k, TRUE) /\ ToSet(Tail(s)) \subseteq ToSet(s)
    <3>1. s \in Seq(Requests) /\ s # <<>> BY <1>1 DEF RelayTypeOK
    <3>2. 1 \in DOMAIN s /\ s[1] = Head(s) /\ ToSet(s) = {Head(s)} \cup ToSet(Tail(s)) BY <3>1, TailOf
    <3> QED BY <3>1, <3>2
  <2>2. DOMAIN s \subseteq Nat \ {0} BY <2>1, Element
  <2>3. \A i \in DOMAIN s : s[i] # call
    <3> SUFFICES ASSUME NEW i \in DOMAIN s, s[i] = call PROVE FALSE OBVIOUS
    <3>1. i < 1 BY <1>1, <2>1 DEF CallFits, OnItsWay
    <3> QED BY <2>2, <3>1
  <2>4. up'[c] = <<>> \/ up'[c] = Tail(s) BY <1>1, TakeTypes
  <2>5. ToSet(up'[c]) \subseteq ToSet(s) BY <2>1, <2>4, Nothing
  <2>6. call \notin ToSet(s) BY <2>3 DEF ToSet
  <2>7. call \notin ToSet(up'[c]) BY <2>5, <2>6
  <2> QED BY <2>6, <2>7 DEF Asked
<1>4. CASE OpenQuestion(k) /\ Close(relay[k], "aborted") /\ Write(NoFrames) /\ UNCHANGED serving
  <2>1. relay[k] \in DOMAIN asks /\ relay[k] # 0 BY <1>1, <1>4 DEF OpenQuestion, RelayTypeOK
  <2>2. asks'[relay[k]].phase = "aborted" BY <1>1, <1>4, <2>1, CloseMoves, RelayAssumption
  <2>3. ~OpenAtHost(k)' BY <1>1, <1>4, <2>1, <2>2 DEF OpenAtHost, OpenQuestion, IsWaiting, CallFits, HeldFor
  <2>4. \A j \in DOMAIN calls : UpKept(j) BY <1>2, <1>3, <2>3 DEF UpKept
  <2>5. ASSUME NEW j \in DOMAIN calls PROVE CallFits(j)'
    <3>1. \A ok \in BOOLEAN : Answer(j, ok) \notin ToSet(NoFrames[calls[j].by]) BY <1>1, ToNone, Nothing
    <3> QED BY <1>1, <1>4, <2>4, <3>1, ToNone, SaidFits
  <2> QED BY <2>5 DEF AllFit
<1>5. CASE k \in serving /\ serving' = serving \ {k} /\ UNCHANGED contractVars /\ Write(To(c, <<Answer(k, FALSE)>>))
  <2>1. ~OpenAtHost(k)'
    BY <1>1, <1>5 DEF OpenAtHost, OpenQuestion, CallFits, HeldFor
  <2>2. \A j \in DOMAIN calls : UpKept(j) BY <1>2, <1>3, <2>1 DEF UpKept
  <2> QED BY <1>5, <2>2, ClosedFits DEF AllFit
<1>6. CASE k \notin serving /\ ~OpenQuestion(k) /\ UNCHANGED <<contractVars, down, serving>>
  <2>1. ~OpenAtHost(k)' /\ UNCHANGED asks BY <1>6 DEF OpenAtHost, OpenQuestion, IsWaiting, contractVars
  <2>2. \A j \in DOMAIN calls : UpKept(j) BY <1>2, <1>3, <2>1 DEF UpKept
  <2>3. ASSUME NEW j \in DOMAIN calls PROVE CallFits(j)'
    <3>1. \A ok \in BOOLEAN : Answer(j, ok) \notin ToSet(NoFrames[calls[j].by]) BY <1>1, ToNone, Nothing
    <3> QED BY <1>1, <1>6, <2>1, <2>2, <3>1, ToNone, SaidFits
  <2> QED BY <2>3 DEF AllFit
<1> QED BY <1>4, <1>5, <1>6 DEF HostCancels

\* The host takes a call that is on its way.
LEMMA CallTaken ==
  ASSUME RelayInv, NEW c \in Children, NEW k \in DOMAIN calls, calls[k].by = c,
         up[c] # <<>>, Take(c), Head(up[c]) = Frame("call", k, TRUE), conn' = conn, conn[c] = "bound"
  PROVE  /\ relay[k] = 0 /\ k \notin serving /\ ~Answered(k) /\ \A ok \in BOOLEAN : Answer(k, ok) \notin ToSet(down[c])
         /\ calls[k].state = "answered" => calls[k].kind = "read"
         /\ calls[k].state = "pending" => cli[c] = "online"
         /\ calls[k].kind = "note" \/ calls[k].state = "pending" \/ Frame("cancel", k, TRUE) \in ToSet(up'[c]) \/ cli[c] = "offline"
         /\ Frame("call", k, TRUE) \notin ToSet(up'[c])
         /\ \A j \in DOMAIN calls \ {k} : UpKept(j)
<1> DEFINE s == up[c]
           call == Frame("call", k, TRUE)
           cancel == Frame("cancel", k, TRUE)
<1>1. RelayTypeOK /\ CallFits(k) BY DEF RelayInv
<1>2. s \in Seq(Requests) /\ s # <<>> BY <1>1 DEF RelayTypeOK
<1>3. /\ 1 \in DOMAIN s /\ s[1] = call /\ ToSet(s) = {Head(s)} \cup ToSet(Tail(s))
      /\ \A i \in DOMAIN Tail(s) : Tail(s)[i] = s[i + 1] /\ i + 1 \in DOMAIN s
      /\ DOMAIN Tail(s) = 1..(Len(s) - 1) /\ Len(s) \in Nat
  <2>1. 1 \in DOMAIN s /\ s[1] = Head(s) BY <1>2, TailOf
  <2>2. /\ ToSet(s) = {Head(s)} \cup ToSet(Tail(s))
        /\ \A i \in DOMAIN Tail(s) : Tail(s)[i] = s[i + 1] /\ i + 1 \in DOMAIN s
        /\ DOMAIN Tail(s) = 1..(Len(s) - 1) /\ Len(s) \in Nat
    BY <1>2, TailOf
  <2> QED BY <2>1, <2>2
<1>4. /\ relay[k] = 0 /\ k \notin serving /\ ~Answered(k)
      /\ calls[k].kind = "note" \/ calls[k].state = "pending" \/ Cancelled(k) \/ cli[c] = "offline"
      /\ \A j \in DOMAIN s : s[j] = call => 1 = j
  BY <1>1, <1>3 DEF CallFits, OnItsWay
<1>5. up'[c] = Tail(s) BY <1>1, TakeTypes
<1>6. call \notin ToSet(up'[c])
  <2>1. \A i \in DOMAIN Tail(s) : Tail(s)[i] # call
    <3> SUFFICES ASSUME NEW i \in DOMAIN Tail(s), Tail(s)[i] = call PROVE FALSE OBVIOUS
    <3>1. i + 1 = 1 /\ i \in 1..(Len(s) - 1) BY <1>3, <1>4
    <3> QED BY <1>3, <3>1
  <2> QED BY <1>5, <2>1 DEF ToSet
<1>7. Cancelled(k) => cancel \in ToSet(up'[c])
  <2>1. cancel # Head(s) BY DEF Frame
  <2> QED BY <1>3, <1>5, <2>1 DEF Cancelled
<1>8. \A j \in DOMAIN calls \ {k} : UpKept(j) BY <1>1, UpTaken DEF Frame
<1>9. \A ok \in BOOLEAN : Answer(k, ok) \notin ToSet(down[c]) BY <1>1, <1>4, AnsweredMeans
<1>10. calls[k].state = "answered" => calls[k].kind = "read"
  <2>1. calls[k].kind \in {"ask", "note", "read"} BY <1>1, AskTypes DEF Calls, CallKinds
  <2> QED BY <1>1, <1>4, <2>1 DEF CallFits, TruthTold, True
<1>11. calls[k].state = "pending" => cli[c] = "online" BY <1>1 DEF CallFits, Agrees
<1> QED BY <1>4, <1>6, <1>7, <1>8, <1>9, <1>10, <1>11

\* What the host makes of the call it took: a question or a note of the bus, a
\* read it serves, or nothing.
LEMMA TakenFits ==
  ASSUME RelayInv, RelayTypeOK', BusMoves, NEW c \in Children, NEW k \in DOMAIN calls, calls[k].by = c,
         up[c] # <<>>, Take(c), Head(up[c]) = Frame("call", k, TRUE), conn' = conn, conn[c] = "bound",
         UNCHANGED <<calls, cli, grant>>,
         NEW frames \in [Children -> Seq(Frames)], Write(frames) \/ UNCHANGED <<down, asks>>,
         \A d \in Children \ {c} : \A f \in ToSet(frames[d]) : f.t # "answer",
         \A f \in ToSet(frames[c]) : f.t = "answer" => f.n = k,
         \A j \in DOMAIN calls \ {k} : relay'[j] = relay[j] /\ (j \in serving' <=> j \in serving),
         HeldFor(k)',
         \A ok \in BOOLEAN : Answer(k, ok) \in ToSet(frames[c]) /\ Write(frames) => True(k, ok)',
         OpenAtHost(k)' \/ (Write(frames) /\ \E ok \in BOOLEAN : Answer(k, ok) \in ToSet(frames[c])),
         OpenAtHost(k)' => calls[k].kind # "note" /\ (k \in serving' => grant[c] = "bound")
  PROVE  AllFit'
<1>1. RelayTypeOK /\ StagesFit /\ CallFits(k) /\ \A j \in DOMAIN calls : calls[j].by \in Children /\ CallFits(j)
  BY AskTypes DEF RelayInv
<1>2. /\ relay[k] = 0 /\ k \notin serving /\ ~Answered(k) /\ \A ok \in BOOLEAN : Answer(k, ok) \notin ToSet(down[c])
      /\ calls[k].state = "answered" => calls[k].kind = "read"
      /\ calls[k].state = "pending" => cli[c] = "online"
      /\ calls[k].kind = "note" \/ calls[k].state = "pending" \/ Frame("cancel", k, TRUE) \in ToSet(up'[c]) \/ cli[c] = "offline"
      /\ Frame("call", k, TRUE) \notin ToSet(up'[c])
      /\ \A j \in DOMAIN calls \ {k} : UpKept(j)
  BY CallTaken, ZenonT(60)
<1>3. ASSUME NEW j \in DOMAIN calls \ {k} PROVE CallFits(j)'
  <2>1. \A ok \in BOOLEAN : Answer(j, ok) \notin ToSet(frames[calls[j].by])
    <3>1. \A ok : Answer(j, ok).t = "answer" /\ Answer(j, ok).n = j BY DEF Answer, Frame
    <3>2. CASE calls[j].by = c BY <3>1, <3>2
    <3>3. CASE calls[j].by # c BY <1>1, <3>1, <3>3
    <3> QED BY <3>2, <3>3
  <2> QED BY <1>1, <1>2, <2>1, SaidFits
<1>4. CallFits(k)'
  <2>1. OnItsWay(k)'
    <3>1. \A i \in DOMAIN up'[c] : up'[c][i] # Frame("call", k, TRUE) BY <1>2 DEF ToSet
    <3> QED BY <3>1 DEF OnItsWay
  <2>2. \A ok \in BOOLEAN : Answer(k, ok) \in ToSet(down'[c]) => Write(frames) /\ Answer(k, ok) \in ToSet(frames[c])
    <3>1. CASE UNCHANGED <<down, asks>> BY <1>2, <3>1
    <3>2. CASE Write(frames)
      <4>1. ~Reaches(c) => down'[c] = down[c] BY <1>1, <3>2, Written
      <4>2. Reaches(c) =>
              /\ ToSet(down'[c]) = ToSet(down[c]) \cup ToSet(frames[c]) \cup ToSet(AnswersTo(c))
              /\ ToSet(AnswersTo(c)) = {Answer(i, asks'[relay[i]].phase = "replied") : i \in SettledNow(c)}
        BY <1>1, <3>2, Written
      <4>3. k \notin SettledNow(c) BY <1>2 DEF SettledNow, RelayedFor
      <4>4. Reaches(c) => \A ok \in BOOLEAN : Answer(k, ok) \notin ToSet(AnswersTo(c))
        BY <4>2, <4>3, SameAnswer
      <4> QED BY <1>2, <3>2, <4>1, <4>2, <4>4
    <3> QED BY <3>1, <3>2
  <2>3. TruthTold(k)'
    <3>1. calls'[k].state = "answered" => True(k, TRUE)' BY <1>2 DEF True
    <3>2. \A ok \in BOOLEAN : Answer(k, ok) \in ToSet(down'[c]) => True(k, ok)' BY <2>2
    <3> QED BY <3>1, <3>2 DEF TruthTold
  <2>4. cli[c] = "online" => OpenAtHost(k)' \/ Answered(k)'
    <3> SUFFICES ASSUME cli[c] = "online", Write(frames), NEW ok \in BOOLEAN, Answer(k, ok) \in ToSet(frames[c])
                 PROVE  Answered(k)'
      OBVIOUS
    <3>1. Reaches(c) BY DEF Reaches
    <3>2. ToSet(down'[c]) = ToSet(down[c]) \cup ToSet(frames[c]) \cup ToSet(AnswersTo(c)) BY <1>1, <3>1, Written
    <3> QED BY <3>2 DEF Answered, Answer, Frame
  <2>5. Agrees(k)'
    <3>1. Frame("cancel", k, TRUE) \in ToSet(up'[c]) => Cancelled(k)' BY DEF Cancelled
    <3> QED BY <1>2, <2>4, <3>1 DEF Agrees
  <2> QED BY <2>1, <2>3, <2>5 DEF CallFits
<1> QED BY <1>3, <1>4 DEF AllFit

\* The host asks the bus, notes, or starts to read for the child.
LEMMA TakesFits ==
  ASSUME RelayInv, RelayTypeOK', BusMoves, NEW c \in Children, NEW k \in DOMAIN calls, calls[k].by = c,
         up[c] # <<>>, Take(c), Head(up[c]) = Frame("call", k, TRUE), HostTakesCall(c, k),
         UNCHANGED <<calls, cli, grant, conn>>
  PROVE  AllFit'
<1> DEFINE no == <<Answer(k, FALSE)>>
<1>1. RelayTypeOK /\ calls[k] \in Calls /\ calls[k].to \in Names /\ c \in Names /\ k \in Nat
  <2>1. RelayTypeOK BY DEF RelayInv
  <2>2. calls[k] \in Calls /\ k \in Nat BY <2>1, AskTypes
  <2> QED BY <2>1, <2>2 DEF Calls, Children
<1>2. conn[c] = "bound" /\ relay[k] = 0 /\ k \notin serving /\ ~Answered(k)
      /\ \A ok \in BOOLEAN : Answer(k, ok) \notin ToSet(down[c])
  BY CallTaken DEF HostTakesCall
<1>3. no \in Seq(Frames) /\ ToSet(no) = {Answer(k, FALSE)} BY <1>1, AnswerFrame, Single
<1>4. /\ \A b : Answer(k, b).t = "answer" /\ Answer(k, b).n = k
      /\ Frame("deliver", MsgId, TRUE).t = "deliver"
  BY DEF Answer, Frame
<1> DEFINE refusal == To(c, no)
<1>5. /\ refusal \in [Children -> Seq(Frames)]
      /\ ToSet(refusal[c]) = {Answer(k, FALSE)}
      /\ \A d \in Children \ {c} : ToSet(refusal[d]) = {}
  <2> HIDE DEF no
  <2>1. To(c, no) \in [Children -> Seq(Frames)] /\ To(c, no)[c] = no /\ \A d \in Children \ {c} : To(c, no)[d] = <<>>
    BY <1>3, ToOne
  <2> QED BY <1>3, <2>1, Nothing
<1> HIDE DEF refusal
\* Refused: nothing is kept, and the child is told so.
<1>6. ASSUME UNCHANGED <<contractVars, relay, serving>>, Write(refusal)
      PROVE  AllFit'
  <2>1. ~OpenAtHost(k)' BY <1>2, <1>6 DEF OpenAtHost, OpenQuestion
  <2>2. HeldFor(k)' BY <1>2, <1>6 DEF HeldFor
  <2>3. \A ok \in BOOLEAN : Answer(k, ok) \in ToSet(refusal[c]) => True(k, ok)'
    BY <1>2, <1>5, <1>6, SameAnswer DEF True
  <2>4. /\ \A d \in Children \ {c} : \A f \in ToSet(refusal[d]) : f.t # "answer"
        /\ \A f \in ToSet(refusal[c]) : f.t = "answer" => f.n = k
    BY <1>4, <1>5
  <2>5. \E ok \in BOOLEAN : Answer(k, ok) \in ToSet(refusal[c]) BY <1>5
  <2>6. \A j \in DOMAIN calls \ {k} : relay'[j] = relay[j] /\ (j \in serving' <=> j \in serving) BY <1>6
  <2>7. \A ok \in BOOLEAN : Answer(k, ok) \in ToSet(refusal[c]) /\ Write(refusal) => True(k, ok)' BY <2>3
  <2>8. OpenAtHost(k)' \/ (Write(refusal) /\ \E ok \in BOOLEAN : Answer(k, ok) \in ToSet(refusal[c])) BY <1>6, <2>5
  <2>9. OpenAtHost(k)' => calls[k].kind # "note" /\ (k \in serving' => grant[c] = "bound") BY <2>1
  <2>10. Write(refusal) \/ UNCHANGED <<down, asks>> BY <1>6
  <2>11. conn' = conn /\ UNCHANGED <<calls, cli, grant>> /\ refusal \in [Children -> Seq(Frames)] BY <1>5
  <2> QED BY <1>2, <2>2, <2>4, <2>6, <2>7, <2>8, <2>9, <2>10, <2>11, TakenFits
\* Put on the bus: what the child asked or noted has a number there.
<1>7. ASSUME NEW p \in {"note", "waiting"}, Accepted(Message(c, calls[k].to, p)),
             relay' = [relay EXCEPT ![k] = MsgId]
      PROVE  /\ relay'[k] = MsgId /\ MsgId # 0 /\ asks'[MsgId].from = c /\ asks'[MsgId].phase = p
             /\ \A j \in DOMAIN calls \ {k} : relay'[j] = relay[j]
  <2>1. Message(c, calls[k].to, p) \in Questions BY <1>1, MessageType
  <2>2. asks'[MsgId] = Message(c, calls[k].to, p) BY <1>1, <1>7, <2>1, AcceptedTypes
  <2>3. MsgId # 0 BY <1>1, AskTypes DEF MsgId
  <2>4. DOMAIN relay = DOMAIN calls BY <1>1, AskTypes
  <2> QED BY <1>7, <2>2, <2>3, <2>4 DEF Message
<1>8. CASE calls[k].kind = "ask"
  <2> DEFINE q == Message(c, calls[k].to, "waiting")
  <2>1. CASE UNCHANGED <<contractVars, relay, serving>> /\ Write(refusal) BY <1>6, <2>1
  <2>2. CASE Accepted(q) /\ relay' = [relay EXCEPT ![k] = MsgId] /\ Write(Drained(q)) /\ UNCHANGED serving
    <3>1. /\ relay'[k] = MsgId /\ MsgId # 0 /\ asks'[MsgId].from = c /\ asks'[MsgId].phase = "waiting"
          /\ \A j \in DOMAIN calls \ {k} : relay'[j] = relay[j]
      BY <1>7, <2>2
    <3>2. Drained(q) \in [Children -> Seq(Frames)] /\ \A d \in Children : \A f \in ToSet(Drained(q)[d]) : f.t # "answer"
      BY <1>1, <1>4, DrainedFrames
    <3>3. OpenAtHost(k)' BY <3>1 DEF OpenAtHost, OpenQuestion, IsWaiting
    <3>4. HeldFor(k)' BY <1>2, <1>8, <2>2, <3>1 DEF HeldFor
    <3>5. \A ok \in BOOLEAN : Answer(k, ok) \notin ToSet(Drained(q)[c]) BY <1>4, <3>2
    <3>6. OpenAtHost(k)' => calls[k].kind # "note" /\ (k \in serving' => grant[c] = "bound") BY <1>2, <1>8, <2>2
    <3> HIDE DEF q
    <3> QED BY <1>2, <2>2, <3>1, <3>2, <3>3, <3>4, <3>5, <3>6, TakenFits
  <2> QED BY <1>8, <2>1, <2>2 DEF HostTakesCall, HostAsks, refusal
<1>9. CASE calls[k].kind = "note"
  <2> DEFINE q == Message(c, calls[k].to, "note")
             F == WithReceipt(q, c, k)
  <2>1. CASE UNCHANGED <<contractVars, relay, serving>> /\ Write(refusal) BY <1>6, <2>1
  <2>2. CASE Accepted(q) /\ relay' = [relay EXCEPT ![k] = MsgId] /\ Write(F) /\ UNCHANGED serving
    <3>1. /\ relay'[k] = MsgId /\ MsgId # 0 /\ asks'[MsgId].from = c /\ asks'[MsgId].phase = "note"
          /\ \A j \in DOMAIN calls \ {k} : relay'[j] = relay[j]
      BY <1>7, <2>2
    <3>2. /\ F \in [Children -> Seq(Frames)]
          /\ ToSet(F[c]) \subseteq {Frame("deliver", MsgId, TRUE), Answer(k, TRUE)}
          /\ Answer(k, TRUE) \in ToSet(F[c])
          /\ \A d \in Children \ {c} : ToSet(F[d]) \subseteq {Frame("deliver", MsgId, TRUE)}
      <4> HIDE DEF q
      <4> QED BY <1>1, ReceiptFrames
    <3>3. ~OpenAtHost(k)' BY <1>2, <2>2, <3>1 DEF OpenAtHost, OpenQuestion, IsWaiting
    <3>4. HeldFor(k)' BY <1>2, <1>9, <2>2, <3>1 DEF HeldFor
    <3>5. \A ok \in BOOLEAN : Answer(k, ok) \in ToSet(F[c]) => ok = TRUE
      BY <1>4, <3>2, SameAnswer, ZenonT(60)
    <3>6. True(k, TRUE)' BY <1>9, <3>1 DEF True
    <3>7. \A d \in Children \ {c} : \A f \in ToSet(F[d]) : f.t # "answer" BY <1>4, <3>2
    <3>8. \A f \in ToSet(F[c]) : f.t = "answer" => f.n = k BY <1>4, <3>2
    <3>9. \A ok \in BOOLEAN : Answer(k, ok) \in ToSet(F[c]) => True(k, ok)' BY <3>5, <3>6
    <3>10. \E ok \in BOOLEAN : Answer(k, ok) \in ToSet(F[c]) BY <3>2
    <3>11. F \in [Children -> Seq(Frames)] /\ Write(F) BY <2>2, <3>2
    <3> HIDE DEF F
    <3> QED BY <1>2, <2>2, <3>1, <3>11, <3>3, <3>4, <3>7, <3>8, <3>9, <3>10, TakenFits, ZenonT(60)
  <2> QED BY <1>9, <2>1, <2>2 DEF HostTakesCall, HostSends, Receipt, refusal, WithReceipt
<1>10. CASE calls[k].kind = "read"
  <2>1. UNCHANGED <<contractVars, relay>> /\ HostStartsReading(c, k) BY <1>10 DEF HostTakesCall
  <2>2. CASE grant[c] # "bound" BY <1>6, <2>1, <2>2 DEF HostStartsReading, refusal
  <2>3. CASE grant[c] = "bound"
    <3>1. serving' = serving \cup {k} /\ UNCHANGED <<down, asks>> BY <2>1, <2>3 DEF HostStartsReading, contractVars
    <3>2. OpenAtHost(k)' BY <3>1 DEF OpenAtHost
    <3>3. HeldFor(k)' BY <1>2, <1>10, <2>1, <3>1 DEF HeldFor, Answered
    <3>4. NoFrames \in [Children -> Seq(Frames)] /\ \A d \in Children : ToSet(NoFrames[d]) = {} BY ToNone, Nothing
    <3>5. OpenAtHost(k)' => calls[k].kind # "note" /\ (k \in serving' => grant[c] = "bound") BY <1>10, <2>3
    <3> QED BY <1>2, <2>1, <3>1, <3>2, <3>3, <3>4, <3>5, TakenFits
  <2> QED BY <2>2, <2>3
<1> QED BY <1>1, <1>8, <1>9, <1>10 DEF Calls, CallKinds

LEMMA HostReadsFits ==
  ASSUME RelayInv, RelayTypeOK', BusMoves, NEW c \in Children, HostReads(c)
  PROVE  AllFit'
<1> DEFINE f == Head(up[c])
<1>1. up[c] # <<>> /\ Take(c) /\ UNCHANGED <<calls, cli>> /\ RelayTypeOK BY DEF HostReads, childSide, RelayInv
<1>2. f \in Requests /\ f = up[c][1] /\ 1 \in DOMAIN up[c] BY <1>1, TakeTypes
<1>3. f.t \in {"call", "cancel"} => f.n \in DOMAIN calls /\ calls[f.n].by = c
  BY <1>2 DEF UpFits, RelayInv
<1>4. f = Frame(f.t, f.n, TRUE) BY <1>2 DEF Requests, Frame
<1>5. CASE f.t = "register" /\ HostRegisters(c) BY <1>1, <1>5, RegistersFits
<1>6. CASE f.t = "call" /\ UNCHANGED <<supervisorSide, conn>> /\ HostTakesCall(c, f.n)
  <2>1. UNCHANGED <<calls, cli, grant, conn>> BY <1>1, <1>6 DEF supervisorSide
  <2> QED BY <1>1, <1>3, <1>4, <1>6, <2>1, TakesFits
<1>7. CASE f.t = "cancel" /\ UNCHANGED <<supervisorSide, mailbox, conn, relay>> /\ HostCancels(c, f.n)
  <2>1. UNCHANGED <<relay, calls, cli, conn, grant>> BY <1>1, <1>7 DEF supervisorSide
  <2> QED BY <1>1, <1>3, <1>4, <1>7, <2>1, CancelsFits
<1>8. CASE f.t = "bye" /\ HostDrops(c) /\ Write(NoFrames) /\ UNCHANGED <<leg, steered, relay>>
  <2>1. UNCHANGED <<relay, calls, cli>> BY <1>1, <1>8
  <2> QED BY <1>1, <1>8, <2>1, ByeFits
<1> QED BY <1>5, <1>6, <1>7, <1>8 DEF HostReads

---------------------------------------------------------------------------
(* The child's steps.                                                      *)

LEMMA ChildLeavesFits ==
  ASSUME RelayInv, RelayTypeOK', BusMoves, NEW c \in Children, NEW bye \in BOOLEAN, ChildGoes(c, bye) \/ ChildSeesClose(c)
  PROVE  AllFit'
<1>1. RelayTypeOK /\ StagesFit BY DEF RelayInv
<1>2. /\ UNCHANGED <<asks, serving, conn, grant, relay>>
      /\ FailPending(c) /\ cli' = [cli EXCEPT ![c] = "offline"] /\ down' = [down EXCEPT ![c] = <<>>]
  BY DEF ChildGoes, ChildSeesClose, contractVars, supervisorSide, hostSide
<1>3. \/ \E s \in Seq(Requests) : Send(c, s) /\ \A k : Frame("call", k, TRUE) \notin ToSet(s)
      \/ up' = up /\ conn[c] = "ended"
  <2>1. CASE ChildSeesClose(c) BY <2>1 DEF ChildSeesClose
  <2>2. CASE ChildGoes(c, bye)
    <3> DEFINE e == Frame("bye", 0, TRUE)
               b == <<e>>
    <3>1. e \in Requests /\ \A k : Frame("call", k, TRUE) # e BY RequestFrames DEF Frame
    <3>2. b \in Seq(Requests) /\ ToSet(b) = {e} BY <3>1, Single
    <3>3. <<>> \in Seq(Requests) /\ ToSet(<<>>) = {} BY Nothing
    <3>4. Send(c, b) \/ Send(c, <<>>) BY <2>2 DEF ChildGoes
    <3> HIDE DEF b, e
    <3> QED BY <3>1, <3>2, <3>3, <3>4
  <2> QED BY <2>1, <2>2
<1>4. ASSUME NEW k \in DOMAIN calls PROVE CallFits(k)'
  <2> DEFINE d == calls[k].by
  <2>1. CallFits(k) /\ d \in Children BY <1>1, AskTypes DEF RelayInv
  <2>2. /\ k \in DOMAIN calls' /\ calls'[k].by = d /\ calls'[k].kind = calls[k].kind
        /\ d = c => calls'[k].state # "pending"
        /\ calls'[k].state = calls[k].state \/ (calls'[k].state = "failed" /\ d = c)
    BY <1>1, <1>2, FailTypes
  <2>3. ToSet(down'[d]) \subseteq ToSet(down[d]) /\ (d # c => down'[d] = down[d])
    <3>1. down'[d] = IF d = c THEN <<>> ELSE down[d] BY <1>1, <1>2, <2>1 DEF RelayTypeOK
    <3>2. ToSet(<<>>) = {} BY Nothing
    <3> QED BY <3>1, <3>2
  <2>4. /\ conn[d] = "ended" => up'[d] = <<>>
        /\ \/ conn[d] = "ended" \/ up'[d] = up[d]
           \/ \E s \in Seq(Requests) : up'[d] = up[d] \o s /\ Frame("call", k, TRUE) \notin ToSet(s)
    <3>1. CASE up' = up BY <1>1, <2>1, <3>1 DEF StagesFit
    <3>2. ASSUME NEW s \in Seq(Requests), Send(c, s), \A j : Frame("call", j, TRUE) \notin ToSet(s)
          PROVE  /\ conn[d] = "ended" => up'[d] = <<>>
                 /\ \/ conn[d] = "ended" \/ up'[d] = up[d]
                    \/ \E t \in Seq(Requests) : up'[d] = up[d] \o t /\ Frame("call", k, TRUE) \notin ToSet(t)
      <4>1. /\ \A e \in Children \ {c} : up'[e] = up[e]
            /\ conn[c] = "ended" => up'[c] = <<>>
            /\ conn[c] # "ended" => up'[c] = up[c] \o s
        BY <1>1, <3>2, Sent
      <4> QED BY <1>1, <2>1, <3>2, <4>1 DEF StagesFit
    <3> QED BY <1>3, <3>1, <3>2
  <2>5. cli'[d] = (IF d = c THEN "offline" ELSE cli[d]) BY <1>1, <1>2, <2>1, ZenonT(60) DEF RelayTypeOK
  <2>6. calls'[k].state = "pending" => calls[k].state = "pending" /\ cli'[d] = "online" /\ (Answered(k) => Answered(k)')
    <3>1. calls'[k].state = "pending" => d # c /\ calls[k].state = "pending" BY <2>2
    <3>2. d # c => (Answered(k)' <=> Answered(k)) BY <2>2, <2>3 DEF Answered
    <3> QED BY <2>1, <2>5, <3>1, <3>2 DEF CallFits, Agrees
  <2>7. calls[k].state = "pending" => calls'[k].state = "pending" \/ cli'[d] = "offline" BY <2>2, <2>5
  <2>8. calls'[k].state = "answered" => calls[k].state = "answered" BY <2>2
  <2>9. cli[d] = "offline" => cli'[d] = "offline" BY <2>5
  <2> QED BY <1>1, <1>2, <2>1, <2>2, <2>3, <2>4, <2>6, <2>7, <2>8, <2>9, ChildFits
<1>5. DOMAIN calls' = DOMAIN calls BY <1>1, <1>2, FailTypes
<1> QED BY <1>4, <1>5 DEF AllFit

LEMMA GivesUpFits ==
  ASSUME RelayInv, RelayTypeOK', BusMoves, NEW j \in DOMAIN calls, ChildGivesUp(j)
  PROVE  AllFit'
<1> DEFINE c == calls[j].by
<1>1. RelayTypeOK /\ StagesFit /\ c \in Children /\ j \in Nat BY AskTypes DEF RelayInv
<1>2. /\ UNCHANGED <<asks, serving, conn, grant, relay, cli, down>> /\ calls[j].state = "pending"
      /\ calls' = [calls EXCEPT ![j].state = "failed"] /\ Send(c, Cancels(j))
  BY DEF ChildGivesUp, contractVars, supervisorSide, hostSide
<1>3. /\ DOMAIN calls' = DOMAIN calls
      /\ calls'[j].state = "failed" /\ calls'[j].by = c /\ calls'[j].kind = calls[j].kind
      /\ \A k \in DOMAIN calls \ {j} : calls'[k] = calls[k]
  BY <1>1, <1>2, StateTypes
<1> DEFINE s == Cancels(j)
<1>4. /\ s \in Seq(Requests) /\ \A k : Frame("call", k, TRUE) \notin ToSet(s)
      /\ calls[j].kind # "note" => Frame("cancel", j, TRUE) \in ToSet(s)
  <2> DEFINE e == Frame("cancel", j, TRUE)
             t == <<e>>
  <2>1. e \in Requests /\ \A k : Frame("call", k, TRUE) # e BY <1>1, RequestFrames DEF Frame
  <2>2. t \in Seq(Requests) /\ ToSet(t) = {e} BY <2>1, Single
  <2>3. <<>> \in Seq(Requests) /\ ToSet(<<>>) = {} BY Nothing
  <2>4. calls[j].kind \in {"ask", "note", "read"} BY <1>1, AskTypes DEF Calls, CallKinds
  <2>5. s = IF calls[j].kind \in {"ask", "read"} THEN t ELSE <<>> BY DEF Cancels
  <2> HIDE DEF t, e, s
  <2> QED BY <2>1, <2>2, <2>3, <2>4, <2>5 DEF e
<1>5. Send(c, s) BY <1>2
<1> HIDE DEF s
<1>6. /\ \A d \in Children \ {c} : up'[d] = up[d]
      /\ conn[c] = "ended" => up'[c] = <<>>
      /\ conn[c] # "ended" => up'[c] = up[c] \o s
  BY <1>1, <1>4, <1>5, Sent
<1>7. calls[j].kind # "note" /\ conn[c] # "ended" => Cancelled(j)'
  <2> DEFINE u == up[c]
  <2>1. u \in Seq(Requests) BY <1>1 DEF RelayTypeOK
  <2> HIDE DEF u
  <2>2. ToSet(u \o s) = ToSet(u) \cup ToSet(s) BY <1>4, <2>1, Concat
  <2> QED BY <1>3, <1>4, <1>6, <2>2 DEF Cancelled, u
<1>8. ASSUME NEW k \in DOMAIN calls PROVE CallFits(k)'
  <2> DEFINE d == calls[k].by
  <2>1. CallFits(k) /\ d \in Children BY <1>1, AskTypes DEF RelayInv
  <2>2. /\ k \in DOMAIN calls' /\ calls'[k].by = d /\ calls'[k].kind = calls[k].kind
        /\ calls'[k].state = IF k = j THEN "failed" ELSE calls[k].state
    BY <1>3
  <2>3. /\ conn[d] = "ended" => up'[d] = <<>>
        /\ \/ conn[d] = "ended" \/ up'[d] = up[d]
           \/ \E t \in Seq(Requests) : up'[d] = up[d] \o t /\ Frame("call", k, TRUE) \notin ToSet(t)
    BY <1>1, <1>4, <1>6, <2>1 DEF StagesFit
  <2>4. calls'[k].state = "pending" => calls[k].state = "pending" /\ cli'[d] = "online" /\ (Answered(k) => Answered(k)')
    BY <1>2, <2>1, <2>2 DEF CallFits, Agrees, Answered
  <2>5. calls[k].state = "pending" =>
              \/ calls'[k].state = "pending" \/ calls[k].kind = "note"
              \/ conn[d] = "ended" \/ Cancelled(k)' \/ cli'[d] = "offline" \/ Answered(k)
    BY <1>7, <2>2
  <2>6. calls'[k].state = "answered" => calls[k].state = "answered" \/ True(k, TRUE) BY <2>2
  <2> QED BY <1>1, <1>2, <2>1, <2>2, <2>3, <2>4, <2>5, <2>6, ChildFits
<1> QED BY <1>3, <1>8 DEF AllFit

LEMMA ReadsFits ==
  ASSUME RelayInv, RelayTypeOK', BusMoves, NEW c \in Children, ChildReads(c)
  PROVE  AllFit'
<1> DEFINE f == Head(down[c])
<1>1. RelayTypeOK /\ StagesFit BY DEF RelayInv
<1>2. /\ UNCHANGED <<asks, serving, conn, grant, relay, up>> /\ cli[c] \in {"handshake", "online"}
      /\ down[c] # <<>> /\ down' = [down EXCEPT ![c] = Tail(@)]
      /\ cli' = [cli EXCEPT ![c] = IF f.t = "registered" THEN "online" ELSE @]
      /\ calls' = IF f.t = "answer" /\ calls[f.n].state = "pending"
                  THEN [calls EXCEPT ![f.n].state = IF f.ok THEN "answered" ELSE "failed"]
                  ELSE calls
  BY DEF ChildReads, contractVars, supervisorSide, hostSide
<1>3. f \in Frames /\ ToSet(down[c]) = {f} \cup ToSet(Tail(down[c]))
  <2>1. down[c] \in Seq(Frames) /\ down[c] # <<>> BY <1>1, <1>2 DEF RelayTypeOK
  <2> QED BY <2>1, TailOf
<1>4. f.t = "answer" => f.n \in DOMAIN calls /\ calls[f.n].by = c /\ f = Answer(f.n, f.ok) /\ f.ok \in BOOLEAN
  BY <1>3 DEF RelayInv, DownFits, Frames, Answer, Frame
<1>5. /\ DOMAIN calls' = DOMAIN calls
      /\ \A k \in DOMAIN calls :
           /\ calls'[k].by = calls[k].by /\ calls'[k].kind = calls[k].kind
           /\ calls'[k].state = IF f.t = "answer" /\ k = f.n /\ calls[k].state = "pending"
                                THEN (IF f.ok THEN "answered" ELSE "failed") ELSE calls[k].state
  <2>1. CASE f.t = "answer" /\ calls[f.n].state = "pending"
    <3> DEFINE st == IF f.ok THEN "answered" ELSE "failed"
               n == f.n
    <3>1. calls' = [calls EXCEPT ![n].state = st] /\ st \in {"pending", "answered", "failed"} /\ n \in DOMAIN calls
      BY <1>2, <1>4, <2>1
    <3> HIDE DEF st, n, f
    <3>2. /\ DOMAIN calls' = DOMAIN calls
          /\ calls'[n].state = st /\ calls'[n].by = calls[n].by /\ calls'[n].kind = calls[n].kind
          /\ \A j \in DOMAIN calls \ {n} : calls'[j] = calls[j]
      BY <1>1, <3>1, StateTypes
    <3> QED BY <2>1, <3>2 DEF n, st
  <2>2. CASE ~(f.t = "answer" /\ calls[f.n].state = "pending") BY <1>2, <2>2
  <2> QED BY <2>1, <2>2
<1>6. ASSUME NEW k \in DOMAIN calls PROVE CallFits(k)'
  <2> DEFINE d == calls[k].by
  <2>1. CallFits(k) /\ d \in Children BY <1>1, AskTypes DEF RelayInv
  <2>2. ToSet(down'[d]) \subseteq ToSet(down[d]) /\ (d # c => down'[d] = down[d]) /\ (d = c => down'[d] = Tail(down[d]))
    BY <1>1, <1>2, <1>3, <2>1 DEF RelayTypeOK
  <2>3. calls'[k].state = "pending" => (Answered(k) => Answered(k)')
    <3> SUFFICES ASSUME calls'[k].state = "pending", NEW e \in ToSet(down[d]), e.t = "answer", e.n = k
                 PROVE  \E g \in ToSet(down'[d]) : g.t = "answer" /\ g.n = k
      BY <1>5 DEF Answered
    <3>1. CASE d # c BY <2>2, <3>1
    <3>2. CASE d = c
      <4>1. e # f BY <1>5, <3>2
      <4> QED BY <1>3, <2>2, <3>2, <4>1
    <3> QED BY <3>1, <3>2
  <2>4. calls'[k].state = "pending" => calls[k].state = "pending" /\ cli[d] = "online"
    BY <1>5, <2>1 DEF CallFits, Agrees
  <2>5. /\ cli[d] = "online" => cli'[d] = "online" /\ TRUE
        /\ cli[d] = "offline" => cli'[d] = "offline"
    BY <1>1, <1>2, <2>1, ZenonT(60) DEF RelayTypeOK
  <2>6. calls[k].state = "pending" => calls'[k].state = "pending" \/ Answered(k)
    <3>1. f.t = "answer" /\ f.n = k => Answered(k) BY <1>3, <1>4 DEF Answered
    <3> QED BY <1>5, <3>1
  <2>7. calls'[k].state = "answered" => calls[k].state = "answered" \/ True(k, TRUE)
    <3> SUFFICES ASSUME f.t = "answer", f.n = k, f.ok PROVE True(k, TRUE) BY <1>5
    <3>1. f = Answer(k, TRUE) /\ d = c BY <1>4
    <3>2. Answer(k, TRUE) \in ToSet(down[d]) BY <1>3, <3>1
    <3> QED BY <2>1, <3>2 DEF CallFits, TruthTold
  <2>8. conn[d] = "ended" => up'[d] = <<>> BY <1>1, <1>2, <2>1 DEF StagesFit
  <2>9. up'[d] = up[d] BY <1>2
  <2> QED BY <1>1, <1>2, <1>5, <2>1, <2>2, <2>3, <2>4, <2>5, <2>6, <2>7, <2>8, <2>9, ChildFits
<1> QED BY <1>5, <1>6 DEF AllFit

LEMMA CallsFits ==
  ASSUME RelayInv, RelayTypeOK', BusMoves, NEW c \in Children, NEW kind \in CallKinds, NEW to \in Names, ChildCalls(c, kind, to)
  PROVE  AllFit'
<1>0. RelayTypeOK /\ StagesFit /\ UpFits /\ DownFits BY DEF RelayInv
<1>a. PICK n \in Nat : n = Len(calls) + 1 BY <1>0, AskTypes
<1> DEFINE new == [by |-> c, kind |-> kind, to |-> to, state |-> "pending"]
           e == Frame("call", n, TRUE)
           s == <<e>>
           u == up[c]
<1>1. RelayTypeOK /\ StagesFit /\ UpFits /\ DownFits BY <1>0
<1>2. /\ UNCHANGED <<asks, serving, conn, grant, cli, down>> /\ cli[c] = "online"
      /\ calls' = Append(calls, new) /\ relay' = Append(relay, 0) /\ Send(c, s)
  BY <1>a DEF ChildCalls, contractVars, supervisorSide
<1>3. DOMAIN calls = 1..Len(calls) /\ Len(calls) \in Nat /\ n \in Nat /\ n \notin DOMAIN calls /\ n = Len(calls) + 1
  <2>1. DOMAIN calls = 1..Len(calls) /\ Len(calls) \in Nat BY <1>1, AskTypes
  <2> QED BY <1>a, <2>1
<1>4. /\ DOMAIN calls' = DOMAIN calls \cup {n} /\ calls'[n] = new
      /\ \A k \in DOMAIN calls : calls'[k] = calls[k]
  <2>1. calls \in Seq(Calls) /\ new \in Calls BY <1>1 DEF RelayTypeOK, Calls
  <2> HIDE DEF new
  <2>2. /\ DOMAIN Append(calls, new) = 1..(Len(calls) + 1)
        /\ Append(calls, new)[Len(calls) + 1] = new /\ \A i \in DOMAIN calls : Append(calls, new)[i] = calls[i]
    BY <2>1, Appended
  <2>3. 1..(Len(calls) + 1) = DOMAIN calls \cup {n} BY <1>3
  <2> QED BY <1>2, <2>2, <2>3
<1>5. relay'[n] = 0 /\ \A k \in DOMAIN calls : relay'[k] = relay[k]
  <2>1. relay \in Seq(Nat) /\ 0 \in Nat /\ DOMAIN relay = DOMAIN calls BY <1>1 DEF RelayTypeOK
  <2>2. /\ DOMAIN relay' = 1..(Len(relay) + 1) /\ Len(relay) \in Nat
        /\ relay'[Len(relay) + 1] = 0 /\ \A i \in DOMAIN relay : relay'[i] = relay[i]
    BY <1>2, <2>1, Appended
  <2>3. DOMAIN relay' = DOMAIN calls' BY DEF RelayTypeOK
  <2>4. n \in DOMAIN relay' /\ n \notin DOMAIN relay BY <1>3, <1>4, <2>1, <2>3
  <2>5. DOMAIN relay = 1..Len(relay) BY <2>1, LenProperties
  <2>6. n = Len(relay) + 1 BY <1>3, <2>2, <2>4, <2>5
  <2> QED BY <2>1, <2>2, <2>6
<1>6. s \in Seq(Requests) /\ ToSet(s) = {e} /\ Len(s) = 1
  <2>1. e \in Requests BY <1>3, RequestFrames
  <2> HIDE DEF e
  <2> QED BY <2>1, Single
<1>7. \A k \in DOMAIN calls : Frame("call", k, TRUE) # e BY <1>3 DEF Frame
<1>8. e.t = "call" /\ e.n = n BY DEF Frame
<1>9. u \in Seq(Requests) BY <1>1 DEF RelayTypeOK
<1>10. \A i \in DOMAIN u : u[i] # e /\ u[i] # Frame("cancel", n, TRUE)
  <2>1. \A i \in DOMAIN u : u[i].t \in {"call", "cancel"} => u[i].n # n BY <1>1, <1>3 DEF UpFits
  <2>2. Frame("cancel", n, TRUE).t = "cancel" /\ Frame("cancel", n, TRUE).n = n BY DEF Frame
  <2> HIDE DEF e, u
  <2> QED BY <1>8, <2>1, <2>2
<1> HIDE DEF s
<1>11. /\ \A d \in Children \ {c} : up'[d] = up[d]
       /\ conn[c] = "ended" => up'[c] = <<>>
       /\ conn[c] # "ended" => up'[c] = u \o s
  BY <1>1, <1>2, <1>6, Sent
<1>12. ASSUME NEW k \in DOMAIN calls PROVE CallFits(k)'
  <2> DEFINE d == calls[k].by
  <2>1. CallFits(k) /\ d \in Children BY <1>1, AskTypes DEF RelayInv
  <2>2. k \in DOMAIN calls' /\ calls'[k] = calls[k] /\ relay'[k] = relay[k] BY <1>4, <1>5
  <2>3. Frame("call", k, TRUE) \notin ToSet(s) BY <1>6, <1>7
  <2>4. /\ conn[d] = "ended" => up'[d] = <<>>
        /\ \/ conn[d] = "ended" \/ up'[d] = up[d]
           \/ \E t \in Seq(Requests) : up'[d] = up[d] \o t /\ Frame("call", k, TRUE) \notin ToSet(t)
    BY <1>1, <1>6, <1>11, <2>1, <2>3 DEF StagesFit
  <2>5. Answered(k)' <=> Answered(k) BY <1>2, <2>2 DEF Answered
  <2>6. calls'[k].state = "pending" => calls[k].state = "pending" /\ cli'[d] = "online" /\ (Answered(k) => Answered(k)')
    BY <1>2, <2>1, <2>2, <2>5 DEF CallFits, Agrees
  <2>7. ToSet(down'[d]) \subseteq ToSet(down[d]) /\ (cli[d] = "offline" => cli'[d] = "offline") BY <1>2
  <2>8. calls'[k].state = calls[k].state BY <2>2
  <2> QED BY <1>1, <1>2, <2>1, <2>2, <2>4, <2>6, <2>7, <2>8, ChildFits
<1>13. CallFits(n)'
  <2>1. calls'[n].by = c /\ calls'[n].kind = kind /\ calls'[n].state = "pending" /\ relay'[n] = 0 /\ n \notin serving'
    BY <1>1, <1>2, <1>3, <1>4, <1>5, SMTT(30) DEF RelayTypeOK
  <2>2. ~Answered(n)' /\ \A ok \in BOOLEAN : Answer(n, ok) \notin ToSet(down'[c])
    <3>1. \A g \in ToSet(down'[c]) : g.t = "answer" => g.n # n BY <1>1, <1>2, <1>3 DEF DownFits
    <3>2. \A ok : Answer(n, ok).t = "answer" /\ Answer(n, ok).n = n BY DEF Answer, Frame
    <3> QED BY <2>1, <3>1, <3>2 DEF Answered
  <2>3. ~OpenAtHost(n)' BY <2>1 DEF OpenAtHost, OpenQuestion
  <2>4. HeldFor(n)' BY <2>1 DEF HeldFor
  <2>5. TruthTold(n)' BY <2>1, <2>2 DEF TruthTold
  <2>6. conn[c] # "ended" =>
          /\ e \in ToSet(up'[c])
          /\ DOMAIN up'[c] = 1..(Len(u) + 1) /\ Len(u) \in Nat /\ DOMAIN u = 1..Len(u)
          /\ \A i \in DOMAIN u : up'[c][i] = u[i]
    <3>1. /\ ToSet(u \o s) = ToSet(u) \cup ToSet(s) /\ Len(u) \in Nat
          /\ DOMAIN (u \o s) = 1..(Len(u) + Len(s)) /\ \A i \in DOMAIN u : (u \o s)[i] = u[i]
      <4>1. u \in Seq(Requests) /\ s \in Seq(Requests) BY <1>6, <1>9
      <4> HIDE DEF u, e
      <4>2. /\ Len(u) \in Nat /\ DOMAIN (u \o s) = 1..(Len(u) + Len(s))
            /\ \A i \in DOMAIN u : (u \o s)[i] = u[i]
            /\ ToSet(u \o s) = ToSet(u) \cup ToSet(s)
        BY <4>1, Concat
      <4> QED BY <4>2
    <3>2. DOMAIN u = 1..Len(u) BY <1>9, Element
    <3> HIDE DEF u, e
    <3> QED BY <1>6, <1>11, <3>1, <3>2
  <2>7. Agrees(n)'
    <3>1. conn[c] # "ended" => Asked(n)' BY <2>1, <2>6 DEF Asked
    <3> QED BY <1>2, <2>1, <2>3, <3>1 DEF Agrees
  <2>8. OnItsWay(n)'
    <3> DEFINE v == up'[c]
    <3>1. CASE conn[c] = "ended" BY <1>11, <2>1, <3>1, Nothing DEF OnItsWay
    <3>2. CASE conn[c] # "ended"
      <4>0. /\ DOMAIN v = 1..(Len(u) + 1) /\ Len(u) \in Nat /\ DOMAIN u = 1..Len(u)
            /\ \A i \in DOMAIN u : v[i] = u[i]
        BY <2>6, <3>2
      <4>1. \A i \in DOMAIN v : i \in Nat /\ (i = Len(u) + 1 \/ (i \in DOMAIN u /\ v[i] = u[i]))
        <5> HIDE DEF u, v
        <5> QED BY <4>0
      <4>2. \A i \in DOMAIN v : v[i] = e => i = Len(u) + 1 BY <1>10, <4>1
      <4>3. \A i \in DOMAIN v : v[i] = Frame("cancel", n, TRUE) => FALSE
        <5>1. v[Len(u) + 1] = e \/ \A i \in DOMAIN u : v[i] # e
          BY <1>10, <2>6, <3>2
        <5>2. e \in ToSet(v) BY <2>6, <3>2
        <5>3. v[Len(u) + 1] = e BY <4>2, <5>2 DEF ToSet
        <5>4. e # Frame("cancel", n, TRUE) BY DEF Frame
        <5> QED BY <1>10, <4>1, <5>3, <5>4
      <4> QED BY <2>1, <2>2, <4>2, <4>3 DEF OnItsWay
    <3> QED BY <3>1, <3>2
  <2> QED BY <2>4, <2>5, <2>7, <2>8 DEF CallFits
<1> QED BY <1>4, <1>12, <1>13 DEF AllFit

---------------------------------------------------------------------------
(* Connections, stages, and whose frames are on which wire.                *)

\* What is written up the wire, and what is left of it.
LEMMA UpFitsKept ==
  ASSUME RelayTypeOK, UpFits, DOMAIN calls \subseteq DOMAIN calls',
         \A k \in DOMAIN calls : calls'[k].by = calls[k].by,
         \A c \in Children : \A f \in ToSet(up'[c]) :
           \/ f \in ToSet(up[c])
           \/ f.t \in {"call", "cancel"} => f.n \in DOMAIN calls' /\ calls'[f.n].by = c
  PROVE  UpFits'
<1> SUFFICES ASSUME NEW c \in Children, NEW i \in DOMAIN up'[c], up'[c][i].t \in {"call", "cancel"}
             PROVE  up'[c][i].n \in DOMAIN calls' /\ calls'[up'[c][i].n].by = c
  BY DEF UpFits
<1>1. up'[c][i] \in ToSet(up'[c]) BY DEF ToSet
<1>2. CASE up'[c][i] \in ToSet(up[c])
  <2>1. PICK j \in DOMAIN up[c] : up[c][j] = up'[c][i] BY <1>2 DEF ToSet
  <2> QED BY <2>1 DEF UpFits
<1> QED BY <1>1, <1>2

LEMMA CutFits == ASSUME RelayTypeOK, UpFits, Cut, UNCHANGED calls PROVE UpFits'
<1>1. \A c \in Children : up'[c] = <<>> \/ up'[c] = up[c] BY DEF Cut
<1>2. \A c \in Children : \A f \in ToSet(up'[c]) : f \in ToSet(up[c]) BY <1>1, Nothing
<1> QED BY <1>2, UpFitsKept

LEMMA SendFits ==
  ASSUME RelayTypeOK, UpFits, NEW c \in Children, NEW t \in Seq(Requests), Send(c, t),
         DOMAIN calls \subseteq DOMAIN calls', \A k \in DOMAIN calls : calls'[k].by = calls[k].by,
         \A f \in ToSet(t) : f.t \in {"call", "cancel"} => f.n \in DOMAIN calls' /\ calls'[f.n].by = c
  PROVE  UpFits'
<1>1. up[c] \in Seq(Requests) BY DEF RelayTypeOK
<1> DEFINE u == up[c]
<1>2. ToSet(u \o t) = ToSet(u) \cup ToSet(t)
  <2>1. u \in Seq(Requests) BY <1>1
  <2> HIDE DEF u
  <2> QED BY <2>1, Concat
<1>3. /\ \A d \in Children \ {c} : up'[d] = up[d]
      /\ up'[c] = <<>> \/ up'[c] = u \o t
  BY Sent
<1>4. \A f \in ToSet(up'[c]) : f \in ToSet(up[c]) \/ f \in ToSet(t) BY <1>2, <1>3, Nothing
<1> QED BY <1>3, <1>4, UpFitsKept

\* Frames that answer only calls of the child they go to.
Speaks(frames) ==
  \A c \in Children : \A f \in ToSet(frames[c]) :
    f.t = "answer" => f.n \in DOMAIN calls /\ calls[f.n].by = c

LEMMA SpokenFits ==
  ASSUME RelayTypeOK, DownFits, NEW frames \in [Children -> Seq(Frames)], Speaks(frames), Write(frames),
         UNCHANGED calls
  PROVE  DownFits'
<1> SUFFICES ASSUME NEW c \in Children, NEW f \in ToSet(down'[c]), f.t = "answer"
             PROVE  f.n \in DOMAIN calls /\ calls[f.n].by = c
  BY DEF DownFits
<1>1. ~Reaches(c) => down'[c] = down[c] BY Written
<1>2. Reaches(c) =>
        /\ ToSet(down'[c]) = ToSet(down[c]) \cup ToSet(frames[c]) \cup ToSet(AnswersTo(c))
        /\ ToSet(AnswersTo(c)) = {Answer(k, asks'[relay[k]].phase = "replied") : k \in SettledNow(c)}
  BY Written
<1>3. \A g \in ToSet(AnswersTo(c)) : Reaches(c) => g.n \in DOMAIN calls /\ calls[g.n].by = c
  <2>1. \A k, ok : Answer(k, ok).n = k BY DEF Answer, Frame
  <2>2. \A k \in SettledNow(c) : k \in DOMAIN calls /\ calls[k].by = c BY DEF SettledNow, RelayedFor
  <2> QED BY <1>2, <2>1, <2>2
<1> QED BY <1>1, <1>2, <1>3 DEF DownFits, Speaks

LEMMA QuietSpeaks == \A frames : NoAnswer(frames) => Speaks(frames)
BY DEF NoAnswer, Speaks

LEMMA NobodySpeaks == NoFrames \in [Children -> Seq(Frames)] /\ Speaks(NoFrames)
BY ToNone, Nothing DEF Speaks

LEMMA AnswerSpeaks ==
  ASSUME RelayTypeOK, NEW k \in DOMAIN calls, NEW ok \in BOOLEAN
  PROVE  /\ To(calls[k].by, <<Answer(k, ok)>>) \in [Children -> Seq(Frames)]
         /\ Speaks(To(calls[k].by, <<Answer(k, ok)>>))
<1> DEFINE c == calls[k].by
           e == Answer(k, ok)
           r == <<e>>
<1>1. c \in Children /\ k \in Nat BY AskTypes
<1>2. e \in Frames /\ e.n = k BY <1>1, AnswerFrame DEF Answer, Frame
<1>3. r \in Seq(Frames) /\ ToSet(r) = {e} BY <1>2, Single
<1> HIDE DEF e, r
<1>4. To(c, r) \in [Children -> Seq(Frames)] /\ To(c, r)[c] = r /\ \A d \in Children \ {c} : To(c, r)[d] = <<>>
  BY <1>1, <1>3, ToOne
<1>5. Speaks(To(c, r)) BY <1>1, <1>2, <1>3, <1>4, Nothing DEF Speaks
<1> QED BY <1>4, <1>5 DEF r, e

LEMMA GreetSpeaks ==
  ASSUME RelayTypeOK, NEW c \in Children
  PROVE  To(c, Greet(c)) \in [Children -> Seq(Frames)] /\ NoAnswer(To(c, Greet(c)))
<1> DEFINE g == Greet(c)
<1>1. g \in Seq(Frames) BY GreetFrames
<1>2. \A e \in ToSet(g) : e.t # "answer" BY GreetSays DEF Frame
<1> HIDE DEF g
<1>3. To(c, g) \in [Children -> Seq(Frames)] /\ To(c, g)[c] = g /\ \A d \in Children \ {c} : To(c, g)[d] = <<>>
  BY <1>1, ToOne
<1> QED BY <1>2, <1>3, Nothing DEF g, NoAnswer

LEMMA SteerSpeaks ==
  ASSUME RelayTypeOK, NEW c \in Children, NEW n \in Nat
  PROVE  /\ To(c, <<Frame("steer", n, TRUE)>>) \in [Children -> Seq(Frames)]
         /\ NoAnswer(To(c, <<Frame("steer", n, TRUE)>>))
<1> DEFINE e == Frame("steer", n, TRUE)
           r == <<e>>
<1>1. e \in Frames /\ e.t = "steer" BY DEF Frame, Frames
<1>2. r \in Seq(Frames) /\ ToSet(r) = {e} BY <1>1, Single
<1> HIDE DEF e, r
<1>3. To(c, r) \in [Children -> Seq(Frames)] /\ To(c, r)[c] = r /\ \A d \in Children \ {c} : To(c, r)[d] = <<>>
  BY <1>2, ToOne
<1> QED BY <1>1, <1>2, <1>3, Nothing DEF r, e, NoAnswer

LEMMA DrainedSpeaks ==
  ASSUME RelayTypeOK, NEW q
  PROVE  Drained(q) \in [Children -> Seq(Frames)] /\ NoAnswer(Drained(q))
BY DrainedFrames DEF NoAnswer, Frame

\* The frames of the host's answer to a call it takes.
LEMMA TakesSpeak ==
  ASSUME RelayTypeOK, NEW c \in Children, NEW k \in DOMAIN calls, calls[k].by = c, HostTakesCall(c, k)
  PROVE  UNCHANGED down \/ \E frames \in [Children -> Seq(Frames)] : Speaks(frames) /\ Write(frames)
<1>1. ASSUME NEW ok \in BOOLEAN, Write(To(c, <<Answer(k, ok)>>))
      PROVE  \E frames \in [Children -> Seq(Frames)] : Speaks(frames) /\ Write(frames)
  BY <1>1, AnswerSpeaks
<1>2. ASSUME NEW q, Write(Drained(q))
      PROVE  \E frames \in [Children -> Seq(Frames)] : Speaks(frames) /\ Write(frames)
  BY <1>2, DrainedSpeaks, QuietSpeaks
<1>3. ASSUME NEW q, Write(WithReceipt(q, c, k))
      PROVE  \E frames \in [Children -> Seq(Frames)] : Speaks(frames) /\ Write(frames)
  <2> DEFINE F == WithReceipt(q, c, k)
  <2>1. /\ F \in [Children -> Seq(Frames)]
        /\ ToSet(F[c]) \subseteq {Frame("deliver", MsgId, TRUE), Answer(k, TRUE)}
        /\ \A d \in Children \ {c} : ToSet(F[d]) \subseteq {Frame("deliver", MsgId, TRUE)}
    BY ReceiptFrames
  <2>2. Frame("deliver", MsgId, TRUE).t # "answer" /\ Answer(k, TRUE).n = k BY DEF Answer, Frame
  <2>3. Write(F) BY <1>3
  <2> HIDE DEF F
  <2>4. Speaks(F) BY <2>1, <2>2 DEF Speaks
  <2> QED BY <2>1, <2>3, <2>4
<1> QED BY <1>1, <1>2, <1>3 DEF HostTakesCall, HostAsks, HostSends, HostStartsReading, Receipt, WithReceipt

\* The relation of the stages, by what a step may do to them.
LEMMA StagesKept ==
  ASSUME RelayTypeOK, RelayTypeOK', StagesFit, UNCHANGED calls,
         \A c \in Children :
           /\ leg'[c] = leg[c] \/ leg'[c] = "settled"
           /\ cli'[c] = cli[c]
           /\ conn'[c] = conn[c] \/ (conn[c] # "none" /\ conn'[c] \in {"bound", "ended"})
           /\ grant'[c] = "bound" => conn'[c] = "bound"
           /\ conn'[c] \in {"none", "open"} => down'[c] = down[c]
           /\ conn'[c] = "ended" => up'[c] = <<>> \/ (conn[c] = "ended" /\ up'[c] = up[c])
  PROVE  StagesFit'
BY DEF StagesFit

LEMMA Unwritten ==
  ASSUME RelayTypeOK, NEW frames \in [Children -> Seq(Frames)], Write(frames) \/ UNCHANGED down
  PROVE  \A c \in Children : conn'[c] # "bound" => down'[c] = down[c]
BY Written DEF Reaches

Wires == StagesFit /\ UpFits /\ DownFits

LEMMA CutWires ==
  ASSUME RelayInv, RelayTypeOK', Cut, Write(NoFrames), UNCHANGED <<calls, cli>>,
         \A c \in Children :
           /\ leg'[c] = leg[c] \/ leg'[c] = "settled"
           /\ conn'[c] = conn[c] \/ (conn[c] # "none" /\ conn'[c] = "ended")
           /\ grant'[c] = "bound" => conn'[c] = "bound"
  PROVE  Wires'
<1>1. RelayTypeOK /\ StagesFit /\ UpFits /\ DownFits BY DEF RelayInv
<1>2. UpFits' BY <1>1, CutFits
<1>3. DownFits' BY <1>1, NobodySpeaks, SpokenFits
<1>4. \A c \in Children : conn'[c] # "bound" => down'[c] = down[c] BY <1>1, NobodySpeaks, Unwritten
<1>5. \A c \in Children : conn'[c] = "ended" => up'[c] = <<>> BY DEF Cut
<1>6. StagesFit' BY <1>1, <1>4, <1>5, StagesKept
<1> QED BY <1>2, <1>3, <1>6 DEF Wires

\* What HostDrops does to the connections and grants.
LEMMA DropsWires ==
  ASSUME RelayInv, NEW c \in Children, HostDrops(c), conn[c] # "none"
  PROVE  \A d \in Children :
           /\ conn'[d] = IF d = c THEN "ended" ELSE conn[d]
           /\ grant'[d] = "bound" => conn'[d] = "bound"
<1>1. conn' = [d \in Children |-> IF d \in {c} THEN "ended" ELSE conn[d]] BY DEF HostDrops, Disconnect
<1>2. grant' = [d \in Children |-> IF d \in GrantBoundOf({c}) THEN "revoked" ELSE grant[d]]
  BY DEF HostDrops, Revoke
<1>3. \A d \in Children : grant[d] = "bound" => conn[d] = "bound" BY DEF RelayInv, StagesFit
<1> QED BY <1>1, <1>2, <1>3 DEF GrantBoundOf

LEMMA TeardownWires ==
  ASSUME RelayInv, RelayTypeOK', NEW c \in Children,
         BrokerClose \/ RevokeReader(c) \/ LegSettles(c) \/ HostSeesClose(c)
  PROVE  Wires'
<1>1. RelayTypeOK /\ StagesFit BY DEF RelayInv
<1>2. Cut /\ Write(NoFrames) /\ UNCHANGED <<calls, cli>>
  BY DEF BrokerClose, RevokeReader, LegSettles, HostSeesClose, childSide
<1>3. CASE BrokerClose
  <2>1. \A d \in Children :
           /\ leg'[d] = leg[d]
           /\ conn'[d] = (IF conn[d] \in {"open", "bound"} THEN "ended" ELSE conn[d])
           /\ grant'[d] # "bound"
    BY <1>3 DEF BrokerClose, Disconnect, Granted
  <2> QED BY <1>2, <2>1, CutWires
<1>4. CASE RevokeReader(c)
  <2>1. CASE grant[c] = "bound"
    <3>1. HostDrops(c) /\ conn[c] = "bound" /\ leg' = leg BY <1>1, <1>4, <2>1 DEF RevokeReader, StagesFit
    <3> QED BY <1>2, <3>1, DropsWires, CutWires
  <2>2. CASE grant[c] # "bound"
    <3>1. Revoke({c}) /\ UNCHANGED <<conn, leg>> BY <1>4, <2>2 DEF RevokeReader
    <3>2. \A d \in Children : grant'[d] = "bound" => grant[d] = "bound" BY <3>1 DEF Revoke
    <3> QED BY <1>1, <1>2, <3>1, <3>2, CutWires DEF StagesFit
  <2> QED BY <2>1, <2>2
<1>5. CASE LegSettles(c)
  <2>1. \A d \in Children :
           /\ leg'[d] = leg[d] \/ leg'[d] = "settled"
           /\ conn'[d] = IF d \in GrantBoundOf({c}) THEN "ended" ELSE conn[d]
           /\ grant'[d] = IF d = c /\ Granted(c) THEN "revoked" ELSE grant[d]
    BY <1>1, <1>5, ZenonT(60) DEF LegSettles, Disconnect, RelayTypeOK
  <2>2. \A d \in Children : d \in GrantBoundOf({c}) => d = c /\ grant[d] = "bound" BY DEF GrantBoundOf
  <2>3. \A d \in Children : grant[d] = "bound" => conn[d] = "bound" BY <1>1 DEF StagesFit
  <2>4. \A d \in Children :
           /\ leg'[d] = leg[d] \/ leg'[d] = "settled"
           /\ conn'[d] = conn[d] \/ (conn[d] # "none" /\ conn'[d] = "ended")
           /\ grant'[d] = "bound" => conn'[d] = "bound"
    BY <2>1, <2>2, <2>3 DEF Granted
  <2> QED BY <1>2, <2>4, CutWires
<1>6. CASE HostSeesClose(c)
  <2>1. HostDrops(c) /\ conn[c] # "none" /\ leg' = leg BY <1>6 DEF HostSeesClose
  <2> QED BY <1>2, <2>1, DropsWires, CutWires
<1> QED BY <1>3, <1>4, <1>5, <1>6

\* Steps that write to the children and move nothing else of the connections.
LEMMA SpeakWires ==
  ASSUME RelayInv, RelayTypeOK', UNCHANGED <<leg, cli, conn, grant, calls, up>>,
         UNCHANGED down \/ \E frames \in [Children -> Seq(Frames)] : Speaks(frames) /\ Write(frames)
  PROVE  Wires'
<1>1. RelayTypeOK /\ StagesFit /\ UpFits /\ DownFits BY DEF RelayInv
<1>2. UpFits' BY <1>1 DEF UpFits
<1>3. DownFits' BY <1>1, SpokenFits DEF DownFits
<1>4. \A c \in Children : conn'[c] # "bound" => down'[c] = down[c] BY <1>1, Unwritten
<1>5. StagesFit' BY <1>1, <1>4, StagesKept DEF StagesFit
<1> QED BY <1>2, <1>3, <1>5 DEF Wires

LEMMA QuietWires ==
  ASSUME RelayInv, RelayTypeOK', Ensure \/ HostUp \/ HostFails \/ UNCHANGED relayVars PROVE Wires'
<1>1. UNCHANGED <<leg, cli, conn, grant, calls, up, down>>
  BY DEF Ensure, HostUp, HostFails, relayVars, supervisorSide, hostSide, childSide, wire
<1> QED BY <1>1, SpeakWires

LEMMA SupervisorWires ==
  ASSUME RelayInv, RelayTypeOK', NEW c \in Children, Steer(c) \/ SupervisorWrites(c) PROVE Wires'
<1>1. RelayTypeOK BY DEF RelayInv
<1>2. CASE Steer(c)
  <2>1. UNCHANGED <<leg, cli, conn, grant, calls, up>> BY <1>2 DEF Steer, hostSide, childSide
  <2>2. steered'[c] \in Nat BY DEF RelayTypeOK
  <2>3. UNCHANGED down \/ Write(To(c, <<Frame("steer", steered'[c], TRUE)>>)) BY <1>2 DEF Steer
  <2> DEFINE n == steered'[c]
  <2>4. n \in Nat /\ (UNCHANGED down \/ Write(To(c, <<Frame("steer", n, TRUE)>>))) BY <2>2, <2>3
  <2> HIDE DEF n
  <2>5. To(c, <<Frame("steer", n, TRUE)>>) \in [Children -> Seq(Frames)] /\ Speaks(To(c, <<Frame("steer", n, TRUE)>>))
    BY <1>1, <2>4, SteerSpeaks, QuietSpeaks
  <2> QED BY <2>1, <2>4, <2>5, SpeakWires
<1>3. CASE SupervisorWrites(c)
  <2> DEFINE F == Drained(Message(Supervisor, c, "note"))
  <2>1. UNCHANGED <<leg, cli, conn, grant, calls, up>> /\ Write(F)
    BY <1>3 DEF SupervisorWrites, supervisorSide, childSide
  <2>2. F \in [Children -> Seq(Frames)] /\ Speaks(F) BY <1>1, DrainedSpeaks, QuietSpeaks
  <2> QED BY <2>1, <2>2, SpeakWires
<1> QED BY <1>2, <1>3

LEMMA SettlesWires ==
  ASSUME RelayInv, RelayTypeOK', NEW i \in DOMAIN asks, NEW r \in {"replied", "timeout"}, Settles(i, r) PROVE Wires'
<1>1. UNCHANGED <<leg, cli, conn, grant, calls, up>> /\ Write(NoFrames)
  BY DEF Settles, AskCloses, supervisorSide, hostSide, childSide
<1> QED BY <1>1, NobodySpeaks, SpeakWires

LEMMA AnswersReadWires ==
  ASSUME RelayInv, RelayTypeOK', NEW k \in DOMAIN calls, NEW ok \in BOOLEAN, HostAnswersRead(k, ok) PROVE Wires'
<1>1. UNCHANGED <<leg, cli, conn, grant, calls, up>> /\ Write(To(calls[k].by, <<Answer(k, ok)>>)) /\ RelayTypeOK
  BY DEF HostAnswersRead, supervisorSide, childSide, RelayInv
<1> QED BY <1>1, AnswerSpeaks, SpeakWires

LEMMA SpawnWires ==
  ASSUME RelayInv, RelayTypeOK', NEW c \in Children, NEW reader \in BOOLEAN, SpawnChild(c, reader) PROVE Wires'
<1>1. RelayTypeOK /\ StagesFit /\ UpFits /\ DownFits BY DEF RelayInv
<1>2. /\ UNCHANGED <<calls, conn, up, down>>
      /\ leg[c] = "none" /\ leg' = [leg EXCEPT ![c] = "running"]
      /\ grant' = [grant EXCEPT ![c] = IF reader THEN "active" ELSE "none"]
      /\ cli' = [cli EXCEPT ![c] = "dialing"]
  BY DEF SpawnChild, hostSide, wire
<1>3. StagesFit'
  <2> SUFFICES ASSUME NEW d \in Children
               PROVE  /\ leg'[d] = "none" => cli'[d] = "off"
                      /\ cli'[d] \in {"off", "dialing"} => conn[d] = "none" /\ \A k \in DOMAIN calls : calls[k].by # d
                      /\ grant'[d] = "bound" => conn[d] = "bound"
                      /\ conn[d] \in {"none", "open"} => down[d] = <<>>
                      /\ conn[d] = "ended" => up[d] = <<>>
    BY <1>2 DEF StagesFit
  <2>1. /\ leg'[d] = (IF d = c THEN "running" ELSE leg[d])
        /\ cli'[d] = (IF d = c THEN "dialing" ELSE cli[d])
        /\ grant'[d] = (IF d = c THEN (IF reader THEN "active" ELSE "none") ELSE grant[d])
    BY <1>1, <1>2 DEF RelayTypeOK
  <2>2. cli[c] = "off" BY <1>1, <1>2 DEF StagesFit
  <2>3. grant'[d] = "bound" => grant[d] = "bound" BY <2>1
  <2> QED BY <1>1, <2>1, <2>2, <2>3 DEF StagesFit
<1>4. UpFits' /\ DownFits' BY <1>1, <1>2 DEF UpFits, DownFits
<1> QED BY <1>3, <1>4 DEF Wires

LEMMA ConnectsWires ==
  ASSUME RelayInv, RelayTypeOK', NEW c \in Children, Connects(c) PROVE Wires'
<1>1. RelayTypeOK /\ StagesFit /\ UpFits /\ DownFits BY DEF RelayInv
<1> DEFINE e == Frame("register", 0, TRUE)
           r == <<e>>
<1>2. /\ UNCHANGED <<calls, leg, grant, down>> /\ cli[c] = "dialing"
      /\ cli' = [cli EXCEPT ![c] = "handshake"] /\ conn' = [conn EXCEPT ![c] = "open"]
      /\ up' = [up EXCEPT ![c] = r]
  BY DEF Connects, supervisorSide
<1>3. StagesFit'
  <2> SUFFICES ASSUME NEW d \in Children
               PROVE  /\ leg[d] = "none" => cli'[d] = "off"
                      /\ cli'[d] \in {"off", "dialing"} => conn'[d] = "none" /\ \A k \in DOMAIN calls : calls[k].by # d
                      /\ grant[d] = "bound" => conn'[d] = "bound"
                      /\ conn'[d] \in {"none", "open"} => down[d] = <<>>
                      /\ conn'[d] = "ended" => up'[d] = <<>>
    BY <1>2 DEF StagesFit
  <2>1. /\ cli'[d] = (IF d = c THEN "handshake" ELSE cli[d])
        /\ conn'[d] = (IF d = c THEN "open" ELSE conn[d])
        /\ up'[d] = (IF d = c THEN r ELSE up[d])
    BY <1>1, <1>2 DEF RelayTypeOK
  <2>2. conn[c] = "none" BY <1>1, <1>2 DEF StagesFit
  <2>3. leg[c] # "none" BY <1>1, <1>2 DEF StagesFit
  <2> HIDE DEF r
  <2>4. CASE d = c BY <1>1, <2>1, <2>2, <2>3, <2>4 DEF StagesFit
  <2>5. CASE d # c BY <1>1, <2>1, <2>5 DEF StagesFit
  <2> QED BY <2>4, <2>5
<1>4. ToSet(r) = {e} /\ e.t = "register"
  <2>1. e \in Requests /\ e.t = "register" BY RequestFrames DEF Frame
  <2> HIDE DEF e
  <2> QED BY <2>1, Single
<1> HIDE DEF e, r
<1>5. UpFits'
  <2>1. \A d \in Children : up'[d] = IF d = c THEN r ELSE up[d] BY <1>1, <1>2 DEF RelayTypeOK
  <2> QED BY <1>1, <1>2, <1>4, <2>1, UpFitsKept
<1>6. DownFits' BY <1>1, <1>2 DEF DownFits
<1> QED BY <1>3, <1>5, <1>6 DEF Wires

LEMMA ChildLeavesWires ==
  ASSUME RelayInv, RelayTypeOK', NEW c \in Children, NEW bye \in BOOLEAN, ChildGoes(c, bye) \/ ChildSeesClose(c)
  PROVE  Wires'
<1>1. RelayTypeOK /\ StagesFit /\ UpFits /\ DownFits BY DEF RelayInv
<1>2. /\ UNCHANGED <<leg, conn, grant>> /\ cli[c] \in {"dialing", "handshake", "online"}
      /\ FailPending(c) /\ cli' = [cli EXCEPT ![c] = "offline"] /\ down' = [down EXCEPT ![c] = <<>>]
  BY DEF ChildGoes, ChildSeesClose, supervisorSide, hostSide
<1>3. DOMAIN calls' = DOMAIN calls /\ \A k \in DOMAIN calls : calls'[k].by = calls[k].by
  BY <1>1, <1>2, FailTypes
<1>4. UpFits' /\ \A d \in Children : conn[d] = "ended" => up'[d] = <<>>
  <2>1. CASE ChildSeesClose(c)
    <3>1. up' = up BY <2>1 DEF ChildSeesClose
    <3>2. UpFits' BY <1>1, <1>3, <3>1, UpFitsKept
    <3> QED BY <1>1, <3>1, <3>2 DEF StagesFit
  <2>2. ASSUME NEW t \in Seq(Requests), Send(c, t), \A f \in ToSet(t) : f.t \notin {"call", "cancel"}
        PROVE  UpFits' /\ \A d \in Children : conn[d] = "ended" => up'[d] = <<>>
    <3>1. UpFits' BY <1>1, <1>3, <2>2, SendFits
    <3>2. (\A d \in Children \ {c} : up'[d] = up[d]) /\ (conn[c] = "ended" => up'[c] = <<>>)
      BY <1>1, <2>2, Sent
    <3> QED BY <1>1, <3>1, <3>2 DEF StagesFit
  <2>3. CASE ChildGoes(c, bye)
    <3> DEFINE e == Frame("bye", 0, TRUE)
               b == <<e>>
    <3>1. e \in Requests /\ e.t = "bye" BY RequestFrames DEF Frame
    <3>2. b \in Seq(Requests) /\ ToSet(b) = {e} BY <3>1, Single
    <3>3. <<>> \in Seq(Requests) /\ ToSet(<<>>) = {} BY Nothing
    <3>4. Send(c, b) \/ Send(c, <<>>) BY <2>3 DEF ChildGoes
    <3> HIDE DEF b, e
    <3> QED BY <2>2, <3>1, <3>2, <3>3, <3>4
  <2> QED BY <2>1, <2>3
<1>5. \A d \in Children : /\ down'[d] = IF d = c THEN <<>> ELSE down[d]
                          /\ cli'[d] = IF d = c THEN "offline" ELSE cli[d]
  BY <1>1, <1>2 DEF RelayTypeOK
<1>6. DownFits'
  <2> SUFFICES ASSUME NEW d \in Children, NEW f \in ToSet(down'[d]), f.t = "answer"
               PROVE  f.n \in DOMAIN calls' /\ calls'[f.n].by = d
    BY DEF DownFits
  <2>1. d # c BY <1>5, Nothing
  <2> QED BY <1>1, <1>3, <1>5, <2>1 DEF DownFits
<1>7. StagesFit'
  <2> SUFFICES ASSUME NEW d \in Children
               PROVE  /\ leg'[d] = "none" => cli'[d] = "off"
                      /\ cli'[d] \in {"off", "dialing"} => conn'[d] = "none" /\ \A k \in DOMAIN calls' : calls'[k].by # d
                      /\ grant'[d] = "bound" => conn'[d] = "bound"
                      /\ conn'[d] \in {"none", "open"} => down'[d] = <<>>
                      /\ conn'[d] = "ended" => up'[d] = <<>>
    BY DEF StagesFit
  <2>1. leg[c] # "none" BY <1>1, <1>2 DEF StagesFit
  <2>2. CASE d = c BY <1>1, <1>2, <1>4, <1>5, <2>1, <2>2 DEF StagesFit
  <2>3. CASE d # c BY <1>1, <1>2, <1>3, <1>4, <1>5, <2>3 DEF StagesFit
  <2> QED BY <2>2, <2>3
<1> QED BY <1>4, <1>6, <1>7 DEF Wires

LEMMA GivesUpWires ==
  ASSUME RelayInv, RelayTypeOK', NEW j \in DOMAIN calls, ChildGivesUp(j) PROVE Wires'
<1> DEFINE c == calls[j].by
           t == Cancels(j)
<1>1. RelayTypeOK /\ StagesFit /\ UpFits /\ DownFits /\ c \in Children /\ j \in Nat BY AskTypes DEF RelayInv
<1>2. /\ UNCHANGED <<leg, conn, grant, cli, down>>
      /\ calls' = [calls EXCEPT ![j].state = "failed"] /\ Send(c, t)
  BY DEF ChildGivesUp, supervisorSide, hostSide
<1>3. DOMAIN calls' = DOMAIN calls /\ \A k \in DOMAIN calls : calls'[k].by = calls[k].by
  BY <1>1, <1>2, StateTypes
<1>4. t \in Seq(Requests) /\ \A f \in ToSet(t) : f.n = j
  <2> DEFINE e == Frame("cancel", j, TRUE)
             b == <<e>>
  <2>1. e \in Requests /\ e.n = j BY <1>1, RequestFrames DEF Frame
  <2>2. b \in Seq(Requests) /\ ToSet(b) = {e} BY <2>1, Single
  <2>3. <<>> \in Seq(Requests) /\ ToSet(<<>>) = {} BY Nothing
  <2>4. t = b \/ t = <<>> BY DEF Cancels
  <2> HIDE DEF b, e, t
  <2> QED BY <2>1, <2>2, <2>3, <2>4
<1> HIDE DEF t
<1>5. UpFits' BY <1>1, <1>2, <1>3, <1>4, SendFits
<1>6. (\A d \in Children \ {c} : up'[d] = up[d]) /\ (conn[c] = "ended" => up'[c] = <<>>)
  BY <1>1, <1>2, <1>4, Sent
<1>7. DownFits' BY <1>1, <1>2, <1>3 DEF DownFits
<1>8. StagesFit' BY <1>1, <1>2, <1>3, <1>6 DEF StagesFit
<1> QED BY <1>5, <1>7, <1>8 DEF Wires

LEMMA ReadsWires ==
  ASSUME RelayInv, RelayTypeOK', NEW c \in Children, ChildReads(c) PROVE Wires'
<1> DEFINE f == Head(down[c])
<1>1. RelayTypeOK /\ StagesFit /\ UpFits /\ DownFits BY DEF RelayInv
<1>2. /\ UNCHANGED <<leg, conn, grant, up>> /\ cli[c] \in {"handshake", "online"}
      /\ down[c] # <<>> /\ down' = [down EXCEPT ![c] = Tail(@)]
      /\ cli' = [cli EXCEPT ![c] = IF f.t = "registered" THEN "online" ELSE @]
      /\ calls' = IF f.t = "answer" /\ calls[f.n].state = "pending"
                  THEN [calls EXCEPT ![f.n].state = IF f.ok THEN "answered" ELSE "failed"]
                  ELSE calls
  BY DEF ChildReads, supervisorSide, hostSide
<1>3. f \in Frames /\ ToSet(down[c]) = {f} \cup ToSet(Tail(down[c]))
  <2>1. down[c] \in Seq(Frames) /\ down[c] # <<>> BY <1>1, <1>2 DEF RelayTypeOK
  <2> QED BY <2>1, TailOf
<1>4. f.t = "answer" => f.n \in DOMAIN calls BY <1>1, <1>3 DEF DownFits
<1>5. DOMAIN calls' = DOMAIN calls /\ \A k \in DOMAIN calls : calls'[k].by = calls[k].by
  <2>1. CASE f.t = "answer" /\ calls[f.n].state = "pending"
    <3> DEFINE st == IF f.ok THEN "answered" ELSE "failed"
               n == f.n
    <3>1. calls' = [calls EXCEPT ![n].state = st] /\ st \in {"pending", "answered", "failed"} /\ n \in DOMAIN calls
      BY <1>2, <1>4, <2>1
    <3> HIDE DEF st, n, f
    <3> QED BY <1>1, <3>1, StateTypes
  <2>2. CASE ~(f.t = "answer" /\ calls[f.n].state = "pending") BY <1>2, <2>2
  <2> QED BY <2>1, <2>2
<1>6. UpFits' BY <1>1, <1>2, <1>5, UpFitsKept
<1>7. \A d \in Children : /\ down'[d] = IF d = c THEN Tail(down[c]) ELSE down[d]
                          /\ cli'[d] = cli[d] \/ (d = c /\ cli'[d] = "online")
  BY <1>1, <1>2 DEF RelayTypeOK
<1>8. DownFits' BY <1>1, <1>3, <1>5, <1>7 DEF DownFits
<1>9. StagesFit'
  <2> SUFFICES ASSUME NEW d \in Children
               PROVE  /\ leg'[d] = "none" => cli'[d] = "off"
                      /\ cli'[d] \in {"off", "dialing"} => conn'[d] = "none" /\ \A k \in DOMAIN calls' : calls'[k].by # d
                      /\ grant'[d] = "bound" => conn'[d] = "bound"
                      /\ conn'[d] \in {"none", "open"} => down'[d] = <<>>
                      /\ conn'[d] = "ended" => up'[d] = <<>>
    BY DEF StagesFit
  <2>1. leg[c] # "none" /\ conn[c] \notin {"none", "open"} BY <1>1, <1>2 DEF StagesFit
  <2>2. CASE d = c BY <1>1, <1>2, <1>7, <2>1, <2>2 DEF StagesFit
  <2>3. CASE d # c BY <1>1, <1>2, <1>5, <1>7, <2>3 DEF StagesFit
  <2> QED BY <2>2, <2>3
<1> QED BY <1>6, <1>8, <1>9 DEF Wires

LEMMA CallsWires ==
  ASSUME RelayInv, RelayTypeOK', NEW c \in Children, NEW kind \in CallKinds, NEW to \in Names, ChildCalls(c, kind, to)
  PROVE  Wires'
<1>1. RelayTypeOK /\ StagesFit /\ UpFits /\ DownFits BY DEF RelayInv
<1>2. PICK n \in Nat : n = Len(calls) + 1 BY <1>1, AskTypes
<1> DEFINE new == [by |-> c, kind |-> kind, to |-> to, state |-> "pending"]
           e == Frame("call", n, TRUE)
           t == <<e>>
<1>3. /\ UNCHANGED <<leg, conn, grant, cli, down>> /\ cli[c] = "online"
      /\ calls' = Append(calls, new) /\ Send(c, t)
  BY <1>2 DEF ChildCalls, supervisorSide
<1>4. /\ DOMAIN calls' = DOMAIN calls \cup {n} /\ calls'[n].by = c
      /\ \A k \in DOMAIN calls : calls'[k] = calls[k]
  <2>1. calls \in Seq(Calls) /\ new \in Calls /\ new.by = c BY <1>1 DEF RelayTypeOK, Calls
  <2> HIDE DEF new
  <2>2. /\ DOMAIN Append(calls, new) = 1..(Len(calls) + 1) /\ Len(calls) \in Nat /\ DOMAIN calls = 1..Len(calls)
        /\ Append(calls, new)[Len(calls) + 1] = new /\ \A i \in DOMAIN calls : Append(calls, new)[i] = calls[i]
    BY <2>1, Appended
  <2>3. 1..(Len(calls) + 1) = DOMAIN calls \cup {n} BY <1>2, <2>2
  <2> QED BY <1>2, <1>3, <2>1, <2>2, <2>3
<1>5. t \in Seq(Requests) /\ \A f \in ToSet(t) : f.n = n
  <2>1. e \in Requests /\ e.n = n BY RequestFrames DEF Frame
  <2> HIDE DEF e
  <2> QED BY <2>1, Single
<1> HIDE DEF t, new
<1>6. UpFits' BY <1>1, <1>3, <1>4, <1>5, SendFits
<1>7. (\A d \in Children \ {c} : up'[d] = up[d]) /\ (conn[c] = "ended" => up'[c] = <<>>)
  BY <1>1, <1>3, <1>5, Sent
<1>8. DownFits' BY <1>1, <1>3, <1>4 DEF DownFits
<1>9. StagesFit' BY <1>1, <1>3, <1>4, <1>7 DEF StagesFit
<1> QED BY <1>6, <1>8, <1>9 DEF Wires

\* The host takes a frame: what is left of them fits.
LEMMA TakenWires ==
  ASSUME RelayInv, NEW c \in Children, up[c] # <<>>, Take(c), UNCHANGED calls
  PROVE  UpFits' /\ \A d \in Children : conn'[d] = "ended" => up'[d] = <<>> \/ (d # c /\ up'[d] = up[d])
<1>1. RelayTypeOK /\ UpFits BY DEF RelayInv
<1>2. /\ \A d \in Children \ {c} : up'[d] = up[d]
      /\ up'[c] = IF conn'[c] = "ended" THEN <<>> ELSE Tail(up[c])
  BY <1>1, TakeTypes
<1> DEFINE u == up[c]
<1>3. ToSet(Tail(u)) \subseteq ToSet(u)
  <2>1. u \in Seq(Requests) /\ u # <<>> BY <1>1 DEF RelayTypeOK
  <2> HIDE DEF u
  <2> QED BY <2>1, TailOf
<1>4. \A d \in Children : \A f \in ToSet(up'[d]) : f \in ToSet(up[d]) BY <1>2, <1>3, Nothing
<1>5. UpFits' BY <1>1, <1>4, UpFitsKept
<1> QED BY <1>2, <1>5

LEMMA HostReadsWires ==
  ASSUME RelayInv, RelayTypeOK', NEW c \in Children, HostReads(c) PROVE Wires'
<1> DEFINE f == Head(up[c])
<1>1. /\ up[c] # <<>> /\ Take(c) /\ UNCHANGED <<calls, cli>> /\ conn[c] \in {"open", "bound"}
      /\ RelayTypeOK /\ StagesFit /\ UpFits /\ DownFits
  BY DEF HostReads, childSide, RelayInv
<1>2. UpFits' /\ \A d \in Children : conn'[d] = "ended" => up'[d] = <<>> \/ (d # c /\ up'[d] = up[d])
  BY <1>1, TakenWires
<1>3. f = up[c][1] /\ 1 \in DOMAIN up[c] BY <1>1, TakeTypes
<1>4. f.t \in {"call", "cancel"} => f.n \in DOMAIN calls /\ calls[f.n].by = c
  BY <1>1, <1>3 DEF UpFits
<1> HIDE DEF f
<1>5. ASSUME \A d \in Children :
               /\ leg'[d] = leg[d]
               /\ conn'[d] = conn[d] \/ (d = c /\ conn'[d] \in {"bound", "ended"})
               /\ grant'[d] = "bound" => conn'[d] = "bound",
             UNCHANGED down \/ \E frames \in [Children -> Seq(Frames)] : Speaks(frames) /\ Write(frames)
      PROVE  Wires'
  <2>1. DownFits' BY <1>1, <1>5, SpokenFits DEF DownFits
  <2>2. \A d \in Children : conn'[d] # "bound" => down'[d] = down[d] BY <1>1, <1>5, Unwritten
  <2>3. \A d \in Children : conn'[d] = "ended" => up'[d] = <<>> \/ (conn[d] = "ended" /\ up'[d] = up[d])
    BY <1>2, <1>5
  <2>4. \A d \in Children : conn'[d] = conn[d] \/ (conn[d] # "none" /\ conn'[d] \in {"bound", "ended"})
    BY <1>1, <1>5
  <2>5. StagesFit' BY <1>1, <1>5, <2>2, <2>3, <2>4, StagesKept
  <2> QED BY <1>2, <2>1, <2>5 DEF Wires
<1>6. CASE HostRegisters(c)
  <2>1. CASE Refused(c)
    <3>1. grant[c] = "revoked" /\ conn' = [conn EXCEPT ![c] = "ended"] /\ UNCHANGED <<leg, grant, down>>
      BY <1>6, <2>1 DEF HostRegisters, Refused
    <3>2. \A d \in Children : conn'[d] = IF d = c THEN "ended" ELSE conn[d] BY <1>1, <3>1 DEF RelayTypeOK
    <3>3. \A d \in Children : grant'[d] = "bound" => conn'[d] = "bound" BY <1>1, <3>1, <3>2 DEF StagesFit
    <3> QED BY <1>5, <3>1, <3>2, <3>3
  <2>2. CASE ~Refused(c)
    <3>1. /\ conn' = [conn EXCEPT ![c] = "bound"] /\ leg' = leg
          /\ grant' = [grant EXCEPT ![c] = IF @ = "active" THEN "bound" ELSE @]
          /\ Write(To(c, Greet(c)))
      BY <1>6, <2>2 DEF HostRegisters
    <3>2. \A d \in Children : /\ conn'[d] = IF d = c THEN "bound" ELSE conn[d]
                              /\ d # c => grant'[d] = grant[d]
      BY <1>1, <3>1 DEF RelayTypeOK
    <3>3. \A d \in Children : grant'[d] = "bound" => conn'[d] = "bound" BY <1>1, <3>2 DEF StagesFit
    <3>4. To(c, Greet(c)) \in [Children -> Seq(Frames)] /\ Speaks(To(c, Greet(c)))
      BY <1>1, GreetSpeaks, QuietSpeaks
    <3> QED BY <1>5, <3>1, <3>2, <3>3, <3>4
  <2> QED BY <2>1, <2>2
<1>7. \A d \in Children : grant[d] = "bound" => conn[d] = "bound" BY <1>1 DEF StagesFit
<1>8. CASE f.t = "call" /\ UNCHANGED <<supervisorSide, conn>> /\ HostTakesCall(c, f.n)
  <2>1. UNCHANGED <<leg, grant, conn>> BY <1>8 DEF supervisorSide
  <2>2. UNCHANGED down \/ \E frames \in [Children -> Seq(Frames)] : Speaks(frames) /\ Write(frames)
    BY <1>1, <1>4, <1>8, TakesSpeak
  <2> QED BY <1>5, <1>7, <2>1, <2>2
<1>9. CASE f.t = "cancel" /\ UNCHANGED <<supervisorSide, mailbox, conn, relay>> /\ HostCancels(c, f.n)
  <2>1. UNCHANGED <<leg, grant, conn>> BY <1>9 DEF supervisorSide
  <2>2. UNCHANGED down \/ Write(NoFrames) \/ Write(To(c, <<Answer(f.n, FALSE)>>)) BY <1>9 DEF HostCancels
  <2>3. To(c, <<Answer(f.n, FALSE)>>) \in [Children -> Seq(Frames)] /\ Speaks(To(c, <<Answer(f.n, FALSE)>>))
    <3> DEFINE k == f.n
    <3>1. k \in DOMAIN calls /\ calls[k].by = c BY <1>4, <1>9
    <3> HIDE DEF k
    <3>2. To(calls[k].by, <<Answer(k, FALSE)>>) \in [Children -> Seq(Frames)] /\ Speaks(To(calls[k].by, <<Answer(k, FALSE)>>))
      BY <1>1, <3>1, AnswerSpeaks
    <3> QED BY <3>1, <3>2 DEF k
  <2>4. UNCHANGED down \/ \E frames \in [Children -> Seq(Frames)] : Speaks(frames) /\ Write(frames)
    BY <2>2, <2>3, NobodySpeaks
  <2> QED BY <1>5, <1>7, <2>1, <2>4
<1>10. CASE HostDrops(c) /\ Write(NoFrames) /\ UNCHANGED <<leg, steered, relay>>
  <2>1. \A d \in Children :
           /\ conn'[d] = IF d = c THEN "ended" ELSE conn[d]
           /\ grant'[d] = "bound" => conn'[d] = "bound"
    BY <1>1, <1>10, DropsWires
  <2> QED BY <1>5, <1>10, <2>1, NobodySpeaks
<1> QED BY <1>6, <1>8, <1>9, <1>10 DEF HostReads, f

---------------------------------------------------------------------------
(* The theorems about the calls.                                           *)

LEMMA InvStep == RelayInv /\ [RelayNext]_relayVars => RelayInv'
<1> SUFFICES ASSUME RelayInv, [RelayNext]_relayVars PROVE RelayInv' OBVIOUS
<1>1. RelayTypeOK' /\ BusMoves BY TypeStep DEF RelayInv
<1>2. SUFFICES AllFit' /\ Wires' BY <1>1 DEF RelayInv, AllFit, Wires
<1>3. CASE Ensure \/ HostUp \/ HostFails \/ UNCHANGED relayVars BY <1>1, <1>3, QuietAllFit, QuietWires
<1>4. CASE BrokerClose
  <2>1. AllFit' BY <1>1, <1>4, BrokerCloseFits
  <2>2. CASE Children = {}
    <3>1. StagesFit' /\ UpFits' /\ DownFits' BY <2>2 DEF StagesFit, UpFits, DownFits
    <3> QED BY <2>1, <3>1 DEF Wires
  <2>3. CASE Children # {} BY <1>1, <1>4, <2>1, <2>3, TeardownWires
  <2> QED BY <2>2, <2>3
<1>5. ASSUME NEW c \in Children, NEW reader \in BOOLEAN, SpawnChild(c, reader)
      PROVE  AllFit' /\ Wires'
  BY <1>1, <1>5, SpawnFits, SpawnWires
<1>6. ASSUME NEW c \in Children, RevokeReader(c) \/ LegSettles(c) \/ HostSeesClose(c)
      PROVE  AllFit' /\ Wires'
  BY <1>1, <1>6, RevokeReaderFits, LegSettlesFits, SeesCloseFits, TeardownWires
<1>7. ASSUME NEW c \in Children, Steer(c) \/ SupervisorWrites(c)
      PROVE  AllFit' /\ Wires'
  BY <1>1, <1>7, SteerFits, SupervisorWritesFits, SupervisorWires
<1>8. ASSUME NEW c \in Children, HostReads(c)
      PROVE  AllFit' /\ Wires'
  BY <1>1, <1>8, HostReadsFits, HostReadsWires
<1>9. ASSUME NEW c \in Children, Connects(c) \/ ChildReads(c)
      PROVE  AllFit' /\ Wires'
  BY <1>1, <1>9, ConnectsFits, ReadsFits, ConnectsWires, ReadsWires
<1>10. ASSUME NEW c \in Children, NEW bye \in BOOLEAN, ChildGoes(c, bye) \/ ChildSeesClose(c)
       PROVE  AllFit' /\ Wires'
  BY <1>1, <1>10, ChildLeavesFits, ChildLeavesWires
<1>11. ASSUME NEW c \in Children, NEW kind \in CallKinds, NEW to \in Names, ChildCalls(c, kind, to)
       PROVE  AllFit' /\ Wires'
  BY <1>1, <1>11, CallsFits, CallsWires
<1>12. ASSUME NEW i \in DOMAIN asks, NEW r \in {"replied", "timeout"}, Settles(i, r)
       PROVE  AllFit' /\ Wires'
  BY <1>1, <1>12, SettlesFits, SettlesWires
<1>13. ASSUME NEW k \in DOMAIN calls, ChildGivesUp(k) \/ \E ok \in BOOLEAN : HostAnswersRead(k, ok)
       PROVE  AllFit' /\ Wires'
  BY <1>1, <1>13, GivesUpFits, AnswersReadFits, GivesUpWires, AnswersReadWires
<1> QED
  BY <1>3, <1>4, <1>5, <1>6, <1>7, <1>8, <1>9, <1>10, <1>11, <1>12, <1>13, RelayAssumption
  DEF RelayNext, CallKinds

\* The invariant the two ends keep together: types, the stages of a leg and
\* its connection, whose frames are on which wire, and what holds of a call.
THEOREM RelayInvariant == RelaySpec => []RelayInv
<1> QED BY InvStarts, InvStep, PTL DEF RelaySpec

\* What both ends hold of a call is well-formed, and a call the host took
\* names a message of the bus (host.ts, client.ts).
THEOREM RelayTyped == RelaySpec => []RelayTypeOK
<1>1. RelayInv => RelayTypeOK BY DEF RelayInv
<1> QED BY <1>1, RelayInvariant, PTL

\* A call a child waits for is on its way, open at the host, or answered on
\* the wire, until the connection goes; and nothing stays open at the host for
\* a call that is over, once its cancellation has arrived.
THEOREM EndsAgree == RelaySpec => []CallsAgree
<1>1. RelayInv => CallsAgree BY InvMeans
<1> QED BY <1>1, RelayInvariant, PTL

\* No child is told an answer, a receipt or a failure that did not happen.
THEOREM ToldTheTruth == RelaySpec => []OutcomesAreTrue
<1>1. RelayInv => OutcomesAreTrue BY InvMeans
<1> QED BY <1>1, RelayInvariant, PTL

---------------------------------------------------------------------------
(* Mail and steers: a stream of numbers, of which some were shown, some are *)
(* carried by frames of type t on a wire w, and some are kept.             *)
Carried(t, w) == Numbers({f \in ToSet(w) : f.t = t})
Rising(t, w) == \A i, j \in DOMAIN w : i < j /\ w[i].t = t /\ w[j].t = t => w[i].n < w[j].n
Held(t, shown, w, kept) == ToSet(shown) \cup Carried(t, w) \cup ToSet(kept)

Stream(t, shown, w, kept, top) ==
  /\ Increasing(shown) /\ Increasing(kept) /\ Rising(t, w)
  /\ AllBefore(ToSet(shown), Carried(t, w) \cup ToSet(kept))
  /\ AllBefore(Carried(t, w), ToSet(kept))
  /\ Held(t, shown, w, kept) \subseteq 1..top

LEMMA CarriedBy ==
  ASSUME NEW w \in Seq(Frames), NEW t
  PROVE  /\ \A i \in DOMAIN w : w[i].t = t => w[i].n \in Carried(t, w)
         /\ \A n \in Carried(t, w) : n \in Nat /\ \E i \in DOMAIN w : w[i].t = t /\ w[i].n = n
<1>1. \A f \in ToSet(w) : f \in Frames BY Element
<1> QED BY <1>1 DEF Carried, Numbers, ToSet, Frames

\* Frames of another type do not count.
LEMMA CarriesNone ==
  ASSUME NEW w \in Seq(Frames), NEW t, \A f \in ToSet(w) : f.t # t
  PROVE  Carried(t, w) = {} /\ Rising(t, w)
<1>1. \A i \in DOMAIN w : w[i].t # t BY DEF ToSet
<1> QED BY <1>1 DEF Carried, Numbers, Rising

LEMMA CarriesOne ==
  ASSUME NEW f \in Frames, NEW t
  PROVE  /\ <<f>> \in Seq(Frames) /\ Rising(t, <<f>>)
         /\ Carried(t, <<f>>) = IF f.t = t THEN {f.n} ELSE {}
<1>1. <<f>> \in Seq(Frames) /\ ToSet(<<f>>) = {f} /\ DOMAIN <<f>> = {1} BY Single
<1>2. Rising(t, <<f>>) BY <1>1 DEF Rising
<1>3. Carried(t, <<f>>) = IF f.t = t THEN {f.n} ELSE {} BY <1>1 DEF Carried, Numbers
<1> QED BY <1>1, <1>2, <1>3

\* One run of frames behind another.
LEMMA CarriesBoth ==
  ASSUME NEW w \in Seq(Frames), NEW x \in Seq(Frames), NEW t
  PROVE  /\ w \o x \in Seq(Frames) /\ Carried(t, w \o x) = Carried(t, w) \cup Carried(t, x)
         /\ Rising(t, w) /\ Rising(t, x) /\ AllBefore(Carried(t, w), Carried(t, x)) => Rising(t, w \o x)
<1> DEFINE v == w \o x
<1>1. /\ v \in Seq(Frames) /\ ToSet(v) = ToSet(w) \cup ToSet(x)
      /\ Len(w) \in Nat /\ Len(x) \in Nat /\ DOMAIN v = 1..(Len(w) + Len(x))
      /\ \A i \in DOMAIN w : v[i] = w[i]
      /\ \A i \in DOMAIN x : v[Len(w) + i] = x[i]
  BY Concat
<1>2. DOMAIN w = 1..Len(w) /\ DOMAIN x = 1..Len(x) BY Element
<1> HIDE DEF v
<1>3. Carried(t, v) = Carried(t, w) \cup Carried(t, x) BY <1>1 DEF Carried, Numbers
<1>4. ASSUME Rising(t, w), Rising(t, x), AllBefore(Carried(t, w), Carried(t, x)),
             NEW i \in DOMAIN v, NEW j \in DOMAIN v, i < j, v[i].t = t, v[j].t = t
      PROVE  v[i].n < v[j].n
  <2>1. i \in Nat /\ j \in Nat /\ (i \in DOMAIN w \/ i - Len(w) \in DOMAIN x) /\ (j \in DOMAIN w \/ j - Len(w) \in DOMAIN x)
    BY <1>1, <1>2
  <2>2. CASE j \in DOMAIN w
    <3>1. i \in DOMAIN w BY <1>2, <1>4, <2>1, <2>2
    <3> QED BY <1>1, <1>4, <2>2, <3>1 DEF Rising
  <2>3. CASE i \in DOMAIN w /\ j - Len(w) \in DOMAIN x
    <3>1. v[j] = x[j - Len(w)]
      <4>1. Len(w) + (j - Len(w)) = j BY <1>1, <2>1
      <4> QED BY <1>1, <2>3, <4>1
    <3>2. v[i] = w[i] BY <1>1, <2>3
    <3>3. w[i].n \in Carried(t, w) /\ x[j - Len(w)].n \in Carried(t, x) BY <1>4, <2>3, <3>1, <3>2, CarriedBy
    <3> QED BY <1>4, <3>1, <3>2, <3>3 DEF AllBefore
  <2>4. CASE i - Len(w) \in DOMAIN x /\ j - Len(w) \in DOMAIN x
    <3>1. v[i] = x[i - Len(w)] /\ v[j] = x[j - Len(w)]
      <4>1. Len(w) + (j - Len(w)) = j /\ Len(w) + (i - Len(w)) = i BY <1>1, <2>1
      <4> QED BY <1>1, <2>4, <4>1
    <3>2. i - Len(w) < j - Len(w) BY <1>1, <1>4, <2>1
    <3> QED BY <1>4, <2>4, <3>1, <3>2 DEF Rising
  <2> QED BY <2>1, <2>2, <2>3, <2>4
<1>5. Rising(t, w) /\ Rising(t, x) /\ AllBefore(Carried(t, w), Carried(t, x)) => Rising(t, v)
  BY <1>4 DEF Rising
<1> QED BY <1>1, <1>3, <1>5 DEF v

\* Kept numbers, put on the wire.
LEMMA CarriesEach ==
  ASSUME NEW s \in Seq(Nat), NEW u \in {"deliver", "steer"}, NEW t \in {"deliver", "steer"}
  PROVE  /\ Each(u, s) \in Seq(Frames)
         /\ Carried(t, Each(u, s)) = IF u = t THEN ToSet(s) ELSE {}
         /\ Increasing(s) => Rising(t, Each(u, s))
<1> DEFINE e == Each(u, s)
<1>1. e \in Seq(Frames) /\ DOMAIN e = DOMAIN s /\ \A i \in DOMAIN s : e[i] = Frame(u, s[i], TRUE)
  BY EachFrame
<1>2. \A i \in DOMAIN s : e[i].t = u /\ e[i].n = s[i] BY <1>1 DEF Frame
<1> HIDE DEF e
<1>3. Carried(t, e) = IF u = t THEN ToSet(s) ELSE {}
  BY <1>1, <1>2 DEF Carried, Numbers, ToSet
<1>4. Increasing(s) => Rising(t, e) BY <1>1, <1>2 DEF Increasing, Rising
<1> QED BY <1>1, <1>3, <1>4 DEF e

LEMMA IncreasingTail ==
  ASSUME NEW s \in Seq(Nat), NEW m \in Nat, Increasing(s), AllBefore(ToSet(s), {m})
  PROVE  Append(s, m) \in Seq(Nat) /\ Increasing(Append(s, m)) /\ ToSet(Append(s, m)) = ToSet(s) \cup {m}
<1>1. /\ Append(s, m) \in Seq(Nat) /\ DOMAIN Append(s, m) = 1..(Len(s) + 1) /\ DOMAIN s = 1..Len(s) /\ Len(s) \in Nat
      /\ Append(s, m)[Len(s) + 1] = m /\ \A i \in DOMAIN s : Append(s, m)[i] = s[i]
      /\ ToSet(Append(s, m)) = ToSet(s) \cup {m}
  BY Appended
<1> DEFINE a == Append(s, m)
<1> HIDE DEF a
<1>2. ASSUME NEW i \in DOMAIN a, NEW j \in DOMAIN a, i < j PROVE a[i] < a[j]
  <2>1. i \in DOMAIN s /\ a[i] = s[i] /\ s[i] \in ToSet(s) BY <1>1, <1>2 DEF a, ToSet
  <2>2. CASE j \in DOMAIN s BY <1>1, <1>2, <2>1, <2>2 DEF a, Increasing
  <2>3. CASE j \notin DOMAIN s
    <3>1. j = Len(s) + 1 BY <1>1, <2>3 DEF a
    <3>2. a[j] = m BY <1>1, <3>1 DEF a
    <3> QED BY <2>1, <3>2 DEF AllBefore
  <2> QED BY <2>2, <2>3
<1> QED BY <1>1, <1>2 DEF a, Increasing

LEMMA NoneIncreasing == <<>> \in Seq(Nat) /\ Increasing(<<>>) /\ ToSet(<<>>) = {}
BY Nothing DEF Increasing

LEMMA Same == \A S : GrowsTo(S, S)
BY DEF GrowsTo, AllBefore

LEMMA StreamTypes ==
  ASSUME NEW t, NEW shown \in Seq(Nat), NEW w \in Seq(Frames), NEW kept \in Seq(Nat)
  PROVE  Held(t, shown, w, kept) \subseteq Nat /\ Carried(t, w) \subseteq Nat
<1>1. ToSet(shown) \subseteq Nat /\ ToSet(kept) \subseteq Nat BY Element
<1>2. Carried(t, w) \subseteq Nat BY CarriedBy
<1> QED BY <1>1, <1>2 DEF Held

\* More frames of other types; what is kept stays or goes.
LEMMA StreamRests ==
  ASSUME NEW t, NEW shown, NEW w \in Seq(Frames), NEW kept \in Seq(Nat), NEW top \in Nat,
         Stream(t, shown, w, kept, top),
         NEW x \in Seq(Frames), Carried(t, x) = {}, Rising(t, x),
         NEW kept2, kept2 = kept \/ kept2 = <<>>
  PROVE  /\ Stream(t, shown, w \o x, kept2, top)
         /\ kept2 = kept => Held(t, shown, w \o x, kept2) = Held(t, shown, w, kept)
<1>1. /\ Carried(t, w \o x) = Carried(t, w)
      /\ Rising(t, w \o x)
  <2>1. AllBefore(Carried(t, w), Carried(t, x)) BY DEF AllBefore
  <2>2. Rising(t, w) BY DEF Stream
  <2>3. /\ Carried(t, w \o x) = Carried(t, w) \cup Carried(t, x)
        /\ Rising(t, w) /\ Rising(t, x) /\ AllBefore(Carried(t, w), Carried(t, x)) => Rising(t, w \o x)
    BY CarriesBoth
  <2> QED BY <2>1, <2>2, <2>3
<1>2. ToSet(kept2) \subseteq ToSet(kept) /\ Increasing(kept2) BY NoneIncreasing DEF Stream
<1> QED BY <1>1, <1>2 DEF Stream, Held, AllBefore

\* Numbers were given out meanwhile.
LEMMA StreamGrows ==
  ASSUME NEW t, NEW shown, NEW w, NEW kept, NEW top \in Nat, NEW top2 \in Nat, top <= top2,
         Stream(t, shown, w, kept, top)
  PROVE  Stream(t, shown, w, kept, top2)
<1>1. 1..top \subseteq 1..top2 OBVIOUS
<1> QED BY <1>1 DEF Stream

LEMMA StreamSame ==
  ASSUME NEW t, NEW shown, NEW w \in Seq(Frames), NEW kept \in Seq(Nat), NEW top \in Nat,
         Stream(t, shown, w, kept, top),
         NEW x \in Seq(Frames), Carried(t, x) = {}, Rising(t, x)
  PROVE  /\ Stream(t, shown, w \o x, kept, top)
         /\ Held(t, shown, w \o x, kept) = Held(t, shown, w, kept)
<1>1. PICK kept2 \in Seq(Nat) : kept2 = kept OBVIOUS
<1>2. /\ Stream(t, shown, w \o x, kept2, top)
      /\ kept2 = kept => Held(t, shown, w \o x, kept2) = Held(t, shown, w, kept)
  BY <1>1, StreamRests
<1> QED BY <1>1, <1>2

\* One more number is kept.
LEMMA StreamKeeps ==
  ASSUME NEW t, NEW shown \in Seq(Nat), NEW w \in Seq(Frames), NEW kept \in Seq(Nat), NEW top \in Nat,
         Stream(t, shown, w, kept, top), NEW x \in Seq(Frames), Carried(t, x) = {}, Rising(t, x)
  PROVE  /\ Stream(t, shown, w \o x, Append(kept, top + 1), top + 1)
         /\ GrowsTo(Held(t, shown, w, kept), Held(t, shown, w \o x, Append(kept, top + 1)))
<1> DEFINE m == top + 1
           k == Append(kept, m)
<1>1. Carried(t, w \o x) = Carried(t, w) /\ Rising(t, w \o x)
  <2>1. AllBefore(Carried(t, w), Carried(t, x)) BY DEF AllBefore
  <2>2. Rising(t, w) BY DEF Stream
  <2>3. /\ Carried(t, w \o x) = Carried(t, w) \cup Carried(t, x)
        /\ Rising(t, w) /\ Rising(t, x) /\ AllBefore(Carried(t, w), Carried(t, x)) => Rising(t, w \o x)
    BY CarriesBoth
  <2> QED BY <2>1, <2>2, <2>3
<1>2. m \in Nat /\ \A n \in Held(t, shown, w, kept) : n < m BY DEF Stream
<1>3. ToSet(k) = ToSet(kept) \cup {m} /\ Increasing(k)
  <2>1. AllBefore(ToSet(kept), {m}) BY <1>2 DEF AllBefore, Held
  <2> HIDE DEF m
  <2> QED BY <1>2, <2>1, IncreasingTail DEF Stream
<1> HIDE DEF k
<1>4. Held(t, shown, w \o x, k) = Held(t, shown, w, kept) \cup {m} BY <1>1, <1>3 DEF Held
<1>5. 1..top \subseteq 1..m /\ m \in 1..m OBVIOUS
<1> HIDE DEF m
<1>6. Held(t, shown, w \o x, k) \subseteq 1..m BY <1>4, <1>5 DEF Stream
<1>7. Stream(t, shown, w \o x, k, m) BY <1>1, <1>2, <1>3, <1>6 DEF Stream, Held, AllBefore
<1>8. GrowsTo(Held(t, shown, w, kept), Held(t, shown, w \o x, k)) BY <1>2, <1>4 DEF GrowsTo, AllBefore
<1> QED BY <1>7, <1>8 DEF k, m

\* One more number goes out.
LEMMA StreamSends ==
  ASSUME NEW t, NEW shown \in Seq(Nat), NEW w \in Seq(Frames), NEW top \in Nat,
         Stream(t, shown, w, <<>>, top), NEW x \in Seq(Frames), Carried(t, x) = {top + 1}, Rising(t, x)
  PROVE  /\ Stream(t, shown, w \o x, <<>>, top + 1)
         /\ GrowsTo(Held(t, shown, w, <<>>), Held(t, shown, w \o x, <<>>))
<1> DEFINE m == top + 1
<1>1. m \in Nat /\ \A n \in Held(t, shown, w, <<>>) : n < m BY DEF Stream
<1>2. /\ Carried(t, w \o x) = Carried(t, w) \cup {m}
      /\ Rising(t, w \o x)
  <2>1. AllBefore(Carried(t, w), Carried(t, x)) BY <1>1 DEF AllBefore, Held
  <2> QED BY <2>1, CarriesBoth, ZenonT(60) DEF Stream
<1>3. 1..top \subseteq 1..m /\ m \in 1..m OBVIOUS
<1> HIDE DEF m
<1>4. Held(t, shown, w \o x, <<>>) = Held(t, shown, w, <<>>) \cup {m} BY <1>2 DEF Held
<1>5. Held(t, shown, w \o x, <<>>) \subseteq 1..m BY <1>3, <1>4 DEF Stream
<1>6. Stream(t, shown, w \o x, <<>>, m) BY <1>1, <1>2, <1>5, NoneIncreasing DEF Stream, Held, AllBefore
<1>7. GrowsTo(Held(t, shown, w, <<>>), Held(t, shown, w \o x, <<>>)) BY <1>1, <1>4 DEF GrowsTo, AllBefore
<1> QED BY <1>6, <1>7 DEF m

\* All that was kept goes out on a wire that is empty.
LEMMA StreamDrains ==
  ASSUME NEW t, NEW shown, NEW kept \in Seq(Nat), NEW top \in Nat,
         Stream(t, shown, <<>>, kept, top), NEW x \in Seq(Frames), Carried(t, x) = ToSet(kept), Rising(t, x)
  PROVE  Stream(t, shown, x, <<>>, top) /\ Held(t, shown, x, <<>>) = Held(t, shown, <<>>, kept)
<1>1. Carried(t, <<>>) = {} BY Nothing, CarriesNone
<1> QED BY <1>1, NoneIncreasing DEF Stream, Held, AllBefore

\* The first frame is read.
LEMMA StreamReads ==
  ASSUME NEW t, NEW shown \in Seq(Nat), NEW w \in Seq(Frames), w # <<>>, NEW kept \in Seq(Nat), NEW top,
         Stream(t, shown, w, kept, top), NEW shown2,
         Head(w).t = t => shown2 = Append(shown, Head(w).n), Head(w).t # t => shown2 = shown
  PROVE  Stream(t, shown2, Tail(w), kept, top) /\ Held(t, shown2, Tail(w), kept) = Held(t, shown, w, kept)
<1> DEFINE f == Head(w)
           v == Tail(w)
<1>1. /\ f \in Frames /\ v \in Seq(Frames) /\ f = w[1] /\ 1 \in DOMAIN w /\ Len(w) \in Nat
      /\ DOMAIN v = 1..(Len(w) - 1)
      /\ \A i \in DOMAIN v : v[i] = w[i + 1] /\ i + 1 \in DOMAIN w
      /\ ToSet(w) = {f} \cup ToSet(v)
  BY TailOf
<1> HIDE DEF f, v
<1>2. Rising(t, v)
  <2> SUFFICES ASSUME NEW i \in DOMAIN v, NEW j \in DOMAIN v, i < j, v[i].t = t, v[j].t = t
               PROVE  v[i].n < v[j].n
    BY DEF Rising
  <2>1. i \in Int /\ j \in Int /\ i + 1 < j + 1 BY <1>1
  <2> QED BY <1>1, <2>1 DEF Stream, Rising
<1>3. Carried(t, w) = Carried(t, v) \cup (IF f.t = t THEN {f.n} ELSE {}) BY <1>1 DEF Carried, Numbers
<1>4. f.t = t => \A n \in Carried(t, v) : f.n < n
  <2> SUFFICES ASSUME f.t = t, NEW n \in Carried(t, v) PROVE f.n < n OBVIOUS
  <2>0. v \in Seq(Frames) BY <1>1
  <2>1. PICK i \in DOMAIN v : v[i].t = t /\ v[i].n = n
    <3>1. \A m \in Carried(t, v) : \E i \in DOMAIN v : v[i].t = t /\ v[i].n = m BY <2>0, CarriedBy
    <3> QED BY <3>1
  <2>2. i + 1 \in DOMAIN w /\ w[i + 1] = v[i] /\ 1 < i + 1 BY <1>1
  <2> QED BY <1>1, <2>1, <2>2 DEF Stream, Rising
<1>5. CASE f.t = t
  <2>1. f.n \in Nat /\ shown2 = Append(shown, f.n) BY <1>1, <1>5 DEF Frames, f
  <2>2. f.n \in Carried(t, w) BY <1>3, <1>5
  <2>3. AllBefore(ToSet(shown), {f.n}) BY <2>2 DEF Stream, AllBefore
  <2>4. Increasing(shown2) /\ ToSet(shown2) = ToSet(shown) \cup {f.n} BY <2>1, <2>3, IncreasingTail DEF Stream
  <2>5. Held(t, shown2, v, kept) = Held(t, shown, w, kept) BY <1>3, <1>5, <2>4 DEF Held
  <2>6. Stream(t, shown2, v, kept, top)
    BY <1>2, <1>3, <1>4, <1>5, <2>2, <2>4, <2>5 DEF Stream, AllBefore
  <2> QED BY <2>5, <2>6 DEF v
<1>6. CASE f.t # t
  <2>1. shown2 = shown /\ Carried(t, w) = Carried(t, v) BY <1>3, <1>6 DEF f
  <2>2. Held(t, shown2, v, kept) = Held(t, shown, w, kept) BY <2>1 DEF Held
  <2> QED BY <1>2, <2>1, <2>2 DEF Stream, v
<1> QED BY <1>5, <1>6

\* The wire is gone.
LEMMA StreamCut ==
  ASSUME NEW t, NEW shown, NEW w, NEW kept, NEW top, Stream(t, shown, w, kept, top)
  PROVE  Stream(t, shown, <<>>, kept, top)
<1>1. Carried(t, <<>>) = {} /\ Rising(t, <<>>) BY Nothing, CarriesNone
<1> QED BY <1>1 DEF Stream, Held, AllBefore

---------------------------------------------------------------------------
(* The streams of each child.                                              *)
MailFits(c) ==
  /\ Stream("deliver", heard[c], down[c], mailbox[c], Len(asks))
  /\ Stream("steer", told[c], down[c], held[c], steered[c])
  /\ conn[c] = "bound" => mailbox[c] = <<>> /\ held[c] = <<>>

MailInv == \A c \in Children : MailFits(c)

Kept(c) == Gone(c) \/ (GrowsTo(Mail(c), Mail(c)') /\ GrowsTo(Steers(c), Steers(c)'))

LEMMA MailMeans ==
  /\ MailInv => HeardInOrder
  /\ \A c : Mail(c) = Held("deliver", heard[c], down[c], mailbox[c])
  /\ \A c : Steers(c) = Held("steer", told[c], down[c], held[c])
  /\ \A c : Mail(c)' = Held("deliver", heard'[c], down'[c], mailbox'[c])
  /\ \A c : Steers(c)' = Held("steer", told'[c], down'[c], held'[c])
<1>1. \A c \in Children : \A t, shown, kept, top : Stream(t, shown, down[c], kept, top) => InOrder(t, shown, c, kept)
  BY DEF Stream, InOrder, Rising, Carried, OnWire
<1>2. MailInv => HeardInOrder BY <1>1 DEF MailInv, MailFits, HeardInOrder
<1> QED BY <1>2 DEF Mail, Steers, Held, Carried, OnWire

LEMMA MailStarts == RelayInit => MailInv
<1> SUFFICES ASSUME RelayInit, NEW c \in Children PROVE MailFits(c) BY DEF MailInv
<1>1. heard[c] = <<>> /\ told[c] = <<>> /\ down[c] = <<>> /\ mailbox[c] = <<>> /\ held[c] = <<>>
  BY DEF RelayInit, NoFrames
<1>2. \A t : Carried(t, <<>>) = {} /\ Rising(t, <<>>) BY Nothing, CarriesNone
<1>3. \A t, top : Stream(t, <<>>, <<>>, <<>>, top) BY <1>2, NoneIncreasing DEF Stream, Held, AllBefore
<1> QED BY <1>1, <1>3 DEF MailFits

\* Nothing new for the child but frames that carry neither mail nor steers.
Silent(c) ==
  \E x \in Seq(Frames) :
    down'[c] = down[c] \o x /\ \A t \in {"deliver", "steer"} : Carried(t, x) = {} /\ Rising(t, x)

LEMMA StillSilent == ASSUME RelayTypeOK, NEW c \in Children, down'[c] = down[c] PROVE Silent(c)
<1> DEFINE w == down[c]
<1>1. w \in Seq(Frames) BY DEF RelayTypeOK
<1> HIDE DEF w
<1>2. w \o <<>> = w BY <1>1, ConcatEmptySeq
<1>3. <<>> \in Seq(Frames) /\ \A t : Carried(t, <<>>) = {} /\ Rising(t, <<>>) BY Nothing, CarriesNone
<1> QED BY <1>2, <1>3 DEF Silent, w

\* What a connected child is sent: the frames of the step, then answers.
LEMMA Aired ==
  ASSUME RelayTypeOK, NEW frames \in [Children -> Seq(Frames)], Write(frames), NEW c \in Children, Reaches(c)
  PROVE  \E x \in Seq(Frames) :
           /\ down'[c] = down[c] \o x
           /\ \A t \in {"deliver", "steer"} :
                /\ Carried(t, x) = Carried(t, frames[c])
                /\ Rising(t, frames[c]) => Rising(t, x)
<1> DEFINE f == frames[c]
           a == AnswersTo(c)
<1>1. /\ down'[c] = down[c] \o (f \o a) /\ a \in Seq(Frames) /\ f \in Seq(Frames)
      /\ ToSet(a) = {Answer(k, asks'[relay[k]].phase = "replied") : k \in SettledNow(c)}
  BY Written
<1>2. \A g \in ToSet(a) : g.t = "answer" BY <1>1 DEF Answer, Frame
<1> HIDE DEF f, a
<1>3. ASSUME NEW t \in {"deliver", "steer"}
      PROVE  Carried(t, f \o a) = Carried(t, f) /\ (Rising(t, f) => Rising(t, f \o a))
  <2>1. Carried(t, a) = {} /\ Rising(t, a) BY <1>1, <1>2, CarriesNone
  <2>2. AllBefore(Carried(t, f), Carried(t, a)) BY <2>1 DEF AllBefore
  <2>3. /\ Carried(t, f \o a) = Carried(t, f) \cup Carried(t, a)
        /\ Rising(t, f) /\ Rising(t, a) /\ AllBefore(Carried(t, f), Carried(t, a)) => Rising(t, f \o a)
    BY <1>1, CarriesBoth
  <2> QED BY <2>1, <2>2, <2>3
<1> DEFINE x == f \o a
<1>4. x \in Seq(Frames) BY <1>1, Concat
<1> QED BY <1>1, <1>3, <1>4 DEF f

\* Frames that carry neither.
Mute(frames) == \A c \in Children : \A f \in ToSet(frames[c]) : f.t \notin {"deliver", "steer"}

LEMMA MuteSilent ==
  ASSUME RelayTypeOK, NEW frames \in [Children -> Seq(Frames)], Mute(frames), Write(frames)
  PROVE  \A c \in Children : Silent(c)
<1> SUFFICES ASSUME NEW c \in Children PROVE Silent(c) OBVIOUS
<1>1. CASE ~Reaches(c) BY <1>1, Written, StillSilent
<1>2. CASE Reaches(c)
  <2> DEFINE f == frames[c]
  <2>1. f \in Seq(Frames) /\ \A t \in {"deliver", "steer"} : \A g \in ToSet(f) : g.t # t BY DEF Mute
  <2>2. \A t \in {"deliver", "steer"} : Carried(t, f) = {} /\ Rising(t, f)
    <3> HIDE DEF f
    <3> QED BY <2>1, CarriesNone
  <2>3. \E x \in Seq(Frames) :
           /\ down'[c] = down[c] \o x
           /\ \A t \in {"deliver", "steer"} :
                /\ Carried(t, x) = Carried(t, f)
                /\ Rising(t, f) => Rising(t, x)
    BY <1>2, Aired
  <2> QED BY <2>2, <2>3 DEF Silent
<1> QED BY <1>1, <1>2

LEMMA NoneMute == NoFrames \in [Children -> Seq(Frames)] /\ Mute(NoFrames)
BY ToNone, Nothing DEF Mute

LEMMA AnswerMute ==
  ASSUME RelayTypeOK, NEW k \in DOMAIN calls, NEW ok \in BOOLEAN
  PROVE  /\ To(calls[k].by, <<Answer(k, ok)>>) \in [Children -> Seq(Frames)]
         /\ Mute(To(calls[k].by, <<Answer(k, ok)>>))
<1> DEFINE c == calls[k].by
           e == Answer(k, ok)
           r == <<e>>
<1>1. c \in Children /\ k \in Nat BY AskTypes
<1>2. e \in Frames /\ e.t = "answer" BY <1>1, AnswerFrame DEF Answer, Frame
<1>3. r \in Seq(Frames) /\ ToSet(r) = {e} BY <1>2, Single
<1> HIDE DEF e, r
<1>4. To(c, r) \in [Children -> Seq(Frames)] /\ To(c, r)[c] = r /\ \A d \in Children \ {c} : To(c, r)[d] = <<>>
  BY <1>1, <1>3, ToOne
<1>5. Mute(To(c, r)) BY <1>1, <1>2, <1>3, <1>4, Nothing DEF Mute
<1> QED BY <1>4, <1>5 DEF r, e

LEMMA AskLengths ==
  ASSUME RelayTypeOK, RelayTypeOK'
  PROVE  Len(asks) \in Nat /\ Len(asks') \in Nat
<1>1. asks \in Seq(Questions) /\ asks' \in Seq(Questions) BY DEF RelayTypeOK
<1> QED BY <1>1, LenProperties

LEMMA StreamSilent ==
  ASSUME RelayTypeOK, RelayTypeOK', BusMoves, NEW c \in Children, MailFits(c), Silent(c),
         heard'[c] = heard[c], told'[c] = told[c], steered'[c] = steered[c],
         mailbox'[c] = mailbox[c] \/ mailbox'[c] = <<>>, held'[c] = held[c] \/ held'[c] = <<>>
  PROVE  /\ Stream("deliver", heard'[c], down'[c], mailbox'[c], Len(asks'))
         /\ Stream("steer", told'[c], down'[c], held'[c], steered'[c])
         /\ mailbox'[c] = mailbox[c] => Mail(c)' = Mail(c)
         /\ held'[c] = held[c] => Steers(c)' = Steers(c)
<1> DEFINE w == down[c]
           m == mailbox[c]
           h == held[c]
           m2 == mailbox'[c]
           h2 == held'[c]
           n == Len(asks)
           n2 == Len(asks')
           s == steered[c]
<1>1. /\ w \in Seq(Frames) /\ m \in Seq(Nat) /\ h \in Seq(Nat) /\ s \in Nat BY DEF RelayTypeOK
<1>2. n \in Nat /\ n2 \in Nat /\ n <= n2 BY AskLengths DEF BusMoves
<1>3. PICK x \in Seq(Frames) : down'[c] = w \o x /\ \A t \in {"deliver", "steer"} : Carried(t, x) = {} /\ Rising(t, x)
  BY DEF Silent
<1>4. Stream("deliver", heard[c], w, m, n) /\ Stream("steer", told[c], w, h, s) BY DEF MailFits
<1>5. m2 = m \/ m2 = <<>> OBVIOUS
<1>6. h2 = h \/ h2 = <<>> OBVIOUS
<1> HIDE DEF w, m, h, m2, h2, n, n2, s
<1>7. /\ Stream("deliver", heard[c], w \o x, m2, n2)
      /\ m2 = m => Held("deliver", heard[c], w \o x, m2) = Held("deliver", heard[c], w, m)
  <2>1. Carried("deliver", x) = {} /\ Rising("deliver", x) BY <1>3
  <2>2. Stream("deliver", heard[c], w, m, n) BY <1>4
  <2>3. /\ Stream("deliver", heard[c], w \o x, m2, n)
        /\ m2 = m => Held("deliver", heard[c], w \o x, m2) = Held("deliver", heard[c], w, m)
    BY <1>1, <1>2, <1>5, <2>1, <2>2, StreamRests
  <2> QED BY <1>2, <2>3, StreamGrows
<1>8. /\ Stream("steer", told[c], w \o x, h2, s)
      /\ h2 = h => Held("steer", told[c], w \o x, h2) = Held("steer", told[c], w, h)
  <2>1. Carried("steer", x) = {} /\ Rising("steer", x) BY <1>3
  <2>2. w \in Seq(Frames) /\ h \in Seq(Nat) /\ s \in Nat BY <1>1
  <2>3. Stream("steer", told[c], w, h, s) BY <1>4
  <2> DEFINE y == told[c]
  <2> HIDE DEF y
  <2>4. Stream("steer", y, w, h, s) BY <2>3 DEF y
  <2>5. \A kept2 : kept2 = h \/ kept2 = <<>> =>
          /\ Stream("steer", y, w \o x, kept2, s)
          /\ kept2 = h => Held("steer", y, w \o x, kept2) = Held("steer", y, w, h)
    BY <2>1, <2>2, <2>4, StreamRests
  <2> QED BY <1>6, <2>5 DEF y
<1> QED BY <1>3, <1>7, <1>8, MailMeans DEF w, m, h, m2, h2, n, n2, s

\* A step that says nothing to the children: what it drops is accounted for.
LEMMA MailStill ==
  ASSUME RelayTypeOK, RelayTypeOK', BusMoves, MailInv, NEW c \in Children, Silent(c),
         heard'[c] = heard[c], told'[c] = told[c], steered'[c] = steered[c],
         mailbox'[c] = mailbox[c] \/ mailbox'[c] = <<>>, held'[c] = held[c] \/ held'[c] = <<>>,
         conn'[c] = "bound" => conn[c] = "bound",
         Gone(c) \/ (mailbox'[c] = mailbox[c] /\ held'[c] = held[c])
  PROVE  MailFits(c)' /\ Kept(c)
<1>1. MailFits(c) BY DEF MailInv
<1>2. /\ Stream("deliver", heard'[c], down'[c], mailbox'[c], Len(asks'))
      /\ Stream("steer", told'[c], down'[c], held'[c], steered'[c])
      /\ mailbox'[c] = mailbox[c] => Mail(c)' = Mail(c)
      /\ held'[c] = held[c] => Steers(c)' = Steers(c)
  BY <1>1, StreamSilent
<1>3. Kept(c) BY <1>2, Same DEF Kept
<1> QED BY <1>1, <1>2, <1>3 DEF MailFits

---------------------------------------------------------------------------
(* What each step does to the streams.                                     *)

LEMMA MailQuiet ==
  ASSUME RelayTypeOK, RelayTypeOK', BusMoves, MailInv, NEW c \in Children,
         Ensure \/ HostUp \/ HostFails \/ UNCHANGED relayVars
  PROVE  MailFits(c)' /\ Kept(c)
<1>1. UNCHANGED <<heard, told, steered, mailbox, conn, down>>
  BY DEF Ensure, HostUp, HostFails, relayVars, supervisorSide, hostSide, childSide, wire
<1>2. held' = held \/ (held' = NoFrames /\ host' = "failed" /\ host' # host)
  BY DEF Ensure, HostUp, HostFails, relayVars, supervisorSide
<1>3. held'[c] = held[c] \/ (held'[c] = <<>> /\ Gone(c)) BY <1>2, ToNone DEF Gone
<1>4. Silent(c) BY <1>1, StillSilent
<1> QED BY <1>1, <1>3, <1>4, MailStill

\* The child's words, and the steps of others that touch no stream.
LEMMA MailUntouched ==
  ASSUME RelayTypeOK, RelayTypeOK', BusMoves, MailInv, NEW c \in Children,
         UNCHANGED <<heard, told, steered, mailbox, held>>, conn'[c] = "bound" => conn[c] = "bound",
         UNCHANGED down \/ \E frames \in [Children -> Seq(Frames)] : Mute(frames) /\ Write(frames)
  PROVE  MailFits(c)' /\ Kept(c)
<1>1. Silent(c) BY StillSilent, MuteSilent
<1> QED BY <1>1, MailStill

\* Teardown: what is dropped is dropped with its leg, grant or connection.
LEMMA MailTorn ==
  ASSUME RelayInv, RelayTypeOK', BusMoves, MailInv, NEW c \in Children, NEW d \in Children,
         BrokerClose \/ RevokeReader(d) \/ LegSettles(d) \/ HostSeesClose(d)
  PROVE  MailFits(c)' /\ Kept(c)
<1>1. RelayTypeOK BY DEF RelayInv
<1>2. Write(NoFrames) /\ UNCHANGED <<heard, told, steered, cli>>
  BY DEF BrokerClose, RevokeReader, LegSettles, HostSeesClose, childSide
<1>3. Silent(c) BY <1>1, <1>2, NoneMute, MuteSilent
<1>4. CASE BrokerClose
  <2>1. host' # host /\ host' = "closed" BY <1>4 DEF BrokerClose
  <2>2. Gone(c) BY <2>1 DEF Gone
  <2>3. mailbox'[c] = mailbox[c] \/ mailbox'[c] = <<>> BY <1>4 DEF BrokerClose, Depart
  <2>4. held'[c] = <<>> BY <1>4, ToNone DEF BrokerClose
  <2>5. conn'[c] = "bound" => conn[c] = "bound" BY <1>4 DEF BrokerClose, Disconnect
  <2> QED BY <1>1, <1>2, <1>3, <2>2, <2>3, <2>4, <2>5, MailStill
<1>5. ASSUME HostDrops(d) PROVE MailFits(c)' /\ Kept(c)
  <2>1. /\ mailbox'[c] = mailbox[c] \/ (mailbox'[c] = <<>> /\ c = d)
        /\ conn'[c] = IF c = d THEN "ended" ELSE conn[c]
        /\ held'[c] = held[c] \/ (held'[c] = <<>> /\ c = d)
    BY <1>5 DEF HostDrops, Depart, Disconnect, Revoke, GrantBoundOf
  <2>2. c = d => Gone(c) BY <2>1 DEF Gone
  <2> QED BY <1>1, <1>2, <1>3, <2>1, <2>2, MailStill
<1>6. CASE RevokeReader(d)
  <2>1. CASE grant[d] = "bound" BY <1>5, <1>6, <2>1 DEF RevokeReader
  <2>2. CASE grant[d] # "bound"
    <3>1. Revoke({d}) /\ UNCHANGED <<mailbox, conn>> BY <1>6, <2>2 DEF RevokeReader
    <3>2. held'[c] = held[c] \/ (held'[c] = <<>> /\ grant'[c] = "revoked") BY <3>1 DEF Revoke
    <3>3. held'[c] = held[c] \/ (held'[c] = <<>> /\ Gone(c)) BY <3>2 DEF Gone
    <3> QED BY <1>1, <1>2, <1>3, <3>1, <3>3, MailStill
  <2> QED BY <2>1, <2>2
<1>7. CASE LegSettles(d)
  <2>1. /\ mailbox'[c] = mailbox[c] \/ (mailbox'[c] = <<>> /\ c = d)
        /\ conn'[c] = "bound" => conn[c] = "bound"
        /\ held'[c] = held[c] \/ (held'[c] = <<>> /\ c = d)
        /\ leg'[d] = "settled"
    BY <1>1, <1>7 DEF LegSettles, Depart, Disconnect, ForgetHandle, RelayTypeOK
  <2>2. c = d => Gone(c) BY <2>1 DEF Gone
  <2> QED BY <1>1, <1>2, <1>3, <2>1, <2>2, MailStill
<1>8. CASE HostSeesClose(d) BY <1>5, <1>8 DEF HostSeesClose
<1> QED BY <1>4, <1>6, <1>7, <1>8

LEMMA MailBye ==
  ASSUME RelayTypeOK, RelayTypeOK', BusMoves, MailInv, NEW c \in Children, NEW d \in Children,
         HostDrops(d), Write(NoFrames), UNCHANGED <<heard, told, steered>>
  PROVE  MailFits(c)' /\ Kept(c)
<1>1. Silent(c) BY NoneMute, MuteSilent
<1>2. /\ mailbox'[c] = mailbox[c] \/ (mailbox'[c] = <<>> /\ c = d)
      /\ conn'[c] = IF c = d THEN "ended" ELSE conn[c]
      /\ held'[c] = held[c] \/ (held'[c] = <<>> /\ c = d)
  BY DEF HostDrops, Depart, Disconnect, Revoke, GrantBoundOf
<1>3. c = d => Gone(c) BY <1>2 DEF Gone
<1> QED BY <1>1, <1>2, <1>3, MailStill

\* The frames of a message the bus accepts: it, to a recipient that is connected.
Carries(frames, q) ==
  \A c \in Children :
    /\ Carried("steer", frames[c]) = {} /\ Rising("steer", frames[c]) /\ Rising("deliver", frames[c])
    /\ Carried("deliver", frames[c]) = IF c = q.to /\ conn[c] = "bound" THEN {MsgId} ELSE {}

LEMMA DrainedCarries ==
  ASSUME RelayTypeOK, NEW q
  PROVE  Drained(q) \in [Children -> Seq(Frames)] /\ Carries(Drained(q), q)
<1> DEFINE e == Frame("deliver", MsgId, TRUE)
<1>1. e \in Frames /\ e.t = "deliver" /\ e.n = MsgId BY AskTypes DEF Frame, Frames
<1>2. \A c \in Children : Drained(q)[c] = IF c = q.to /\ conn[c] = "bound" THEN <<e>> ELSE <<>>
  BY DEF Drained
<1> HIDE DEF e
<1>3. /\ Carried("deliver", <<e>>) = {MsgId} /\ Carried("steer", <<e>>) = {}
      /\ Rising("deliver", <<e>>) /\ Rising("steer", <<e>>)
  BY <1>1, CarriesOne
<1>4. \A t : Carried(t, <<>>) = {} /\ Rising(t, <<>>) BY Nothing, CarriesNone
<1>5. Drained(q) \in [Children -> Seq(Frames)] BY DrainedFrames
<1> QED BY <1>2, <1>3, <1>4, <1>5 DEF Carries

LEMMA ReceiptCarries ==
  ASSUME RelayTypeOK, NEW q, NEW k \in DOMAIN calls, NEW c, c = calls[k].by
  PROVE  WithReceipt(q, c, k) \in [Children -> Seq(Frames)] /\ Carries(WithReceipt(q, c, k), q)
<1> DEFINE r == <<Answer(k, TRUE)>>
           G == Drained(q)
           R == To(c, r)
           F == WithReceipt(q, c, k)
<1>1. c \in Children /\ k \in Nat BY AskTypes
<1>2. R \in [Children -> Seq(Frames)] /\ Mute(R) BY AnswerMute
<1>3. G \in [Children -> Seq(Frames)] /\ Carries(G, q) BY DrainedCarries
<1>4. \A d \in Children : F[d] = G[d] \o R[d] BY DEF WithReceipt, Receipt
<1>5. F \in [Children -> Seq(Frames)] BY ReceiptFrames
<1> HIDE DEF G, R, F
<1>6. ASSUME NEW d \in Children, NEW t \in {"deliver", "steer"}
      PROVE  Carried(t, F[d]) = Carried(t, G[d]) /\ (Rising(t, G[d]) => Rising(t, F[d]))
  <2> DEFINE g == G[d]
             x == R[d]
  <2>1. g \in Seq(Frames) /\ x \in Seq(Frames) /\ \A f \in ToSet(x) : f.t # t BY <1>2, <1>3 DEF Mute
  <2> HIDE DEF g, x
  <2>2. Carried(t, x) = {} /\ Rising(t, x) BY <2>1, CarriesNone
  <2>3. AllBefore(Carried(t, g), Carried(t, x)) BY <2>2 DEF AllBefore
  <2>4. /\ Carried(t, g \o x) = Carried(t, g) \cup Carried(t, x)
        /\ Rising(t, g) /\ Rising(t, x) /\ AllBefore(Carried(t, g), Carried(t, x)) => Rising(t, g \o x)
    BY <2>1, CarriesBoth
  <2> QED BY <1>4, <2>2, <2>3, <2>4 DEF g, x
<1> QED BY <1>3, <1>5, <1>6 DEF Carries, F

\* The stream of one type when only frames of the other are written.
LEMMA MailRests ==
  ASSUME RelayTypeOK, RelayTypeOK', BusMoves, NEW c \in Children, MailFits(c),
         NEW x \in Seq(Frames), down'[c] = down[c] \o x, Carried("deliver", x) = {}, Rising("deliver", x),
         heard'[c] = heard[c], mailbox'[c] = mailbox[c]
  PROVE  Stream("deliver", heard'[c], down'[c], mailbox'[c], Len(asks')) /\ Mail(c)' = Mail(c)
<1> DEFINE w == down[c]
           h == heard[c]
           m == mailbox[c]
           n == Len(asks)
           n2 == Len(asks')
<1>1. w \in Seq(Frames) /\ m \in Seq(Nat) BY DEF RelayTypeOK
<1>2. n \in Nat /\ n2 \in Nat /\ n <= n2 BY AskLengths DEF BusMoves
<1>3. Stream("deliver", h, w, m, n) BY DEF MailFits
<1> HIDE DEF w, h, m, n, n2
<1>4. PICK t : t = "deliver" OBVIOUS
<1>5. Stream(t, h, w, m, n) /\ Carried(t, x) = {} /\ Rising(t, x) BY <1>3, <1>4
<1>6. Stream(t, h, w \o x, m, n) /\ Held(t, h, w \o x, m) = Held(t, h, w, m)
  BY <1>1, <1>2, <1>5, StreamSame
<1>7. Stream(t, h, w \o x, m, n2) BY <1>2, <1>6, StreamGrows
<1> QED BY <1>4, <1>6, <1>7, MailMeans DEF w, h, m, n2

LEMMA SteersRest ==
  ASSUME RelayTypeOK, NEW c \in Children, MailFits(c),
         NEW x \in Seq(Frames), down'[c] = down[c] \o x, Carried("steer", x) = {}, Rising("steer", x),
         told'[c] = told[c], held'[c] = held[c], steered'[c] = steered[c]
  PROVE  Stream("steer", told'[c], down'[c], held'[c], steered'[c]) /\ Steers(c)' = Steers(c)
<1> DEFINE w == down[c]
           h == told[c]
           m == held[c]
           n == steered[c]
<1>1. w \in Seq(Frames) /\ m \in Seq(Nat) /\ n \in Nat BY DEF RelayTypeOK
<1>2. Stream("steer", h, w, m, n) BY DEF MailFits
<1> HIDE DEF w, h, m, n
<1>3. PICK t : t = "steer" OBVIOUS
<1>4. Stream(t, h, w, m, n) /\ Carried(t, x) = {} /\ Rising(t, x) BY <1>2, <1>3
<1>5. Stream(t, h, w \o x, m, n) /\ Held(t, h, w \o x, m) = Held(t, h, w, m)
  BY <1>1, <1>4, StreamSame
<1> QED BY <1>3, <1>5, MailMeans DEF w, h, m, n

\* A message is accepted.
LEMMA MailAccepted ==
  ASSUME RelayTypeOK, RelayTypeOK', BusMoves, MailInv, NEW c \in Children,
         NEW q, Accepted(q), NEW frames \in [Children -> Seq(Frames)], Carries(frames, q), Write(frames),
         UNCHANGED <<heard, told, steered, held, conn, cli>>
  PROVE  MailFits(c)' /\ Kept(c)
<1>1. MailFits(c) BY DEF MailInv
<1>2. /\ Len(asks) \in Nat /\ Len(asks') = Len(asks) + 1 /\ MsgId = Len(asks) + 1
      /\ mailbox'[c] = IF c = q.to /\ conn[c] # "bound" THEN Append(mailbox[c], MsgId) ELSE mailbox[c]
  <2>1. Len(asks) \in Nat BY AskTypes
  <2>2. asks' = Append(asks, q) BY DEF Accepted, Put
  <2>3. Len(asks') = Len(asks) + 1 BY <2>2 DEF RelayTypeOK
  <2>4. mailbox'[c] = IF c = q.to /\ conn[c] # "bound" THEN Append(mailbox[c], MsgId) ELSE mailbox[c]
    BY DEF Accepted, Unread
  <2> QED BY <2>1, <2>3, <2>4 DEF MsgId
<1>3. CASE ~Reaches(c) \/ c # q.to
  <2>1. Silent(c)
    <3>1. CASE ~Reaches(c) BY <3>1, Written, StillSilent
    <3>2. CASE Reaches(c) /\ c # q.to
      <4>1. \E x \in Seq(Frames) :
           /\ down'[c] = down[c] \o x
           /\ \A t \in {"deliver", "steer"} :
                /\ Carried(t, x) = Carried(t, frames[c])
                /\ Rising(t, frames[c]) => Rising(t, x)
        BY <3>2, Aired
      <4> QED BY <3>2, <4>1 DEF Carries, Silent
    <3> QED BY <1>3, <3>1, <3>2
  <2>2. CASE c # q.to
    BY <1>2, <2>1, <2>2, MailStill
  <2>3. CASE c = q.to /\ conn[c] = "bound"
    <3>1. Gone(c) BY <1>3, <2>3 DEF Reaches, Gone
    <3> QED BY <1>2, <2>1, <2>3, <3>1, MailStill
  <2>4. CASE c = q.to /\ conn[c] # "bound"
    <3> DEFINE w == down[c]
               m == mailbox[c]
               n == Len(asks)
    <3>1. PICK x \in Seq(Frames) : down'[c] = w \o x /\ \A t \in {"deliver", "steer"} : Carried(t, x) = {} /\ Rising(t, x)
      BY <2>1 DEF Silent
    <3>2. /\ w \in Seq(Frames) /\ m \in Seq(Nat) /\ heard[c] \in Seq(Nat) /\ n \in Nat
          /\ Stream("deliver", heard[c], w, m, n)
          /\ mailbox'[c] = Append(m, n + 1) /\ Len(asks') = n + 1
      BY <1>1, <1>2, <2>4 DEF RelayTypeOK, MailFits
    <3>3. Carried("deliver", x) = {} /\ Rising("deliver", x) BY <3>1
    <3> HIDE DEF w, m, n
    <3>4. /\ Stream("deliver", heard[c], w \o x, Append(m, n + 1), n + 1)
          /\ GrowsTo(Held("deliver", heard[c], w, m), Held("deliver", heard[c], w \o x, Append(m, n + 1)))
      BY <3>2, <3>3, StreamKeeps
    <3>5. /\ Stream("deliver", heard'[c], down'[c], mailbox'[c], Len(asks'))
          /\ GrowsTo(Mail(c), Mail(c)')
      BY <3>1, <3>2, <3>4, MailMeans DEF w, m
    <3>6. Stream("steer", told'[c], down'[c], held'[c], steered'[c]) /\ Steers(c)' = Steers(c)
      <4>1. down'[c] = down[c] \o x /\ Carried("steer", x) = {} /\ Rising("steer", x) BY <3>1 DEF w
      <4> QED BY <1>1, <4>1, SteersRest
    <3> QED BY <2>4, <3>5, <3>6, Same DEF MailFits, Kept
  <2> QED BY <2>2, <2>3, <2>4
<1>4. CASE Reaches(c) /\ c = q.to
  <2> DEFINE w == down[c]
             n == Len(asks)
  <2>1. conn[c] = "bound" BY <1>4 DEF Reaches
  <2>2. PICK x \in Seq(Frames) :
           /\ down'[c] = w \o x
           /\ \A t \in {"deliver", "steer"} :
                /\ Carried(t, x) = Carried(t, frames[c])
                /\ Rising(t, frames[c]) => Rising(t, x)
    BY <1>4, Aired
  <2>3. /\ Carried("deliver", x) = {n + 1} /\ Rising("deliver", x)
        /\ Carried("steer", x) = {} /\ Rising("steer", x)
    BY <1>2, <1>4, <2>1, <2>2 DEF Carries
  <2>4. /\ w \in Seq(Frames) /\ heard[c] \in Seq(Nat) /\ n \in Nat
        /\ mailbox[c] = <<>> /\ mailbox'[c] = <<>> /\ Len(asks') = n + 1
        /\ Stream("deliver", heard[c], w, <<>>, n)
    BY <1>1, <1>2, <2>1 DEF RelayTypeOK, MailFits
  <2> HIDE DEF w, n
  <2>5. /\ Stream("deliver", heard[c], w \o x, <<>>, n + 1)
        /\ GrowsTo(Held("deliver", heard[c], w, <<>>), Held("deliver", heard[c], w \o x, <<>>))
    BY <2>3, <2>4, StreamSends
  <2>6. Stream("steer", told'[c], down'[c], held'[c], steered'[c]) /\ Steers(c)' = Steers(c)
    <3>1. down'[c] = down[c] \o x /\ Carried("steer", x) = {} /\ Rising("steer", x) BY <2>2, <2>3 DEF w
    <3> QED BY <1>1, <3>1, SteersRest
  <2>7. /\ Stream("deliver", heard'[c], down'[c], mailbox'[c], Len(asks'))
        /\ GrowsTo(Mail(c), Mail(c)')
    BY <2>2, <2>4, <2>5, MailMeans DEF w
  <2> QED BY <1>1, <2>1, <2>4, <2>6, <2>7, Same DEF MailFits, Kept
<1> QED BY <1>3, <1>4

\* The child's calls, and what is settled for it.
LEMMA MailWords ==
  ASSUME RelayTypeOK, RelayTypeOK', BusMoves, MailInv, NEW c \in Children,
         \/ \E d \in Children : \/ \E reader \in BOOLEAN : SpawnChild(d, reader)
                                \/ Connects(d)
                                \/ \E kind \in CallKinds, to \in Names : ChildCalls(d, kind, to)
         \/ \E i \in DOMAIN asks, r \in {"replied", "timeout"} : Settles(i, r)
         \/ \E k \in DOMAIN calls : ChildGivesUp(k) \/ \E ok \in BOOLEAN : HostAnswersRead(k, ok)
  PROVE  MailFits(c)' /\ Kept(c)
<1>1. ASSUME NEW d \in Children, Connects(d) PROVE MailFits(c)' /\ Kept(c)
  <2>1. UNCHANGED <<heard, told, steered, mailbox, held, down>> /\ conn' = [conn EXCEPT ![d] = "open"]
    BY <1>1 DEF Connects, supervisorSide
  <2>2. conn'[c] = "bound" => conn[c] = "bound" BY <2>1 DEF RelayTypeOK
  <2> QED BY <2>1, <2>2, MailUntouched
<1>2. ASSUME UNCHANGED <<heard, told, steered, mailbox, held, conn, down>> PROVE MailFits(c)' /\ Kept(c)
  BY <1>2, MailUntouched
<1>3. ASSUME UNCHANGED <<heard, told, steered, mailbox, held, conn>>,
             NEW frames \in [Children -> Seq(Frames)], Mute(frames), Write(frames)
      PROVE  MailFits(c)' /\ Kept(c)
  BY <1>3, MailUntouched
<1>4. ASSUME NEW d \in Children, NEW reader \in BOOLEAN, SpawnChild(d, reader) PROVE MailFits(c)' /\ Kept(c)
  BY <1>2, <1>4 DEF SpawnChild, hostSide, wire
<1>5. ASSUME NEW d \in Children, NEW kind \in CallKinds, NEW to \in Names, ChildCalls(d, kind, to)
      PROVE  MailFits(c)' /\ Kept(c)
  BY <1>2, <1>5 DEF ChildCalls, supervisorSide
<1>6. ASSUME NEW i \in DOMAIN asks, NEW r \in {"replied", "timeout"}, Settles(i, r) PROVE MailFits(c)' /\ Kept(c)
  BY <1>3, <1>6, NoneMute DEF Settles, AskCloses, supervisorSide, hostSide, childSide
<1>7. ASSUME NEW k \in DOMAIN calls, ChildGivesUp(k) PROVE MailFits(c)' /\ Kept(c)
  BY <1>2, <1>7 DEF ChildGivesUp, supervisorSide, hostSide
<1>8. ASSUME NEW k \in DOMAIN calls, NEW ok \in BOOLEAN, HostAnswersRead(k, ok) PROVE MailFits(c)' /\ Kept(c)
  <2> DEFINE F == To(calls[k].by, <<Answer(k, ok)>>)
  <2>1. F \in [Children -> Seq(Frames)] /\ Mute(F) BY AnswerMute
  <2>2. UNCHANGED <<heard, told, steered, mailbox, held, conn>> /\ Write(F)
    BY <1>8 DEF HostAnswersRead, supervisorSide, childSide
  <2> HIDE DEF F
  <2> QED BY <1>3, <2>1, <2>2
<1> QED BY <1>1, <1>4, <1>5, <1>6, <1>7, <1>8

LEMMA MailSteered ==
  ASSUME RelayTypeOK, RelayTypeOK', BusMoves, MailInv, NEW c \in Children, NEW d \in Children, Steer(d)
  PROVE  MailFits(c)' /\ Kept(c)
<1>1. MailFits(c) BY DEF MailInv
<1>2. /\ UNCHANGED <<asks, mailbox, conn, heard, told, cli>> /\ steered' = [steered EXCEPT ![d] = @ + 1]
      /\ \/ conn[d] = "bound" /\ Write(To(d, <<Frame("steer", steered'[d], TRUE)>>)) /\ held' = held
         \/ conn[d] # "bound" /\ held' = [held EXCEPT ![d] = Append(@, steered'[d])] /\ down' = down
  BY DEF Steer, hostSide, childSide, contractVars
<1>3. /\ steered[d] \in Nat /\ steered'[d] = steered[d] + 1
      /\ c # d => steered'[c] = steered[c]
  BY <1>2 DEF RelayTypeOK
<1> DEFINE e == Frame("steer", steered'[d], TRUE)
           g == <<e>>
           F == To(d, g)
<1>4. e \in Frames /\ e.t = "steer" /\ e.n = steered'[d] BY <1>3 DEF Frame, Frames
<1> HIDE DEF e
<1>5. /\ g \in Seq(Frames) /\ Carried("steer", g) = {steered'[d]} /\ Rising("steer", g)
      /\ Carried("deliver", g) = {} /\ Rising("deliver", g)
  BY <1>4, CarriesOne
<1> HIDE DEF g
<1>6. F \in [Children -> Seq(Frames)] /\ F[d] = g /\ \A b \in Children \ {d} : F[b] = <<>>
  BY <1>5, ToOne
<1>7. conn[d] = "bound" => Write(F) BY <1>2 DEF F, g, e
<1> HIDE DEF F
<1>8. CASE c # d
  <2>1. held'[c] = held[c] BY <1>2, <1>8, ZenonT(60) DEF RelayTypeOK
  <2>2. Silent(c)
    <3>1. CASE down'[c] = down[c] BY <3>1, StillSilent
    <3>2. CASE conn[d] = "bound" /\ Reaches(c)
      <4>1. \A t : Carried(t, F[c]) = {} /\ Rising(t, F[c]) BY <1>6, <1>8, Nothing, CarriesNone
      <4>2. \E x \in Seq(Frames) :
              /\ down'[c] = down[c] \o x
              /\ \A t \in {"deliver", "steer"} :
                   /\ Carried(t, x) = Carried(t, F[c])
                   /\ Rising(t, F[c]) => Rising(t, x)
        BY <1>6, <1>7, <3>2, Aired
      <4> QED BY <4>1, <4>2 DEF Silent
    <3>3. conn[d] = "bound" /\ ~Reaches(c) => down'[c] = down[c] BY <1>6, <1>7, Written
    <3> QED BY <1>2, <3>1, <3>2, <3>3
  <2> QED BY <1>2, <1>3, <1>8, <2>1, <2>2, MailStill
<1>9. CASE c = d /\ conn[c] = "bound"
  <2> DEFINE w == down[c]
             h == told[c]
             n == steered[c]
  <2>1. /\ w \in Seq(Frames) /\ h \in Seq(Nat) /\ n \in Nat
        /\ held[c] = <<>> /\ held'[c] = <<>> /\ steered'[c] = n + 1
    BY <1>1, <1>2, <1>3, <1>9 DEF RelayTypeOK, MailFits
  <2>2. Stream("steer", h, w, <<>>, n) BY <1>1, <1>9 DEF MailFits
  <2>3. CASE Reaches(c)
    <3>1. PICK x \in Seq(Frames) :
             /\ down'[c] = down[c] \o x
             /\ \A t \in {"deliver", "steer"} :
                  /\ Carried(t, x) = Carried(t, F[c])
                  /\ Rising(t, F[c]) => Rising(t, x)
      BY <1>6, <1>7, <1>9, <2>3, Aired
    <3>2. Carried("steer", x) = {n + 1} /\ Rising("steer", x) BY <1>5, <1>6, <1>9, <2>1, <3>1
    <3>3. Carried("deliver", x) = {} /\ Rising("deliver", x) BY <1>5, <1>6, <1>9, <3>1
    <3>4. Stream("deliver", heard'[c], down'[c], mailbox'[c], Len(asks')) /\ Mail(c)' = Mail(c)
      BY <1>1, <1>2, <3>1, <3>3, MailRests
    <3>5. down'[c] = w \o x BY <3>1
    <3> HIDE DEF w, h, n
    <3>6. /\ Stream("steer", h, w \o x, <<>>, n + 1)
          /\ GrowsTo(Held("steer", h, w, <<>>), Held("steer", h, w \o x, <<>>))
      BY <2>1, <2>2, <3>2, StreamSends
    <3>7. Stream("steer", told'[c], down'[c], held'[c], steered'[c]) /\ GrowsTo(Steers(c), Steers(c)')
      BY <1>2, <2>1, <3>5, <3>6, MailMeans DEF w, h
    <3> QED BY <1>1, <1>2, <1>9, <2>1, <3>4, <3>7, Same DEF MailFits, Kept
  <2>4. CASE ~Reaches(c)
    <3>1. Gone(c) BY <1>2, <1>9, <2>4 DEF Reaches, Gone
    <3>2. down'[c] = down[c] BY <1>6, <1>7, <1>9, <2>4, Written
    <3>3. PICK x \in Seq(Frames) : down'[c] = down[c] \o x /\ \A t \in {"deliver", "steer"} : Carried(t, x) = {} /\ Rising(t, x)
      BY <3>2, StillSilent DEF Silent
    <3>4. Carried("deliver", x) = {} /\ Rising("deliver", x) /\ Carried("steer", x) = {} /\ Rising("steer", x) BY <3>3
    <3>5. Stream("deliver", heard'[c], down'[c], mailbox'[c], Len(asks')) /\ Mail(c)' = Mail(c)
      BY <1>1, <1>2, <3>3, <3>4, MailRests
    <3>6. Stream("steer", told'[c], down'[c], held'[c], steered'[c])
      <4>1. 1..n \subseteq 1..(n + 1) BY <2>1
      <4>2. down'[c] = w BY <3>2
      <4> HIDE DEF w, h, n
      <4>3. Stream("steer", h, w, <<>>, n + 1) BY <2>2, <4>1 DEF Stream
      <4> QED BY <1>2, <2>1, <4>2, <4>3 DEF h
    <3> QED BY <1>1, <1>2, <1>9, <2>1, <3>1, <3>5, <3>6 DEF MailFits, Kept
  <2> QED BY <2>3, <2>4
<1>10. CASE c = d /\ conn[c] # "bound"
  <2> DEFINE w == down[c]
             h == told[c]
             n == steered[c]
             k == held[c]
  <2>1. /\ w \in Seq(Frames) /\ h \in Seq(Nat) /\ n \in Nat /\ k \in Seq(Nat)
        /\ held'[c] = Append(k, n + 1) /\ steered'[c] = n + 1 /\ down'[c] = down[c]
    BY <1>2, <1>3, <1>10 DEF RelayTypeOK
  <2>2. Stream("steer", h, w, k, n) BY <1>1 DEF MailFits
  <2>3. PICK x \in Seq(Frames) : down'[c] = down[c] \o x /\ \A t \in {"deliver", "steer"} : Carried(t, x) = {} /\ Rising(t, x)
    BY <2>1, StillSilent DEF Silent
  <2>4. Carried("deliver", x) = {} /\ Rising("deliver", x) /\ Carried("steer", x) = {} /\ Rising("steer", x) BY <2>3
  <2>5. Stream("deliver", heard'[c], down'[c], mailbox'[c], Len(asks')) /\ Mail(c)' = Mail(c)
    BY <1>1, <1>2, <2>3, <2>4, MailRests
  <2>6. down'[c] = w \o x BY <2>3
  <2> HIDE DEF w, h, n, k
  <2>7. /\ Stream("steer", h, w \o x, Append(k, n + 1), n + 1)
        /\ GrowsTo(Held("steer", h, w, k), Held("steer", h, w \o x, Append(k, n + 1)))
    BY <2>1, <2>2, <2>4, StreamKeeps
  <2>8. Stream("steer", told'[c], down'[c], held'[c], steered'[c]) /\ GrowsTo(Steers(c), Steers(c)')
    BY <1>2, <2>1, <2>6, <2>7, MailMeans DEF w, h, k
  <2> QED BY <1>2, <1>10, <2>5, <2>8, Same DEF MailFits, Kept
<1> QED BY <1>8, <1>9, <1>10

\* The supervisor writes; a child's question or note is taken.
LEMMA MailWritten ==
  ASSUME RelayTypeOK, RelayTypeOK', BusMoves, MailInv, NEW c \in Children, NEW d \in Children, SupervisorWrites(d)
  PROVE  MailFits(c)' /\ Kept(c)
<1> DEFINE q == Message(Supervisor, d, "note")
<1>1. Accepted(q) /\ Write(Drained(q)) /\ UNCHANGED <<heard, told, steered, held, conn, cli>>
  BY DEF SupervisorWrites, supervisorSide, childSide
<1>2. Drained(q) \in [Children -> Seq(Frames)] /\ Carries(Drained(q), q) BY DrainedCarries
<1> HIDE DEF q
<1> QED BY <1>1, <1>2, MailAccepted

LEMMA MailTaken ==
  ASSUME RelayTypeOK, RelayTypeOK', BusMoves, MailInv, NEW c \in Children,
         NEW d \in Children, NEW k \in DOMAIN calls, calls[k].by = d, HostTakesCall(d, k),
         UNCHANGED <<supervisorSide, conn, childSide>>
  PROVE  MailFits(c)' /\ Kept(c)
<1> DEFINE refusal == To(d, <<Answer(k, FALSE)>>)
           q == Message(d, calls[k].to, "waiting")
           m == Message(d, calls[k].to, "note")
<1>1. UNCHANGED <<heard, told, steered, held, conn, cli>> BY DEF supervisorSide, childSide
<1>2. refusal \in [Children -> Seq(Frames)] /\ Mute(refusal) BY AnswerMute
<1>3. \/ mailbox' = mailbox /\ (UNCHANGED down \/ Write(refusal))
      \/ Accepted(q) /\ Write(Drained(q))
      \/ Accepted(m) /\ Write(WithReceipt(m, d, k))
  BY DEF HostTakesCall, HostAsks, HostSends, HostStartsReading, Receipt, WithReceipt
<1>4. Drained(q) \in [Children -> Seq(Frames)] /\ Carries(Drained(q), q) BY DrainedCarries
<1>5. WithReceipt(m, d, k) \in [Children -> Seq(Frames)] /\ Carries(WithReceipt(m, d, k), m) BY ReceiptCarries
<1> HIDE DEF refusal, q, m
<1>6. CASE mailbox' = mailbox /\ (UNCHANGED down \/ Write(refusal)) BY <1>1, <1>2, <1>6, MailUntouched
<1>7. CASE Accepted(q) /\ Write(Drained(q)) BY <1>1, <1>4, <1>7, MailAccepted
<1>8. CASE Accepted(m) /\ Write(WithReceipt(m, d, k)) BY <1>1, <1>5, <1>8, MailAccepted
<1> QED BY <1>3, <1>6, <1>7, <1>8

\* What was kept for a child goes out behind its registration.
LEMMA GreetCarries ==
  ASSUME RelayTypeOK, NEW c \in Children, MailFits(c)
  PROVE  /\ Greet(c) \in Seq(Frames)
         /\ Carried("deliver", Greet(c)) = ToSet(mailbox[c]) /\ Rising("deliver", Greet(c))
         /\ Carried("steer", Greet(c)) = ToSet(held[c]) /\ Rising("steer", Greet(c))
<1> DEFINE e == Frame("registered", 0, TRUE)
           r == <<e>>
           m == Each("deliver", mailbox[c])
           s == Each("steer", held[c])
<1>1. e \in Frames /\ e.t = "registered" BY DEF Frame, Frames
<1> HIDE DEF e
<1>2. r \in Seq(Frames) /\ \A t \in {"deliver", "steer"} : Carried(t, r) = {} /\ Rising(t, r) BY <1>1, CarriesOne
<1>3. /\ mailbox[c] \in Seq(Nat) /\ held[c] \in Seq(Nat) /\ Increasing(mailbox[c]) /\ Increasing(held[c])
  BY DEF RelayTypeOK, MailFits, Stream
<1>4. /\ m \in Seq(Frames) /\ Carried("deliver", m) = ToSet(mailbox[c]) /\ Rising("deliver", m)
      /\ Carried("steer", m) = {} /\ Rising("steer", m)
  BY <1>3, CarriesEach
<1>5. /\ s \in Seq(Frames) /\ Carried("steer", s) = ToSet(held[c]) /\ Rising("steer", s)
      /\ Carried("deliver", s) = {} /\ Rising("deliver", s)
  BY <1>3, CarriesEach
<1>6. Greet(c) = (r \o m) \o s BY DEF Greet, r, e
<1> HIDE DEF r, m, s
<1>7. ASSUME NEW u \in Seq(Frames), NEW v \in Seq(Frames), NEW t, Rising(t, u), Rising(t, v),
             Carried(t, u) = {} \/ Carried(t, v) = {}
      PROVE  u \o v \in Seq(Frames) /\ Rising(t, u \o v) /\ Carried(t, u \o v) = Carried(t, u) \cup Carried(t, v)
  <2>1. AllBefore(Carried(t, u), Carried(t, v)) BY <1>7 DEF AllBefore
  <2> QED BY <1>7, <2>1, CarriesBoth
<1> DEFINE rm == r \o m
<1>8. /\ rm \in Seq(Frames) /\ Rising("deliver", rm) /\ Carried("deliver", rm) = ToSet(mailbox[c])
      /\ Rising("steer", rm) /\ Carried("steer", rm) = {}
  <2>1. Carried("deliver", r) = {} /\ Rising("deliver", r) /\ Carried("steer", r) = {} /\ Rising("steer", r) BY <1>2
  <2>2. /\ rm \in Seq(Frames) /\ Rising("deliver", rm)
        /\ Carried("deliver", rm) = Carried("deliver", r) \cup Carried("deliver", m)
    BY <1>2, <1>4, <1>7, <2>1
  <2>3. Rising("steer", rm) /\ Carried("steer", rm) = Carried("steer", r) \cup Carried("steer", m)
    BY <1>2, <1>4, <1>7, <2>1
  <2> QED BY <1>4, <2>1, <2>2, <2>3
<1> HIDE DEF rm
<1>9. /\ rm \o s \in Seq(Frames) /\ Rising("deliver", rm \o s) /\ Carried("deliver", rm \o s) = ToSet(mailbox[c])
      /\ Rising("steer", rm \o s) /\ Carried("steer", rm \o s) = ToSet(held[c])
  <2>1. /\ rm \o s \in Seq(Frames) /\ Rising("deliver", rm \o s)
        /\ Carried("deliver", rm \o s) = Carried("deliver", rm) \cup Carried("deliver", s)
    BY <1>5, <1>7, <1>8
  <2>2. /\ Rising("steer", rm \o s)
        /\ Carried("steer", rm \o s) = Carried("steer", rm) \cup Carried("steer", s)
    BY <1>5, <1>7, <1>8
  <2> QED BY <1>5, <1>8, <2>1, <2>2
<1> QED BY <1>6, <1>9 DEF rm

LEMMA MailGreeted ==
  ASSUME RelayTypeOK, StagesFit, RelayTypeOK', BusMoves, MailInv, NEW c \in Children, NEW d \in Children,
         HostRegisters(d), UNCHANGED childSide
  PROVE  MailFits(c)' /\ Kept(c)
<1>1. MailFits(c) BY DEF MailInv
<1>2. UNCHANGED <<heard, told, steered, cli>> BY DEF HostRegisters, childSide
<1>3. CASE Refused(d)
  <2>1. UNCHANGED <<mailbox, held, down>> /\ conn' = [conn EXCEPT ![d] = "ended"] BY <1>3 DEF HostRegisters
  <2>2. conn'[c] = "bound" => conn[c] = "bound" BY <2>1 DEF RelayTypeOK
  <2> QED BY <1>2, <2>1, <2>2, MailUntouched
<1>4. CASE ~Refused(d)
  <2> DEFINE g == Greet(d)
             F == To(d, g)
  <2>1. /\ conn' = [conn EXCEPT ![d] = "bound"] /\ asks' = asks
        /\ mailbox' = [mailbox EXCEPT ![d] = <<>>] /\ held' = [held EXCEPT ![d] = <<>>] /\ Write(F)
    BY <1>4 DEF HostRegisters, Join
  <2>2. /\ \A b \in Children \ {d} : conn'[b] = conn[b] /\ mailbox'[b] = mailbox[b] /\ held'[b] = held[b]
        /\ conn'[d] = "bound" /\ mailbox'[d] = <<>> /\ held'[d] = <<>>
    BY <2>1 DEF RelayTypeOK
  <2>3. g \in Seq(Frames) BY GreetFrames
  <2> HIDE DEF g
  <2>4. F \in [Children -> Seq(Frames)] /\ F[d] = g /\ \A b \in Children \ {d} : F[b] = <<>> BY <2>3, ToOne
  <2> HIDE DEF F
  <2>5. ASSUME Reaches(c)
        PROVE  \E x \in Seq(Frames) :
                 /\ down'[c] = down[c] \o x
                 /\ \A t \in {"deliver", "steer"} :
                      /\ Carried(t, x) = Carried(t, F[c])
                      /\ Rising(t, F[c]) => Rising(t, x)
    BY <2>1, <2>4, <2>5, Aired
  <2>6. ~Reaches(c) => down'[c] = down[c] BY <2>1, <2>4, Written
  <2>7. CASE c # d
    <3>1. \A t : Carried(t, F[c]) = {} /\ Rising(t, F[c]) BY <2>4, <2>7, Nothing, CarriesNone
    <3>2. Silent(c)
      <4>1. CASE Reaches(c) BY <2>5, <3>1, <4>1 DEF Silent
      <4>2. CASE ~Reaches(c) BY <2>6, <4>2, StillSilent
      <4> QED BY <4>1, <4>2
    <3> QED BY <1>2, <2>2, <2>7, <3>2, MailStill
  <2>8. CASE c = d /\ Reaches(c)
    <3> DEFINE h == heard[c]
               k == mailbox[c]
               n == Len(asks)
               h2 == told[c]
               k2 == held[c]
               n2 == steered[c]
    <3>1. PICK x \in Seq(Frames) :
             /\ down'[c] = down[c] \o x
             /\ \A t \in {"deliver", "steer"} :
                  /\ Carried(t, x) = Carried(t, F[c])
                  /\ Rising(t, F[c]) => Rising(t, x)
      BY <2>5, <2>8
    <3>2. /\ Carried("deliver", x) = ToSet(k) /\ Rising("deliver", x)
          /\ Carried("steer", x) = ToSet(k2) /\ Rising("steer", x)
      BY <1>1, <2>4, <2>8, <3>1, GreetCarries DEF g
    <3>3. down[c] = <<>> BY <2>8 DEF HostRegisters, StagesFit
    <3>4. down'[c] = x BY <3>1, <3>3, ConcatEmptySeq
    <3>5. k \in Seq(Nat) /\ n \in Nat /\ k2 \in Seq(Nat) /\ n2 \in Nat BY AskTypes DEF RelayTypeOK
    <3>6. Stream("deliver", h, <<>>, k, n) /\ Stream("steer", h2, <<>>, k2, n2) BY <1>1, <3>3 DEF MailFits
    <3> HIDE DEF h, k, n, h2, k2, n2
    <3>7. Stream("deliver", h, x, <<>>, n) /\ Held("deliver", h, x, <<>>) = Held("deliver", h, <<>>, k)
      BY <3>2, <3>5, <3>6, StreamDrains
    <3>8. Stream("steer", h2, x, <<>>, n2) /\ Held("steer", h2, x, <<>>) = Held("steer", h2, <<>>, k2)
      BY <3>2, <3>5, <3>6, StreamDrains
    <3>9. Stream("deliver", heard'[c], down'[c], mailbox'[c], Len(asks')) /\ Mail(c)' = Mail(c)
      BY <1>2, <2>1, <2>2, <2>8, <3>3, <3>4, <3>7, MailMeans DEF h, k, n
    <3>10. Stream("steer", told'[c], down'[c], held'[c], steered'[c]) /\ Steers(c)' = Steers(c)
      BY <1>2, <2>2, <2>8, <3>3, <3>4, <3>8, MailMeans DEF h2, k2, n2
    <3> QED BY <2>2, <2>8, <3>9, <3>10, Same DEF MailFits, Kept
  <2>9. CASE c = d /\ ~Reaches(c)
    <3>1. Gone(c) BY <1>2, <2>2, <2>9 DEF Reaches, Gone
    <3>2. Silent(c) BY <2>6, <2>9, StillSilent
    <3>3. /\ Stream("deliver", heard'[c], down'[c], mailbox'[c], Len(asks'))
          /\ Stream("steer", told'[c], down'[c], held'[c], steered'[c])
      BY <1>1, <1>2, <2>2, <2>9, <3>2, StreamSilent
    <3> QED BY <2>2, <2>9, <3>1, <3>3 DEF MailFits, Kept
  <2> QED BY <2>7, <2>8, <2>9
<1> QED BY <1>3, <1>4

LEMMA MailHostReads ==
  ASSUME RelayInv, RelayTypeOK', BusMoves, MailInv, NEW c \in Children, NEW d \in Children, HostReads(d)
  PROVE  MailFits(c)' /\ Kept(c)
<1> DEFINE f == Head(up[d])
<1>1. up[d] # <<>> /\ Take(d) /\ UNCHANGED childSide /\ RelayTypeOK /\ StagesFit BY DEF HostReads, RelayInv
<1>2. f = up[d][1] /\ 1 \in DOMAIN up[d] BY <1>1, TakeTypes
<1>3. f.t \in {"call", "cancel"} => f.n \in DOMAIN calls /\ calls[f.n].by = d
  BY <1>2 DEF UpFits, RelayInv
<1> HIDE DEF f
<1>4. CASE HostRegisters(d) BY <1>1, <1>4, MailGreeted
<1>5. CASE f.t = "call" /\ UNCHANGED <<supervisorSide, conn>> /\ HostTakesCall(d, f.n)
  BY <1>1, <1>3, <1>5, MailTaken
<1>6. CASE f.t = "cancel" /\ UNCHANGED <<supervisorSide, mailbox, conn, relay>> /\ HostCancels(d, f.n)
  <2> DEFINE k == f.n
             F == To(calls[k].by, <<Answer(k, FALSE)>>)
  <2>1. k \in DOMAIN calls /\ calls[k].by = d BY <1>3, <1>6
  <2>2. UNCHANGED down \/ Write(NoFrames) \/ Write(F) BY <1>6, <2>1 DEF HostCancels
  <2> HIDE DEF k
  <2>3. F \in [Children -> Seq(Frames)] /\ Mute(F) BY <1>1, <2>1, AnswerMute
  <2>4. UNCHANGED <<heard, told, steered, mailbox, held, conn>> BY <1>1, <1>6 DEF supervisorSide, childSide
  <2> HIDE DEF F
  <2> QED BY <1>1, <2>2, <2>3, <2>4, NoneMute, MailUntouched
<1>7. CASE HostDrops(d) /\ Write(NoFrames) /\ UNCHANGED <<leg, steered, relay>>
  BY <1>1, <1>7, MailBye DEF childSide
<1> QED BY <1>4, <1>5, <1>6, <1>7 DEF HostReads, f

\* The child leaves: what is on the wire is lost with it.
LEMMA MailLeaves ==
  ASSUME RelayTypeOK, RelayTypeOK', BusMoves, MailInv, NEW c \in Children, NEW d \in Children,
         (\E bye \in BOOLEAN : ChildGoes(d, bye)) \/ ChildSeesClose(d)
  PROVE  MailFits(c)' /\ Kept(c)
<1>1. /\ UNCHANGED <<asks, heard, told, steered, mailbox, held, conn>>
      /\ down' = [down EXCEPT ![d] = <<>>] /\ cli' = [cli EXCEPT ![d] = "offline"]
  BY DEF ChildGoes, ChildSeesClose, contractVars, supervisorSide, hostSide
<1>2. /\ d # c => down'[c] = down[c]
      /\ down'[d] = <<>> /\ cli'[d] = "offline"
  BY <1>1 DEF RelayTypeOK
<1>3. CASE c # d
  <2>1. Silent(c) BY <1>2, <1>3, StillSilent
  <2> QED BY <1>1, <2>1, MailStill
<1>4. CASE c = d
  <2>1. Gone(c) BY <1>2, <1>4 DEF Gone
  <2>2. MailFits(c) BY DEF MailInv
  <2>3. /\ Stream("deliver", heard[c], <<>>, mailbox[c], Len(asks))
        /\ Stream("steer", told[c], <<>>, held[c], steered[c])
    BY <2>2, StreamCut DEF MailFits
  <2> QED BY <1>1, <1>2, <1>4, <2>1, <2>2, <2>3 DEF MailFits, Kept
<1> QED BY <1>3, <1>4

\* The child is shown what the first frame carries.
LEMMA MailRead ==
  ASSUME RelayTypeOK, RelayTypeOK', BusMoves, MailInv, NEW c \in Children, NEW d \in Children, ChildReads(d)
  PROVE  MailFits(c)' /\ Kept(c)
<1> DEFINE f == Head(down[d])
<1>1. /\ UNCHANGED <<asks, steered, mailbox, held, conn>> /\ down[d] # <<>>
      /\ down' = [down EXCEPT ![d] = Tail(@)]
      /\ heard' = [heard EXCEPT ![d] = IF f.t = "deliver" THEN Append(@, f.n) ELSE @]
      /\ told' = [told EXCEPT ![d] = IF f.t = "steer" THEN Append(@, f.n) ELSE @]
  BY DEF ChildReads, contractVars, supervisorSide, hostSide
<1>2. CASE c # d
  <2>1. down'[c] = down[c] /\ heard'[c] = heard[c] /\ told'[c] = told[c] BY <1>1, <1>2 DEF RelayTypeOK
  <2>2. Silent(c) BY <2>1, StillSilent
  <2> QED BY <1>1, <2>1, <2>2, MailStill
<1>3. CASE c = d
  <2> DEFINE w == down[c]
             h == heard[c]
             s == told[c]
             h2 == heard'[c]
             s2 == told'[c]
             k == mailbox[c]
             l == held[c]
             n == Len(asks)
             m == steered[c]
  <2>1. /\ down'[c] = Tail(w)
        /\ h2 = IF Head(w).t = "deliver" THEN Append(h, Head(w).n) ELSE h
        /\ s2 = IF Head(w).t = "steer" THEN Append(s, Head(w).n) ELSE s
    BY <1>1, <1>3 DEF RelayTypeOK
  <2>2. /\ w \in Seq(Frames) /\ w # <<>> /\ h \in Seq(Nat) /\ s \in Seq(Nat) /\ k \in Seq(Nat) /\ l \in Seq(Nat)
    BY <1>1, <1>3 DEF RelayTypeOK
  <2>3. MailFits(c) BY DEF MailInv
  <2>4. Stream("deliver", h, w, k, n) /\ Stream("steer", s, w, l, m) BY <2>3 DEF MailFits
  <2> HIDE DEF w, h, s, h2, s2, k, l, n, m
  <2>5. Stream("deliver", h2, Tail(w), k, n) /\ Held("deliver", h2, Tail(w), k) = Held("deliver", h, w, k)
    <3>1. Stream("deliver", h, w, k, n) BY <2>4
    <3>2. (Head(w).t = "deliver" => h2 = Append(h, Head(w).n)) /\ (Head(w).t # "deliver" => h2 = h) BY <2>1
    <3> QED BY <2>2, <3>1, <3>2, StreamReads
  <2>6. Stream("steer", s2, Tail(w), l, m) /\ Held("steer", s2, Tail(w), l) = Held("steer", s, w, l)
    <3>1. PICK t : t = "steer" OBVIOUS
    <3>2. Stream(t, s, w, l, m) BY <2>4, <3>1
    <3>3. (Head(w).t = t => s2 = Append(s, Head(w).n)) /\ (Head(w).t # t => s2 = s) BY <2>1, <3>1
    <3>4. Stream(t, s2, Tail(w), l, m) /\ Held(t, s2, Tail(w), l) = Held(t, s, w, l)
      BY <2>2, <3>2, <3>3, StreamReads
    <3> QED BY <3>1, <3>4
  <2>7. Stream("deliver", heard'[c], down'[c], mailbox'[c], Len(asks')) /\ Mail(c)' = Mail(c)
    BY <1>1, <2>1, <2>5, MailMeans DEF w, h, h2, k, n
  <2>8. Stream("steer", told'[c], down'[c], held'[c], steered'[c]) /\ Steers(c)' = Steers(c)
    BY <1>1, <2>1, <2>6, MailMeans DEF w, s, s2, l, m
  <2> QED BY <1>1, <2>3, <2>7, <2>8, Same DEF MailFits, Kept
<1> QED BY <1>2, <1>3

LEMMA MailStep ==
  ASSUME RelayInv, RelayTypeOK', BusMoves, MailInv, [RelayNext]_relayVars
  PROVE  MailInv' /\ \A c \in Children : Kept(c)
<1> SUFFICES ASSUME NEW c \in Children PROVE MailFits(c)' /\ Kept(c) BY DEF MailInv
<1>0. RelayTypeOK BY DEF RelayInv
<1>1. CASE Ensure \/ HostUp \/ HostFails \/ UNCHANGED relayVars BY <1>0, <1>1, MailQuiet
<1>2. CASE BrokerClose \/ \E d \in Children : RevokeReader(d) \/ LegSettles(d) \/ HostSeesClose(d)
  BY <1>2, MailTorn
<1>3. CASE \/ \E d \in Children : \/ \E reader \in BOOLEAN : SpawnChild(d, reader)
                                  \/ Connects(d)
                                  \/ \E kind \in CallKinds, to \in Names : ChildCalls(d, kind, to)
           \/ \E i \in DOMAIN asks, r \in {"replied", "timeout"} : Settles(i, r)
           \/ \E k \in DOMAIN calls : ChildGivesUp(k) \/ \E ok \in BOOLEAN : HostAnswersRead(k, ok)
  BY <1>0, <1>3, MailWords
<1>4. CASE \E d \in Children : Steer(d) BY <1>0, <1>4, MailSteered
<1>5. CASE \E d \in Children : SupervisorWrites(d) BY <1>0, <1>5, MailWritten
<1>6. CASE \E d \in Children : HostReads(d) BY <1>6, MailHostReads
<1>7. CASE \E d \in Children : (\E bye \in BOOLEAN : ChildGoes(d, bye)) \/ ChildSeesClose(d)
  BY <1>0, <1>7, MailLeaves
<1>8. CASE \E d \in Children : ChildReads(d) BY <1>0, <1>8, MailRead
<1> QED BY <1>1, <1>2, <1>3, <1>4, <1>5, <1>6, <1>7, <1>8, RelayAssumption DEF RelayNext, CallKinds

\* Every child hears its mail and its steers once and in the order in which
\* they were accepted, whatever was queued before it connected (host.ts).
THEOREM InOrderHeard == RelaySpec => []HeardInOrder
<1>1. RelayInv /\ MailInv /\ [RelayNext]_relayVars => MailInv'
  BY TypeStep, MailStep DEF RelayInv
<1>2. RelaySpec => []MailInv BY <1>1, MailStarts, RelayInvariant, PTL DEF RelaySpec
<1>3. MailInv => HeardInOrder BY MailMeans
<1> QED BY <1>2, <1>3, PTL

\* No accepted message or steer is dropped while its child may still get it.
THEOREM KeptUntilHeard == RelaySpec => NothingDropped
<1>1. RelayInv /\ MailInv /\ [RelayNext]_relayVars => MailInv'
  BY TypeStep, MailStep DEF RelayInv
<1>2. RelaySpec => []MailInv BY <1>1, MailStarts, RelayInvariant, PTL DEF RelaySpec
<1>3. RelayInv /\ MailInv /\ [RelayNext]_relayVars =>
        [\A c \in Children :
           Gone(c) \/ /\ GrowsTo(Mail(c), Mail(c)')
                      /\ GrowsTo(Steers(c), Steers(c)')]_relayVars
  BY TypeStep, MailStep DEF RelayInv, Kept
<1> QED BY <1>2, <1>3, RelayInvariant, PTL DEF RelaySpec, NothingDropped

---------------------------------------------------------------------------
(* Completions.  Three invariants are proved together: no report is told   *)
(* twice or lost (ToldExactlyOnce), none waits without something to move   *)
(* it (NoLostWake), and nothing stays behind a teardown                    *)
(* (QuietAfterDispose).                                                    *)

\* The types the arguments need.
Types ==
  /\ status \in [Runs -> Statuses]
  /\ settled \subseteq Runs
  /\ pending \subseteq Runs /\ armed \in BOOLEAN
  /\ flight \in [open : BOOLEAN, live : BOOLEAN, batch : SUBSET Runs]
  /\ headless \in BOOLEAN /\ idle \in BOOLEAN /\ disposed \in BOOLEAN
  /\ joining \subseteq Batches /\ owned \subseteq Runs
  /\ letter \subseteq Runs /\ sent \in [Runs -> Nat]
  /\ read \subseteq Runs /\ returned \subseteq Runs

\* A run settles after it ended, and only settled runs are queued or told.
OnlySettled ==
  /\ \A r \in settled : status[r] \in Ended
  /\ Waiting \cup ToldSet \cup letter \subseteq settled

\* A companion's run is alone in its call and is never queued.
OwnedApart ==
  /\ \A r \in owned : status[r] # "unborn" /\ Siblings(r) = {r}
  /\ Waiting \cap owned = {}

\* What the message in flight still answers for: the batch it would put back,
\* and the runs that were read or returned meanwhile.
LetterHolds ==
  /\ ~flight.open => letter = {} /\ flight.batch = {}
  /\ flight.open /\ ~disposed => flight.live
  /\ flight.batch \subseteq letter /\ letter \cap pending = {}
  /\ letter \subseteq flight.batch \cup read \cup returned
  /\ \A r \in letter : sent[r] = 0

\* While a call joins its runs the turn is running, and none of them has been
\* told by a message.
JoinersSilent ==
  /\ joining # {} => ~idle
  /\ \A B \in joining : \A r \in B : r \notin letter /\ sent[r] = 0
  /\ \A r \in returned : r \notin letter

\* A cancelled notifier holds nothing and puts nothing back.
Quiet == disposed => pending = {} /\ ~armed /\ ~flight.live

DeliveryInv ==
  /\ Types /\ OnlySettled /\ OwnedApart /\ LetterHolds /\ JoinersSilent
  /\ Quiet /\ ToldExactlyOnce /\ NoLostWake

\* Nothing is launched, queued or told at the start.
LEMMA StartsClean == Init => DeliveryInv
<1> SUFFICES ASSUME Init PROVE DeliveryInv
  OBVIOUS
<1> USE DEF Init, TrackerInit, NotifierInit, NoFlight
<1>1. Types
  BY DEF Types, Statuses, Ended
<1>2. ToldSet = {} /\ Waiting = {}
  BY DEF ToldSet, Waiting
<1>3. OnlySettled /\ OwnedApart
  BY <1>2 DEF OnlySettled, OwnedApart
<1>4. LetterHolds /\ JoinersSilent /\ Quiet
  BY DEF LetterHolds, JoinersSilent, Quiet
<1>5. ToldExactlyOnce
  BY <1>2 DEF ToldExactlyOnce
<1>6. NoLostWake
  BY DEF NoLostWake
<1> QED BY <1>1, <1>3, <1>4, <1>5, <1>6 DEF DeliveryInv

\* The calls partition the runs, so being legs of one call is symmetric.
LEMMA SiblingsAgree ==
  /\ \A B \in Batches : \A r \in B : r \in Runs /\ Siblings(r) = B
  /\ \A r \in Runs : Siblings(r) \in Batches /\ r \in Siblings(r)
  /\ \A r \in Runs : \A s \in Siblings(r) : s \in Runs /\ r \in Siblings(s)
<1>1. \A B \in Batches : \A r \in B : r \in Runs /\ Siblings(r) = B
  BY BatchAssumption DEF Siblings
<1>2. \A r \in Runs : \E B \in Batches : r \in B
  BY BatchAssumption
<1>3. \A r \in Runs : Siblings(r) \in Batches /\ r \in Siblings(r)
  BY <1>1, <1>2
<1> QED BY <1>1, <1>3

\* A launch concerns runs nobody has heard of (delegate, background-run launch).
LEMMA KeepsLaunch ==
  ASSUME DeliveryInv, NEW B \in Batches, Launch(B)
  PROVE  DeliveryInv'
<1> USE SiblingsAgree DEF DeliveryInv, Launch, TrackLaunch, notifierVars, toldVars
<1>1. Types' /\ OnlySettled' /\ OwnedApart' /\ Quiet'
  BY DEF Types, OnlySettled, OwnedApart, Quiet, Waiting, ToldSet, Statuses, Ended
<1>2. LetterHolds' /\ JoinersSilent'
  BY DEF Types, OnlySettled, Quiet, LetterHolds, JoinersSilent, ToldExactlyOnce, Waiting,
    ToldSet, Ended
<1>3. ToldExactlyOnce'
  BY DEF Types, OnlySettled, LetterHolds, JoinersSilent, ToldExactlyOnce, Waiting, ToldSet, Ended
<1>4. NoLostWake'
  BY DEF Types, Quiet, OwnedApart, NoLostWake, Ready, Waiting, Ended
<1> QED BY <1>1, <1>2, <1>3, <1>4

\* A companion's run is the only leg of its call.
LEMMA KeepsLaunchOwned ==
  ASSUME DeliveryInv, NEW B \in Batches, LaunchOwned(B)
  PROVE  DeliveryInv'
<1> USE SiblingsAgree DEF DeliveryInv, LaunchOwned, TrackLaunch, notifierVars, toldVars
<1>1. Types' /\ OnlySettled' /\ OwnedApart' /\ Quiet'
  BY DEF Types, OnlySettled, OwnedApart, Quiet, Waiting, ToldSet, Statuses, Ended
<1>2. LetterHolds' /\ JoinersSilent'
  BY DEF Types, OnlySettled, Quiet, LetterHolds, JoinersSilent, ToldExactlyOnce, Waiting,
    ToldSet, Ended
<1>3. ToldExactlyOnce'
  BY DEF Types, OnlySettled, LetterHolds, JoinersSilent, ToldExactlyOnce, Waiting, ToldSet, Ended
<1>4. NoLostWake'
  BY DEF Types, Quiet, OwnedApart, NoLostWake, Ready, Waiting, Ended
<1> QED BY <1>1, <1>2, <1>3, <1>4

\* A run that ends makes its siblings ready, and is itself about to settle.
LEMMA KeepsEnd ==
  ASSUME DeliveryInv, NEW r \in Runs, End(r)
  PROVE  DeliveryInv'
<1> USE SiblingsAgree DEF DeliveryInv, End, Finish, notifierVars, sessionVars, toldVars
<1>1. Types' /\ OnlySettled' /\ OwnedApart' /\ Quiet'
  BY DEF Types, OnlySettled, OwnedApart, Quiet, Waiting, ToldSet, Statuses, Ended
<1>2. LetterHolds' /\ JoinersSilent'
  BY DEF Types, OnlySettled, Quiet, LetterHolds, JoinersSilent, ToldExactlyOnce, Waiting,
    ToldSet, Ended
<1>3. ToldExactlyOnce'
  BY DEF Types, OnlySettled, LetterHolds, JoinersSilent, ToldExactlyOnce, Waiting, ToldSet, Ended
<1>4. NoLostWake'
  BY DEF Types, Quiet, OwnedApart, NoLostWake, Ready, Waiting, Ended
<1> QED BY <1>1, <1>2, <1>3, <1>4

\* The completion listener queues a report once and sets the timer.
LEMMA KeepsSettle ==
  ASSUME DeliveryInv, NEW r \in Runs, Settle(r)
  PROVE  DeliveryInv'
<1> USE SiblingsAgree DEF DeliveryInv, Settle, TrackSettle, SettleOnce, Completed, Notifies,
    Enqueue, Armed, Armable, notifierVars, toldVars
<1>1. Types' /\ OnlySettled' /\ OwnedApart' /\ Quiet'
  <2>1. Types'
    <3>1. armed' \in BOOLEAN
      BY DEF Types
    <3> QED BY <3>1 DEF Types, Ended, Statuses
  <2>2. OnlySettled'
    BY DEF Types, OnlySettled, Waiting, ToldSet, Ended
  <2>3. OwnedApart'
    BY DEF Types, OwnedApart, Waiting, Ended
  <2>4. Quiet'
    BY DEF Quiet
  <2> QED BY <2>1, <2>2, <2>3, <2>4
<1>2. LetterHolds' /\ JoinersSilent'
  BY DEF Types, OnlySettled, Quiet, LetterHolds, JoinersSilent, ToldExactlyOnce, Waiting,
    ToldSet, Ended
<1>3. ToldExactlyOnce'
  BY DEF Types, OnlySettled, LetterHolds, JoinersSilent, ToldExactlyOnce, Waiting, ToldSet, Ended
<1>4. NoLostWake'
  <2>1. CASE Notifies(r)
    <3>1. armed' = (armed \/ pending' \cap Ready(status') # {})
      BY <2>1
    <3> QED BY <3>1 DEF NoLostWake
  <2>2. CASE ~Notifies(r)
    <3>1. pending' = pending /\ armed' = armed /\ flight' = flight
      BY <2>2
    <3>2. \A x \in pending : r \notin Siblings(x)
      BY <2>2 DEF Notifies, Quiet, OwnedApart, Waiting, Types
    <3> QED BY <3>1, <3>2 DEF Types, NoLostWake, Ready, Ended
  <2> QED BY <2>1, <2>2
<1> QED BY <1>1, <1>2, <1>3, <1>4

\* Asking for an abort changes no report.
LEMMA KeepsStop ==
  ASSUME DeliveryInv, NEW r \in Runs, Stop(r)
  PROVE  DeliveryInv'
<1> USE SiblingsAgree DEF DeliveryInv, Stop, trackerVars, notifierVars, toldVars
<1>1. Types' /\ OnlySettled' /\ OwnedApart' /\ Quiet'
  BY DEF Types, OnlySettled, OwnedApart, Quiet, Waiting, ToldSet, Statuses, Ended
<1>2. LetterHolds' /\ JoinersSilent'
  BY DEF Types, OnlySettled, Quiet, LetterHolds, JoinersSilent, ToldExactlyOnce, Waiting,
    ToldSet, Ended
<1>3. ToldExactlyOnce'
  BY DEF Types, OnlySettled, LetterHolds, JoinersSilent, ToldExactlyOnce, Waiting, ToldSet, Ended
<1>4. NoLostWake'
  BY DEF Types, Quiet, OwnedApart, NoLostWake, Ready, Waiting, Ended
<1> QED BY <1>1, <1>2, <1>3, <1>4

\* A forced stop settles the run through the same listener.
LEMMA KeepsStopAgain ==
  ASSUME DeliveryInv, NEW r \in Runs, StopAgain(r)
  PROVE  DeliveryInv'
<1> USE SiblingsAgree DEF DeliveryInv, StopAgain, TrackForceSettle, SettleOnce, Completed,
    Notifies, Enqueue, Armed, Armable, notifierVars, toldVars
<1>1. Types' /\ OnlySettled' /\ OwnedApart' /\ Quiet'
  <2>1. Types'
    <3>1. armed' \in BOOLEAN
      BY DEF Types
    <3> QED BY <3>1 DEF Types, Ended, Statuses
  <2>2. OnlySettled'
    BY DEF Types, OnlySettled, Waiting, ToldSet, Ended
  <2>3. OwnedApart'
    BY DEF Types, OwnedApart, Waiting, Ended
  <2>4. Quiet'
    BY DEF Quiet
  <2> QED BY <2>1, <2>2, <2>3, <2>4
<1>2. LetterHolds' /\ JoinersSilent'
  BY DEF Types, OnlySettled, Quiet, LetterHolds, JoinersSilent, ToldExactlyOnce, Waiting,
    ToldSet, Ended
<1>3. ToldExactlyOnce'
  BY DEF Types, OnlySettled, LetterHolds, JoinersSilent, ToldExactlyOnce, Waiting, ToldSet, Ended
<1>4. NoLostWake'
  <2>1. CASE Notifies(r)
    <3>1. armed' = (armed \/ pending' \cap Ready(status') # {})
      BY <2>1
    <3> QED BY <3>1 DEF NoLostWake
  <2>2. CASE ~Notifies(r)
    <3>1. pending' = pending /\ armed' = armed /\ flight' = flight
      BY <2>2
    <3>2. \A x \in pending : r \notin Siblings(x)
      BY <2>2 DEF Notifies, Quiet, OwnedApart, Waiting, Types
    <3> QED BY <3>1, <3>2 DEF Types, NoLostWake, Ready, Ended
  <2> QED BY <2>1, <2>2
<1> QED BY <1>1, <1>2, <1>3, <1>4

\* An explicit read takes the report out of the queue and of a retry.
LEMMA KeepsCollect ==
  ASSUME DeliveryInv, NEW r \in Runs, Collect(r)
  PROVE  DeliveryInv'
<1> USE SiblingsAgree DEF DeliveryInv, Collect, MarkCollected, Discard, sessionVars
<1>1. Types' /\ OnlySettled' /\ OwnedApart' /\ Quiet'
  BY DEF Types, OnlySettled, OwnedApart, Quiet, Waiting, ToldSet, Statuses, Ended
<1>2. LetterHolds' /\ JoinersSilent'
  BY DEF Types, OnlySettled, Quiet, LetterHolds, JoinersSilent, ToldExactlyOnce, Waiting,
    ToldSet, Ended
<1>3. ToldExactlyOnce'
  BY DEF Types, OnlySettled, LetterHolds, JoinersSilent, ToldExactlyOnce, Waiting, ToldSet, Ended
<1>4. NoLostWake'
  BY DEF Types, Quiet, OwnedApart, NoLostWake, Ready, Waiting, Ended
<1> QED BY <1>1, <1>2, <1>3, <1>4

\* The return of a joining call takes its reports out of the queue.
LEMMA KeepsJoinReturn ==
  ASSUME DeliveryInv, NEW B \in Batches, JoinReturn(B)
  PROVE  DeliveryInv'
<1> USE SiblingsAgree DEF DeliveryInv, JoinReturn, Discard, trackerVars
<1>1. Types' /\ OnlySettled' /\ OwnedApart' /\ Quiet'
  BY DEF Types, OnlySettled, OwnedApart, Quiet, Waiting, ToldSet, Statuses, Ended
<1>2. LetterHolds' /\ JoinersSilent'
  BY DEF Types, OnlySettled, Quiet, LetterHolds, JoinersSilent, ToldExactlyOnce, Waiting,
    ToldSet, Ended
<1>3. ToldExactlyOnce'
  BY DEF Types, OnlySettled, LetterHolds, JoinersSilent, ToldExactlyOnce, Waiting, ToldSet, Ended
<1>4. NoLostWake'
  BY DEF Types, Quiet, OwnedApart, NoLostWake, Ready, Waiting, Ended
<1> QED BY <1>1, <1>2, <1>3, <1>4

\* A turn starts.
LEMMA KeepsTurnStarts ==
  ASSUME DeliveryInv, TurnStarts
  PROVE  DeliveryInv'
<1> USE SiblingsAgree DEF DeliveryInv, TurnStarts, trackerVars, notifierVars, toldVars
<1>1. Types' /\ OnlySettled' /\ OwnedApart' /\ Quiet'
  BY DEF Types, OnlySettled, OwnedApart, Quiet, Waiting, ToldSet, Statuses, Ended
<1>2. LetterHolds' /\ JoinersSilent'
  BY DEF Types, OnlySettled, Quiet, LetterHolds, JoinersSilent, ToldExactlyOnce, Waiting,
    ToldSet, Ended
<1>3. ToldExactlyOnce'
  BY DEF Types, OnlySettled, LetterHolds, JoinersSilent, ToldExactlyOnce, Waiting, ToldSet, Ended
<1>4. NoLostWake'
  BY DEF Types, Quiet, OwnedApart, NoLostWake, Ready, Waiting, Ended
<1> QED BY <1>1, <1>2, <1>3, <1>4

\* The supervisor is idle again; no call is joining.
LEMMA KeepsBusyEnds ==
  ASSUME DeliveryInv, BusyEnds
  PROVE  DeliveryInv'
<1> USE SiblingsAgree DEF DeliveryInv, BusyEnds, trackerVars, notifierVars, toldVars
<1>1. Types' /\ OnlySettled' /\ OwnedApart' /\ Quiet'
  BY DEF Types, OnlySettled, OwnedApart, Quiet, Waiting, ToldSet, Statuses, Ended
<1>2. LetterHolds' /\ JoinersSilent'
  BY DEF Types, OnlySettled, Quiet, LetterHolds, JoinersSilent, ToldExactlyOnce, Waiting,
    ToldSet, Ended
<1>3. ToldExactlyOnce'
  BY DEF Types, OnlySettled, LetterHolds, JoinersSilent, ToldExactlyOnce, Waiting, ToldSet, Ended
<1>4. NoLostWake'
  BY DEF Types, Quiet, OwnedApart, NoLostWake, Ready, Waiting, Ended
<1> QED BY <1>1, <1>2, <1>3, <1>4

\* The host accepted the message in flight.
LEMMA KeepsArrives ==
  ASSUME DeliveryInv, Arrives
  PROVE  DeliveryInv'
<1> USE SiblingsAgree DEF DeliveryInv, Arrives, Land, Told, Armed, Armable, NoFlight, trackerVars,
    sessionVars
<1>1. Types' /\ OnlySettled' /\ OwnedApart' /\ Quiet'
  BY DEF Types, OnlySettled, OwnedApart, Quiet, Waiting, ToldSet, Statuses, Ended
<1>2. LetterHolds' /\ JoinersSilent'
  BY DEF Types, OnlySettled, Quiet, LetterHolds, JoinersSilent, ToldExactlyOnce, Waiting,
    ToldSet, Ended
<1>3. ToldExactlyOnce'
  BY DEF Types, OnlySettled, LetterHolds, JoinersSilent, ToldExactlyOnce, Waiting, ToldSet, Ended
<1>4. NoLostWake'
  BY DEF Types, Quiet, OwnedApart, NoLostWake, Ready, Waiting, Ended
<1> QED BY <1>1, <1>2, <1>3, <1>4

\* The host refused the message in flight.
LEMMA KeepsIsRefused ==
  ASSUME DeliveryInv, IsRefused
  PROVE  DeliveryInv'
<1> USE SiblingsAgree DEF DeliveryInv, IsRefused, Bounce, Requeued, ReturnedBatch, Armed, Armable,
    NoFlight, trackerVars, sessionVars
<1>1. Types' /\ OnlySettled' /\ OwnedApart' /\ Quiet'
  BY DEF Types, OnlySettled, OwnedApart, Quiet, Waiting, ToldSet, Statuses, Ended
<1>2. LetterHolds' /\ JoinersSilent'
  BY DEF Types, OnlySettled, Quiet, LetterHolds, JoinersSilent, ToldExactlyOnce, Waiting,
    ToldSet, Ended
<1>3. ToldExactlyOnce'
  BY DEF Types, OnlySettled, LetterHolds, JoinersSilent, ToldExactlyOnce, Waiting, ToldSet, Ended
<1>4. NoLostWake'
  BY DEF Types, Quiet, OwnedApart, NoLostWake, Ready, Waiting, Ended
<1> QED BY <1>1, <1>2, <1>3, <1>4

\* Teardown cancels the notifier.
LEMMA KeepsDispose ==
  ASSUME DeliveryInv, Dispose
  PROVE  DeliveryInv'
<1> USE SiblingsAgree DEF DeliveryInv, Dispose, Cancel, trackerVars, toldVars
<1>1. Types' /\ OnlySettled' /\ OwnedApart' /\ Quiet'
  BY DEF Types, OnlySettled, OwnedApart, Quiet, Waiting, ToldSet, Statuses, Ended
<1>2. LetterHolds' /\ JoinersSilent'
  BY DEF Types, OnlySettled, Quiet, LetterHolds, JoinersSilent, ToldExactlyOnce, Waiting,
    ToldSet, Ended
<1>3. ToldExactlyOnce'
  BY DEF Types, OnlySettled, LetterHolds, JoinersSilent, ToldExactlyOnce, Waiting, ToldSet, Ended
<1>4. NoLostWake'
  BY DEF Types, Quiet, OwnedApart, NoLostWake, Ready, Waiting, Ended
<1> QED BY <1>1, <1>2, <1>3, <1>4

\* A flush by the timer that the host takes at once.
LEMMA KeepsTimerDelivers ==
  ASSUME DeliveryInv, TimerDelivers
  PROVE  DeliveryInv'
<1> USE SiblingsAgree DEF DeliveryInv, TimerDelivers, OnTimer, Rest, Delivers, FlushDelivers,
    Handing, Told, BatchOf, Armable, trackerVars
<1>1. Types' /\ OnlySettled' /\ OwnedApart' /\ Quiet'
  <2>1. sent' \in [Runs -> Nat]
    BY DEF Types
  <2>2. Types'
    BY <2>1 DEF Types
  <2>3. OnlySettled' /\ OwnedApart' /\ Quiet'
    BY DEF Types, OnlySettled, OwnedApart, Quiet, Waiting, ToldSet, Ended
  <2> QED BY <2>2, <2>3
<1>2. LetterHolds' /\ JoinersSilent'
  BY DEF Types, OnlySettled, Quiet, LetterHolds, JoinersSilent, ToldExactlyOnce, Waiting,
    ToldSet, Ended
<1>3. ToldExactlyOnce'
  BY DEF Types, OnlySettled, LetterHolds, JoinersSilent, ToldExactlyOnce, Waiting, ToldSet, Ended
<1>4. NoLostWake'
  BY DEF Types, Quiet, OwnedApart, NoLostWake, Ready, Waiting, Ended
<1> QED BY <1>1, <1>2, <1>3, <1>4

\* A flush by the timer that the host answers with a promise.
LEMMA KeepsTimerDeparts ==
  ASSUME DeliveryInv, TimerDeparts
  PROVE  DeliveryInv'
<1> USE SiblingsAgree DEF DeliveryInv, TimerDeparts, OnTimer, Rest, Departs, FlushTakesOff,
    Handing, Flying, BatchOf, Armable, trackerVars
<1>1. Types' /\ OnlySettled' /\ OwnedApart' /\ Quiet'
  BY DEF Types, OnlySettled, OwnedApart, Quiet, Waiting, ToldSet, Statuses, Ended
<1>2. LetterHolds' /\ JoinersSilent'
  BY DEF Types, OnlySettled, Quiet, LetterHolds, JoinersSilent, ToldExactlyOnce, Waiting,
    ToldSet, Ended
<1>3. ToldExactlyOnce'
  BY DEF Types, OnlySettled, LetterHolds, JoinersSilent, ToldExactlyOnce, Waiting, ToldSet, Ended
<1>4. NoLostWake'
  BY DEF Types, Quiet, OwnedApart, NoLostWake, Ready, Waiting, Ended
<1> QED BY <1>1, <1>2, <1>3, <1>4

\* A flush by the timer that hands nothing over.
LEMMA KeepsTimerWaits ==
  ASSUME DeliveryInv, TimerWaits
  PROVE  DeliveryInv'
<1> USE SiblingsAgree DEF DeliveryInv, TimerWaits, OnTimer, Rest, Waits, FlushJoinsFlight,
    FlushHolds, FlushThrows, Handing, Requeued, BatchOf, Armable, trackerVars
<1>1. Types' /\ OnlySettled' /\ OwnedApart' /\ Quiet'
  BY DEF Types, OnlySettled, OwnedApart, Quiet, Waiting, ToldSet, Statuses, Ended
<1>2. LetterHolds' /\ JoinersSilent'
  BY DEF Types, OnlySettled, Quiet, LetterHolds, JoinersSilent, ToldExactlyOnce, Waiting,
    ToldSet, Ended
<1>3. ToldExactlyOnce'
  BY DEF Types, OnlySettled, LetterHolds, JoinersSilent, ToldExactlyOnce, Waiting, ToldSet, Ended
<1>4. NoLostWake'
  BY DEF Types, Quiet, OwnedApart, NoLostWake, Ready, Waiting, Ended
<1> QED BY <1>1, <1>2, <1>3, <1>4

\* A flush by agent_settled that the host takes at once.
LEMMA KeepsSettledDelivers ==
  ASSUME DeliveryInv, SettledDelivers
  PROVE  DeliveryInv'
<1> USE SiblingsAgree DEF DeliveryInv, SettledDelivers, OnSettled, Rest, Delivers, FlushDelivers,
    Handing, Told, BatchOf, Armable, trackerVars
<1>1. Types' /\ OnlySettled' /\ OwnedApart' /\ Quiet'
  <2>1. sent' \in [Runs -> Nat]
    BY DEF Types
  <2>2. Types'
    BY <2>1 DEF Types
  <2>3. OnlySettled' /\ OwnedApart' /\ Quiet'
    BY DEF Types, OnlySettled, OwnedApart, Quiet, Waiting, ToldSet, Ended
  <2> QED BY <2>2, <2>3
<1>2. LetterHolds' /\ JoinersSilent'
  BY DEF Types, OnlySettled, Quiet, LetterHolds, JoinersSilent, ToldExactlyOnce, Waiting,
    ToldSet, Ended
<1>3. ToldExactlyOnce'
  BY DEF Types, OnlySettled, LetterHolds, JoinersSilent, ToldExactlyOnce, Waiting, ToldSet, Ended
<1>4. NoLostWake'
  BY DEF Types, Quiet, OwnedApart, NoLostWake, Ready, Waiting, Ended
<1> QED BY <1>1, <1>2, <1>3, <1>4

\* A flush by agent_settled that the host answers with a promise.
LEMMA KeepsSettledDeparts ==
  ASSUME DeliveryInv, SettledDeparts
  PROVE  DeliveryInv'
<1> USE SiblingsAgree DEF DeliveryInv, SettledDeparts, OnSettled, Rest, Departs, FlushTakesOff,
    Handing, Flying, BatchOf, Armable, trackerVars
<1>1. Types' /\ OnlySettled' /\ OwnedApart' /\ Quiet'
  BY DEF Types, OnlySettled, OwnedApart, Quiet, Waiting, ToldSet, Statuses, Ended
<1>2. LetterHolds' /\ JoinersSilent'
  BY DEF Types, OnlySettled, Quiet, LetterHolds, JoinersSilent, ToldExactlyOnce, Waiting,
    ToldSet, Ended
<1>3. ToldExactlyOnce'
  BY DEF Types, OnlySettled, LetterHolds, JoinersSilent, ToldExactlyOnce, Waiting, ToldSet, Ended
<1>4. NoLostWake'
  BY DEF Types, Quiet, OwnedApart, NoLostWake, Ready, Waiting, Ended
<1> QED BY <1>1, <1>2, <1>3, <1>4

\* A flush by agent_settled that hands nothing over.
LEMMA KeepsSettledWaits ==
  ASSUME DeliveryInv, SettledWaits
  PROVE  DeliveryInv'
<1> USE SiblingsAgree DEF DeliveryInv, SettledWaits, OnSettled, Rest, Waits, FlushJoinsFlight,
    FlushHolds, FlushThrows, Handing, Requeued, BatchOf, Armable, trackerVars
<1>1. Types' /\ OnlySettled' /\ OwnedApart' /\ Quiet'
  BY DEF Types, OnlySettled, OwnedApart, Quiet, Waiting, ToldSet, Statuses, Ended
<1>2. LetterHolds' /\ JoinersSilent'
  BY DEF Types, OnlySettled, Quiet, LetterHolds, JoinersSilent, ToldExactlyOnce, Waiting,
    ToldSet, Ended
<1>3. ToldExactlyOnce'
  BY DEF Types, OnlySettled, LetterHolds, JoinersSilent, ToldExactlyOnce, Waiting, ToldSet, Ended
<1>4. NoLostWake'
  BY DEF Types, Quiet, OwnedApart, NoLostWake, Ready, Waiting, Ended
<1> QED BY <1>1, <1>2, <1>3, <1>4

\* Every step of the wiring keeps the invariant.
LEMMA DeliveryStep == DeliveryInv /\ [Next]_vars => DeliveryInv'
<1> SUFFICES ASSUME DeliveryInv, [Next]_vars PROVE DeliveryInv'
  OBVIOUS
<1>1. CASE RunSteps
  BY <1>1, KeepsEnd, KeepsSettle, KeepsStop, KeepsStopAgain, KeepsCollect DEF RunSteps
<1>2. CASE CallSteps
  BY <1>2, KeepsLaunch, KeepsLaunchOwned, KeepsJoinReturn DEF CallSteps
<1>3. CASE HostSteps
  BY <1>3, KeepsTurnStarts, KeepsBusyEnds, KeepsArrives, KeepsIsRefused, KeepsDispose DEF HostSteps
<1>4. CASE Flushes
  BY <1>4, KeepsTimerDelivers, KeepsTimerDeparts, KeepsTimerWaits,
     KeepsSettledDelivers, KeepsSettledDeparts, KeepsSettledWaits DEF Flushes
<1>5. CASE UNCHANGED vars
  <2>1. Types' /\ OnlySettled' /\ OwnedApart' /\ Quiet'
    BY <1>5 DEF vars, trackerVars, notifierVars, sessionVars, toldVars, DeliveryInv,
       Types, OnlySettled, OwnedApart, Quiet, Waiting, ToldSet
  <2>2. LetterHolds' /\ JoinersSilent' /\ ToldExactlyOnce'
    BY <1>5 DEF vars, trackerVars, notifierVars, sessionVars, toldVars, DeliveryInv,
       LetterHolds, JoinersSilent, ToldExactlyOnce, Waiting, ToldSet
  <2>3. NoLostWake'
    BY <1>5 DEF vars, trackerVars, notifierVars, sessionVars, toldVars, DeliveryInv, NoLostWake,
        Ready
  <2> QED BY <2>1, <2>2, <2>3 DEF DeliveryInv
<1> QED BY <1>1, <1>2, <1>3, <1>4, <1>5 DEF Next

\* What the tracker retains: every run that was launched and has not settled,
\* and the settled ones in the eviction queue, each once and within the bound.
Unsettled == {r \in Runs : status[r] # "unborn" /\ r \notin settled}
Once(order) == \A i, j \in DOMAIN order : order[i] = order[j] => i = j
Retention ==
  /\ settledOrder \in Seq(settled) /\ Len(settledOrder) <= MaxRetained /\ Once(settledOrder)
  /\ runs = Unsettled \cup ToSet(settledOrder)

\* The drops remembered are the last losses; what was settled and is not
\* retained was read or lost, and not both.
LossesFit ==
  /\ lost \in Seq(settled) /\ dropped \in Seq(settled)
  /\ Len(dropped) <= MaxDropped /\ Len(dropped) <= Len(lost)
  /\ Len(dropped) < Len(lost) => Len(dropped) = MaxDropped
  /\ \A i \in DOMAIN dropped : dropped[i] = lost[Len(lost) - Len(dropped) + i]
  /\ \A i \in DOMAIN lost : lost[i] \notin runs \cup collected
  /\ settled \subseteq runs \cup collected \cup ToSet(lost)

TrackerInv == Retention /\ LossesFit

\* The numbers alone: a memory of m drops, after n losses, of at most k.
LEMMA MemoryCounts ==
  /\ \A m, n \in Nat, k \in Nat \ {0} :
       m <= k /\ m <= n /\ (m < n => m = k) =>
         IF m >= k THEN m = k /\ m > 0 ELSE m < k /\ m = n
  /\ \A m, n, i \in Nat, k \in Nat \ {0} :
       m <= k /\ m <= n /\ (m < n => m = k) /\ 1 <= i /\ i <= n /\ ~(i + k <= n) =>
         i - (n - m) \in 1..m /\ (n - m) + (i - (n - m)) = i
  OBVIOUS

\* Where the memory of drops stands, no loss goes without a word.
LEMMA LossesTold == LossesFit => NoSilentLoss
<1> SUFFICES ASSUME LossesFit PROVE NoSilentLoss
  OBVIOUS
<1>1. /\ Len(lost) \in Nat /\ DOMAIN lost = 1..Len(lost) /\ Len(dropped) \in Nat /\ DOMAIN dropped = 1..Len(dropped)
  BY DEF LossesFit
<1>2. ASSUME NEW i \in DOMAIN dropped PROVE Len(lost) - Len(dropped) + i \in DOMAIN lost
  BY <1>1 DEF LossesFit
<1>3. ToSet(dropped) \cap (runs \cup collected) = {}
  BY <1>2 DEF LossesFit, ToSet
<1>4. ASSUME NEW i \in DOMAIN lost PROVE lost[i] \in ToSet(dropped) \cup Forgotten
  <2>1. CASE i + MaxDropped <= Len(lost)
    BY <2>1 DEF Forgotten
  <2>2. CASE ~(i + MaxDropped <= Len(lost))
    <3> DEFINE j == i - (Len(lost) - Len(dropped))
           m == Len(dropped)
           n == Len(lost)
    <3>1. /\ m \in Nat /\ n \in Nat /\ i \in 1..n /\ MaxDropped \in Nat \ {0}
          /\ m <= MaxDropped /\ m <= n /\ (m < n => m = MaxDropped) /\ ~(i + MaxDropped <= n)
      <4>1. MaxDropped \in Nat \ {0}
        BY RetentionAssumption
      <4>2. m <= MaxDropped /\ m <= n /\ (m < n => m = MaxDropped)
        BY DEF LossesFit
      <4>3. m \in Nat /\ n \in Nat /\ i \in 1..n
        BY <1>1
      <4> QED BY <2>2, <4>1, <4>2, <4>3
    <3>2. i - (n - m) \in 1..m /\ (n - m) + (i - (n - m)) = i
      <4> HIDE DEF m, n
      <4>1. i \in Nat /\ 1 <= i /\ i <= n
        BY <3>1
      <4> QED BY <3>1, <4>1, MemoryCounts
    <3>3. j \in DOMAIN dropped /\ Len(lost) - Len(dropped) + j = i
      BY <3>2, <1>1
    <3> HIDE DEF j, m, n
    <3> QED BY <3>3 DEF LossesFit, ToSet
  <2> QED BY <2>1, <2>2
<1>5. settled \subseteq runs \cup collected \cup ToSet(dropped) \cup Forgotten
  BY <1>4 DEF LossesFit, ToSet
<1> QED BY <1>3, <1>5 DEF NoSilentLoss

\* The memory of drops after one more loss (recordDrop).
LEMMA LossRecorded ==
  ASSUME NEW S, NEW T, S \subseteq T, lost \in Seq(S), dropped \in Seq(S), NEW r \in T,
         Len(dropped) <= MaxDropped, Len(dropped) <= Len(lost),
         Len(dropped) < Len(lost) => Len(dropped) = MaxDropped,
         \A i \in DOMAIN dropped : dropped[i] = lost[Len(lost) - Len(dropped) + i],
         dropped' = RecordDrop(r), lost' = Append(lost, r)
  PROVE  /\ lost' \in Seq(T) /\ dropped' \in Seq(T)
         /\ Len(dropped') <= MaxDropped /\ Len(dropped') <= Len(lost')
         /\ Len(dropped') < Len(lost') => Len(dropped') = MaxDropped
         /\ \A i \in DOMAIN dropped' : dropped'[i] = lost'[Len(lost') - Len(dropped') + i]
         /\ DOMAIN lost' = DOMAIN lost \cup {Len(lost) + 1}
         /\ lost'[Len(lost) + 1] = r /\ \A i \in DOMAIN lost : lost'[i] = lost[i]
<1>1. lost \in Seq(T) /\ dropped \in Seq(T)
  OBVIOUS
<1>2. /\ Len(lost) \in Nat /\ DOMAIN lost = 1..Len(lost) /\ Len(dropped) \in Nat /\ DOMAIN dropped = 1..Len(dropped)
  BY <1>1
<1>3. /\ lost' \in Seq(T) /\ Len(lost') = Len(lost) + 1 /\ DOMAIN lost' = 1..(Len(lost) + 1)
      /\ lost'[Len(lost) + 1] = r /\ \A i \in 1..Len(lost) : lost'[i] = lost[i]
  BY <1>1
<1>e. IF Len(dropped) >= MaxDropped THEN Len(dropped) = MaxDropped /\ Len(dropped) > 0
      ELSE Len(dropped) < MaxDropped /\ Len(dropped) = Len(lost)
  <2> DEFINE m == Len(dropped)
             n == Len(lost)
  <2>1. m \in Nat /\ n \in Nat /\ m <= MaxDropped /\ m <= n /\ (m < n => m = MaxDropped)
    BY <1>2
  <2> HIDE DEF m, n
  <2>2. IF m >= MaxDropped THEN m = MaxDropped /\ m > 0 ELSE m < MaxDropped /\ m = n
    BY <2>1, RetentionAssumption, MemoryCounts
  <2> QED BY <2>2 DEF m, n
<1>4. CASE Len(dropped) >= MaxDropped
  <2>1. Len(dropped) = MaxDropped /\ Len(dropped) > 0 /\ dropped # <<>>
    BY <1>4, <1>e
  <2>2. /\ Tail(dropped) \in Seq(T) /\ Len(Tail(dropped)) = Len(dropped) - 1
        /\ \A i \in 1..(Len(dropped) - 1) : Tail(dropped)[i] = dropped[i + 1]
    BY <2>1, <1>1, <1>2
  <2>3. dropped' = Append(Tail(dropped), r)
    BY <1>4 DEF RecordDrop
  <2>4. /\ dropped' \in Seq(T) /\ Len(dropped') = Len(dropped) /\ DOMAIN dropped' = 1..Len(dropped)
        /\ dropped'[Len(dropped)] = r /\ \A i \in 1..(Len(dropped) - 1) : dropped'[i] = dropped[i + 1]
    <3> DEFINE t == Tail(dropped)
    <3>1. t \in Seq(T) /\ dropped' = Append(t, r)
      BY <2>2, <2>3
    <3>2. Len(t) = Len(dropped) - 1 /\ \A i \in 1..(Len(dropped) - 1) : t[i] = dropped[i + 1]
      BY <2>2
    <3> HIDE DEF t
    <3>3. /\ dropped' \in Seq(T) /\ Len(dropped') = Len(t) + 1 /\ DOMAIN dropped' = 1..(Len(t) + 1)
          /\ dropped'[Len(t) + 1] = r /\ \A i \in 1..Len(t) : dropped'[i] = t[i]
      BY <3>1
    <3> QED BY <3>2, <3>3, <1>2
  <2>5. ASSUME NEW i \in DOMAIN dropped' PROVE dropped'[i] = lost'[Len(lost') - Len(dropped') + i]
    <3>1. i \in 1..Len(dropped) /\ Len(lost') - Len(dropped') + i = Len(lost) - Len(dropped) + (i + 1)
      BY <2>4, <1>2, <1>3
    <3>2. CASE i = Len(dropped)
      BY <3>1, <3>2, <2>4, <1>2, <1>3
    <3>3. CASE i # Len(dropped)
      <4>1. i + 1 \in DOMAIN dropped /\ i \in 1..(Len(dropped) - 1)
        BY <3>1, <3>3, <1>2
      <4>2. Len(lost) - Len(dropped) + (i + 1) \in 1..Len(lost)
        BY <4>1, <1>2
      <4>3. dropped[i + 1] = lost[Len(lost) - Len(dropped) + (i + 1)]
        BY <4>1
      <4> QED BY <4>1, <4>2, <4>3, <3>1, <2>4, <1>3
    <3> QED BY <3>2, <3>3
  <2> QED BY <2>1, <2>4, <2>5, <1>2, <1>3
<1>5. CASE ~(Len(dropped) >= MaxDropped)
  <2>1. dropped' = Append(dropped, r) /\ Len(dropped) < MaxDropped /\ Len(dropped) = Len(lost)
    BY <1>5, <1>e DEF RecordDrop
  <2>2. /\ dropped' \in Seq(T) /\ Len(dropped') = Len(dropped) + 1 /\ DOMAIN dropped' = 1..(Len(dropped) + 1)
        /\ dropped'[Len(dropped) + 1] = r /\ \A i \in 1..Len(dropped) : dropped'[i] = dropped[i]
    BY <2>1, <1>1
  <2>3. ASSUME NEW i \in DOMAIN dropped' PROVE dropped'[i] = lost'[Len(lost') - Len(dropped') + i]
    <3>1. Len(lost') - Len(dropped') + i = i /\ i \in 1..(Len(dropped) + 1)
      BY <2>1, <2>2, <1>2, <1>3
    <3>2. CASE i \in DOMAIN dropped
      <4>1. Len(lost) - Len(dropped) + i = i
        BY <3>2, <2>1, <1>2
      <4> QED BY <4>1, <3>1, <3>2, <2>1, <2>2, <1>2, <1>3
    <3>3. CASE i \notin DOMAIN dropped
      BY <3>1, <3>3, <2>1, <2>2, <1>2, <1>3
    <3> QED BY <3>2, <3>3
  <2>4. Len(dropped') <= MaxDropped
    <3>1. \A m \in Nat, k \in Nat \ {0} : m < k => m + 1 <= k
      OBVIOUS
    <3> QED BY <3>1, <2>1, <2>2, <1>2, RetentionAssumption
  <2>5. Len(dropped') <= Len(lost') /\ (Len(dropped') < Len(lost') => Len(dropped') = MaxDropped)
    BY <2>1, <2>2, <1>2, <1>3
  <2> QED BY <2>2, <2>3, <2>4, <2>5, <1>3
<1> QED BY <1>4, <1>5

\* One element leaves a sequence; the others keep their order.
LEMMA Removal ==
  ASSUME NEW S, NEW s \in Seq(S), NEW at \in DOMAIN s
  PROVE  /\ RemoveAt(s, at) \in Seq(S) /\ Len(RemoveAt(s, at)) = Len(s) - 1
         /\ \A i \in 1..(Len(s) - 1) : RemoveAt(s, at)[i] = IF i < at THEN s[i] ELSE s[i + 1]
<1> DEFINE front == SubSeq(s, 1, at - 1)
           rear == SubSeq(s, at + 1, Len(s))
<1>1. Len(s) \in Nat /\ DOMAIN s = 1..Len(s) /\ \A i \in 1..Len(s) : s[i] \in S
  OBVIOUS
<1>2. at - 1 \in Int /\ at + 1 \in Int
  BY <1>1
<1>3. front \in Seq(S) /\ Len(front) = at - 1 /\ \A i \in 1..(at - 1) : front[i] = s[i]
  <2>1. \A i \in 1..(at - 1) : s[i] \in S
    BY <1>1
  <2> QED BY <2>1, <1>1, <1>2, SubSeqProperties
<1>4. rear \in Seq(S) /\ Len(rear) = Len(s) - at /\ \A i \in 1..(Len(s) - at) : rear[i] = s[at + i]
  <2>1. \A i \in (at + 1)..Len(s) : s[i] \in S
    BY <1>1
  <2> QED BY <2>1, <1>1, <1>2, SubSeqProperties
<1> HIDE DEF front, rear
<1>5. /\ front \o rear \in Seq(S) /\ Len(front \o rear) = Len(front) + Len(rear)
      /\ \A i \in 1..(Len(front) + Len(rear)) :
            (front \o rear)[i] = IF i <= Len(front) THEN front[i] ELSE rear[i - Len(front)]
  BY <1>3, <1>4, ConcatProperties
<1>6. RemoveAt(s, at) = front \o rear
  BY DEF RemoveAt, front, rear
<1>7. ASSUME NEW i \in 1..(Len(s) - 1)
      PROVE  (front \o rear)[i] = IF i < at THEN s[i] ELSE s[i + 1]
  <2>1. CASE i < at
    BY <2>1, <1>1, <1>3, <1>4, <1>5
  <2>2. CASE i >= at
    <3>1. i - Len(front) \in 1..(Len(s) - at) /\ at + (i - Len(front)) = i + 1
      BY <2>2, <1>1, <1>3
    <3>2. (front \o rear)[i] = rear[i - Len(front)]
      BY <2>2, <1>1, <1>3, <1>4, <1>5
    <3> QED BY <3>1, <3>2, <2>2, <1>1, <1>4
  <2>3. i < at \/ i >= at
    BY <1>1
  <2> QED BY <2>1, <2>2, <2>3
<1>8. Len(front \o rear) = Len(s) - 1
  BY <1>1, <1>3, <1>4, <1>5
<1> QED BY <1>5, <1>6, <1>7, <1>8

\* A settled run enters the queue, and at most one run leaves it: the one that
\* goes has been read or is remembered (prune, recordDrop).
LEMMA SettlesOnce ==
  ASSUME Types, OnlySettled, TrackerInv, NEW r \in Runs, SettleOnce(r), status[r] # "unborn",
         \A x \in Runs : status'[x] = "unborn" <=> status[x] = "unborn"
  PROVE  TrackerInv'
<1> DEFINE order == Append(settledOrder, r)
<1> USE DEF TrackerInv, Retention, SettleOnce
<1>0. settled' = settled \cup {r} /\ r \notin settled /\ collected' = collected
  OBVIOUS
<1>1. order \in Seq(settled') /\ Len(order) = Len(settledOrder) + 1 /\ DOMAIN order = 1..Len(order)
  OBVIOUS
<1>2. ToSet(order) = ToSet(settledOrder) \cup {r}
  <2>1. \A i \in DOMAIN settledOrder : i \in DOMAIN order /\ order[i] = settledOrder[i]
    BY <1>1
  <2>2. Len(order) \in DOMAIN order /\ order[Len(order)] = r
    BY <1>1
  <2>3. \A i \in DOMAIN order : i \in DOMAIN settledOrder \/ i = Len(order)
    BY <1>1
  <2> HIDE DEF order
  <2> QED BY <2>1, <2>2, <2>3 DEF ToSet
<1>3. Once(order)
  BY DEF Once
<1>4. Unsettled' = Unsettled \ {r} /\ r \in runs
  BY DEF Unsettled
<1>5. ToSet(settledOrder) \subseteq settled
  BY DEF ToSet
<1> HIDE DEF order
<1>6. CASE Fits(order)
  <2>1. settledOrder' = order /\ runs' = runs /\ dropped' = dropped /\ lost' = lost
    BY <1>6 DEF Prune, order
  <2>2. Retention'
    BY <2>1, <1>1, <1>2, <1>3, <1>4, <1>6 DEF Fits
  <2>3. LossesFit'
    <3>1. lost \in Seq(settled') /\ dropped \in Seq(settled')
      BY <1>0 DEF LossesFit
    <3> QED BY <3>1, <2>1, <1>0, <1>4 DEF LossesFit, ToSet
  <2> QED BY <2>2, <2>3
<1>7. CASE ~Fits(order)
  <2>1. PICK at \in DOMAIN order :
          /\ settledOrder' = RemoveAt(order, at)
          /\ runs' = runs \ {order[at]}
          /\ IF order[at] \in collected
             THEN UNCHANGED <<dropped, lost>>
             ELSE dropped' = RecordDrop(order[at]) /\ lost' = Append(lost, order[at])
    BY <1>7 DEF Prune, Evict, order
  <2>2. settledOrder' \in Seq(settled') /\ Len(settledOrder') = Len(order) - 1
    BY <2>1, <1>1, Removal
  <2>3. \A i \in DOMAIN settledOrder' : settledOrder'[i] = order[IF i < at THEN i ELSE i + 1]
    <3>1. DOMAIN settledOrder' = 1..(Len(order) - 1)
      BY <2>2
    <3>2. \A i \in 1..(Len(order) - 1) : settledOrder'[i] = IF i < at THEN order[i] ELSE order[i + 1]
      BY <2>1, <1>1, Removal
    <3> QED BY <3>1, <3>2
  <2>4. Once(settledOrder')
    BY <2>2, <2>3, <1>1, <1>3 DEF Once
  <2>5. ToSet(settledOrder') = ToSet(order) \ {order[at]}
    <3>1. ASSUME NEW x \in ToSet(order), x # order[at] PROVE x \in ToSet(settledOrder')
      <4>1. PICK i \in DOMAIN order : x = order[i]
        BY <3>1 DEF ToSet
      <4>2. CASE i < at
        BY <4>1, <4>2, <2>2, <2>3, <1>1 DEF ToSet
      <4>3. CASE i > at
        <5>1. i - 1 \in DOMAIN settledOrder' /\ settledOrder'[i - 1] = order[i]
          BY <4>3, <2>2, <2>3, <1>1
        <5> QED BY <5>1, <4>1 DEF ToSet
      <4> QED BY <4>1, <4>2, <4>3, <3>1, <1>1
    <3>2. ASSUME NEW x \in ToSet(settledOrder') PROVE x \in ToSet(order) /\ x # order[at]
      <4>1. PICK i \in DOMAIN settledOrder' : x = settledOrder'[i]
        BY DEF ToSet
      <4>2. (IF i < at THEN i ELSE i + 1) \in DOMAIN order
        BY <4>1, <2>2, <1>1
      <4> QED BY <4>1, <4>2, <2>2, <2>3, <1>1, <1>3 DEF ToSet, Once
    <3> QED BY <3>1, <3>2
  <2>6. order[at] \in ToSet(settledOrder) \cup {r}
    BY <1>2 DEF ToSet
  <2>7. runs' = Unsettled' \cup ToSet(settledOrder')
    BY <2>1, <2>5, <2>6, <1>2, <1>4, <1>5 DEF Unsettled
  <2>8. LossesFit'
    <3>1. order[at] \in settled' /\ settled \subseteq settled'
      BY <2>6, <1>0, <1>5
    <3>2. CASE order[at] \in collected
      <4>1. lost' = lost /\ dropped' = dropped
        BY <3>2, <2>1
      <4>2. lost \in Seq(settled') /\ dropped \in Seq(settled')
        BY <3>1 DEF LossesFit
      <4> QED BY <4>1, <4>2, <3>2, <2>1, <1>0, <1>4 DEF LossesFit, ToSet
    <3>3. CASE order[at] \notin collected
      <4>1. dropped' = RecordDrop(order[at]) /\ lost' = Append(lost, order[at])
        BY <3>3, <2>1
      <4>2. /\ lost' \in Seq(settled') /\ dropped' \in Seq(settled')
            /\ Len(dropped') <= MaxDropped /\ Len(dropped') <= Len(lost')
            /\ Len(dropped') < Len(lost') => Len(dropped') = MaxDropped
            /\ \A i \in DOMAIN dropped' : dropped'[i] = lost'[Len(lost') - Len(dropped') + i]
            /\ DOMAIN lost' = DOMAIN lost \cup {Len(lost) + 1}
            /\ lost'[Len(lost) + 1] = order[at] /\ \A i \in DOMAIN lost : lost'[i] = lost[i]
        <5>1. /\ lost \in Seq(settled) /\ dropped \in Seq(settled)
              /\ Len(dropped) <= MaxDropped /\ Len(dropped) <= Len(lost)
              /\ Len(dropped) < Len(lost) => Len(dropped) = MaxDropped
              /\ \A i \in DOMAIN dropped : dropped[i] = lost[Len(lost) - Len(dropped) + i]
          BY DEF LossesFit
        <5> HIDE DEF TrackerInv, Retention, SettleOnce
        <5> QED BY <5>1, <4>1, <3>1, LossRecorded
      <4>3. \A i \in DOMAIN lost' : lost'[i] \notin runs' \cup collected'
        BY <4>2, <3>3, <2>1, <1>0 DEF LossesFit
      <4>4. settled' \subseteq runs' \cup collected' \cup ToSet(lost')
        <5>1. order[at] \in ToSet(lost') /\ ToSet(lost) \subseteq ToSet(lost')
          <6>1. Len(lost) + 1 \in DOMAIN lost' /\ DOMAIN lost \subseteq DOMAIN lost'
            BY <4>2
          <6> QED BY <6>1, <4>2 DEF ToSet
        <5> QED BY <5>1, <2>1, <1>0, <1>4 DEF LossesFit
      <4> QED BY <4>2, <4>3, <4>4 DEF LossesFit
    <3> QED BY <3>2, <3>3
  <2> QED BY <1>1, <2>2, <2>4, <2>7, <2>8, RetentionAssumption
<1> QED BY <1>6, <1>7

LEMMA TrackerStep == DeliveryInv /\ TrackerInv /\ [Next]_vars => TrackerInv'
<1> SUFFICES ASSUME DeliveryInv, TrackerInv, [Next]_vars PROVE TrackerInv'
  OBVIOUS
<1> USE DEF DeliveryInv
<1>1. CASE UNCHANGED trackerVars
  BY <1>1 DEF trackerVars, TrackerInv, Retention, Unsettled, LossesFit, Once, ToSet
<1>2. ASSUME NEW B \in Batches, TrackLaunch(B) PROVE TrackerInv'
  <2>1. B \subseteq Runs
    BY SiblingsAgree
  <2>2. Unsettled' = Unsettled \cup B
    BY <1>2, <2>1 DEF TrackLaunch, Unsettled, OnlySettled, Ended
  <2>3. Retention'
    BY <1>2, <2>2 DEF TrackLaunch, TrackerInv, Retention, Once, ToSet
  <2>4. B \cap settled = {}
    BY <1>2 DEF TrackLaunch, OnlySettled, Ended
  <2>5. \A i \in DOMAIN lost : lost[i] \in settled
    BY DEF TrackerInv, LossesFit
  <2>6. LossesFit'
    BY <1>2, <2>4, <2>5 DEF TrackLaunch, TrackerInv, LossesFit, ToSet
  <2> QED BY <2>3, <2>6 DEF TrackerInv
<1>3. ASSUME NEW r \in Runs, NEW how \in Ended, Finish(r, how) PROVE TrackerInv'
  BY <1>3 DEF Finish, TrackerInv, Retention, Unsettled, LossesFit, Once, ToSet, Types, Ended
<1>4. ASSUME NEW r \in Runs, TrackSettle(r) PROVE TrackerInv'
  BY <1>4, SettlesOnce DEF TrackSettle, Ended
<1>5. ASSUME NEW r \in Runs, TrackForceSettle(r) PROVE TrackerInv'
  BY <1>5, SettlesOnce DEF TrackForceSettle, Types
<1>6. ASSUME NEW r \in Runs, MarkCollected(r) PROVE TrackerInv'
  <2>1. Retention'
    BY <1>6 DEF MarkCollected, TrackerInv, Retention, Unsettled, Once, ToSet
  <2>2. collected' = collected \/ (r \in runs /\ collected' = collected \cup {r})
    BY <1>6 DEF MarkCollected
  <2>3. LossesFit'
    BY <1>6, <2>2 DEF MarkCollected, TrackerInv, LossesFit, ToSet
  <2> QED BY <2>1, <2>3 DEF TrackerInv
<1>7. CASE RunSteps
  BY <1>7, <1>1, <1>3, <1>4, <1>5, <1>6 DEF RunSteps, End, Settle, Stop, StopAgain, Collect
<1>8. CASE CallSteps
  BY <1>8, <1>1, <1>2 DEF CallSteps, Launch, LaunchOwned, JoinReturn
<1>9. CASE HostSteps \/ Flushes
  BY <1>9, <1>1 DEF HostSteps, TurnStarts, BusyEnds, Arrives, IsRefused, Dispose, Flushes, TimerDelivers,
     TimerDeparts, TimerWaits, SettledDelivers, SettledDeparts, SettledWaits, OnTimer, OnSettled, Rest
<1>10. CASE UNCHANGED vars
  BY <1>10, <1>1 DEF vars
<1> QED BY <1>7, <1>8, <1>9, <1>10 DEF Next

\* The inductive invariant holds in every behaviour of the wiring.
THEOREM DeliveryInvariant == Spec => []DeliveryInv
BY StartsClean, DeliveryStep, PTL DEF Spec

\* A report is waiting or told and never both, and one message at most names
\* it: settleOnce, discard and the retry of flushIfIdle agree.
THEOREM ReportsToldExactlyOnce == Spec => []ToldExactlyOnce
<1>1. DeliveryInv => ToldExactlyOnce
  BY DEF DeliveryInv
<1> QED BY <1>1, DeliveryInvariant, PTL

\* A report that may go out always has a timer, a flight or a settling sibling
\* to move it: arm is called at every place that makes something ready.
THEOREM WakesNeverLost == Spec => []NoLostWake
<1>1. DeliveryInv => NoLostWake
  BY DEF DeliveryInv
<1> QED BY <1>1, DeliveryInvariant, PTL

\* After session_shutdown the notifier stays empty and unarmed.
THEOREM TeardownIsQuiet == Spec => []QuietAfterDispose
<1>1. DeliveryInv => QuietAfterDispose
  BY DEF DeliveryInv, Quiet, QuietAfterDispose
<1> QED BY <1>1, DeliveryInvariant, PTL

\* The idle timer is there when a report needs it, and not after the shutdown.
THEOREM TimersServe == Spec => []TimerServesReports
<1>1. NoLostWake /\ QuietAfterDispose => TimerServesReports
  BY DEF TimerServesReports
<1> QED BY <1>1, WakesNeverLost, TeardownIsQuiet, PTL

\* The payload of a settled run can be fetched, was read, or is remembered as
\* dropped, unless as many younger losses as are remembered came after it; and
\* what is called dropped is.  For any bound on what is retained and on what is
\* remembered (prune, recordDrop, wasDropped).
THEOREM LossesAreExplained == Spec => []NoSilentLoss
<1>1. Init => TrackerInv
  BY RetentionAssumption DEF Init, TrackerInit, TrackerInv, Retention, Unsettled, LossesFit, Once, ToSet
<1>2. TrackerInv => NoSilentLoss
  BY LossesTold DEF TrackerInv
<1> QED BY <1>1, <1>2, TrackerStep, DeliveryInvariant, PTL DEF Spec

\* A message takes a batch whole: no leg running, none that settled left over.
THEOREM BatchesTravelTogether == Spec => BatchTravelsTogether
<1>1. ASSUME Flushes, NEW r \in Leaving, NEW s \in Siblings(r)
      PROVE  status[s] # "running" /\ s \notin pending'
  <2> DEFINE ready == Ready(status)
  <2>1. pending' = pending \/ pending' = pending \ BatchOf(ready)
    BY <1>1 DEF Flushes, TimerDelivers, TimerDeparts, TimerWaits, SettledDelivers, SettledDeparts,
       SettledWaits, Delivers, Departs, Waits, FlushDelivers, FlushTakesOff, FlushJoinsFlight,
       FlushHolds, FlushThrows, Requeued, BatchOf
  <2>2. r \in ready /\ r \in Runs /\ pending' = pending \ BatchOf(ready)
    BY <2>1, <1>1 DEF Leaving, BatchOf, Ready
  <2>3. Siblings(s) = Siblings(r) /\ s \in Runs
    BY <2>2, SiblingsAgree
  <2>4. status[s] # "running" /\ s \in ready
    BY <2>2, <2>3 DEF Ready
  <2> QED BY <2>2, <2>4 DEF BatchOf
<1>2. [Next]_vars => [Flushes => TravelsTogether]_vars
  BY <1>1 DEF TravelsTogether
<1> QED BY <1>2, PTL DEF Spec, BatchTravelsTogether
====
