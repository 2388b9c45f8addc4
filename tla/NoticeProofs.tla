---- MODULE NoticeProofs ----
(***************************************************************************)
(* Proofs about what an agent of a session can be sent: messages on the    *)
(* in-process bus, for any participants, any bounds and any number of      *)
(* messages; and the events of alarms and of watches on commands, for any  *)
(* of them and any limits.                                                 *)
(***************************************************************************)
EXTENDS InProcBus, Wakes, FiniteSetTheorems, SequenceTheorems, TLAPS

---------------------------------------------------------------------------
(* The bus.  BusInv is the inductive invariant: the types, the flag that   *)
(* ties an envelope to its waiting sender, the timers, and where a live    *)
(* ask can be.                                                             *)

BusInv ==
  /\ TypeOK
  /\ FlagTellsTheTruth
  /\ NothingArmedForSettled
  /\ LiveAskReachable

\* Making room in a mailbox removes only one-way notes (deliver, 92-103).
LEMMA RoomCostsOnlyNotes ==
  ASSUME NEW box
  PROVE  /\ MakeRoom(box) \subseteq box
         /\ \A m \in box \ MakeRoom(box) : ~msgs[m].expectsReply
BY DEF MakeRoom, Oldest, OneWay

\* A drain stamps exactly the batch it takes and keeps no unknown message.
LEMMA RetainTypes ==
  ASSUME TypeOK, NEW B, B \subseteq Ids, Retain(B)
  PROVE  /\ drains' \in Nat
         /\ drainedAt' \in Seq(Nat) /\ Len(drainedAt') = Len(msgs)
         /\ retained' \subseteq Ids
         /\ \A i \in Ids : i \in B => drainedAt'[i] > 0
         /\ \A i \in Ids : drainedAt[i] > 0 => drainedAt'[i] > 0
<1>1. drains' \in Nat
  BY DEF Retain, TypeOK
<1>2. drainedAt' = [i \in 1..Len(msgs) |-> IF i \in B THEN drains + 1 ELSE drainedAt[i]]
  BY DEF Retain, Stamped, Ids
<1>3. \A i \in 1..Len(msgs) : drainedAt[i] \in Nat
  BY DEF TypeOK
<1>4. drainedAt' \in Seq(Nat) /\ Len(drainedAt') = Len(msgs)
  BY <1>2, <1>3 DEF TypeOK
<1>5. retained' \subseteq Ids
  BY DEF Retain, Newest, Window, Fresh, TypeOK
<1>6. \A i \in Ids : i \in B => drainedAt'[i] > 0
  BY <1>2 DEF Ids, TypeOK
<1>7. \A i \in Ids : drainedAt[i] > 0 => drainedAt'[i] > 0
  BY <1>2, <1>3 DEF Ids, TypeOK
<1> QED BY <1>1, <1>4, <1>5, <1>6, <1>7

\* Retiring asks keeps every envelope and only lowers flags.
LEMMA RetireTypes ==
  ASSUME NEW m \in Seq(Envelopes), NEW S
  PROVE  /\ Retire(m, S) \in Seq(Envelopes)
         /\ Len(Retire(m, S)) = Len(m)
         /\ \A i \in 1..Len(m) :
              /\ Retire(m, S)[i].to = m[i].to
              /\ Retire(m, S)[i].from = m[i].from
              /\ Retire(m, S)[i].expectsReply <=> m[i].expectsReply /\ i \notin S
<1> DEFINE r == Retire(m, S)
<1>1. r = [i \in 1..Len(m) |-> IF i \in S THEN [m[i] EXCEPT !.expectsReply = FALSE] ELSE m[i]]
  BY DEF Retire
<1>2. \A i \in 1..Len(m) : m[i] \in Envelopes
  OBVIOUS
<1>3. \A i \in 1..Len(m) : r[i] \in Envelopes
  BY <1>1, <1>2 DEF Envelopes
<1>4. r \in Seq(Envelopes) /\ Len(r) = Len(m)
  BY <1>1, <1>3
<1>5. \A i \in 1..Len(m) :
        /\ r[i].to = m[i].to
        /\ r[i].from = m[i].from
        /\ r[i].expectsReply <=> m[i].expectsReply /\ i \notin S
  BY <1>1, <1>2 DEF Envelopes
<1> QED BY <1>4, <1>5

\* A bus just made has no handle, no message and no ask (inproc.ts 63-76).
LEMMA InitInv == ASSUME BusInit PROVE BusInv
<1>1. TypeOK
  BY DEF BusInit, TypeOK, Ids
<1> QED
  BY <1>1 DEF BusInit, BusInv, FlagTellsTheTruth, NothingArmedForSettled, LiveAskReachable, Ids

\* Settling the asks in S by any path preserves the invariant, as long as
\* the mailboxes lose them and nothing but them.
LEMMA SettleInv ==
  ASSUME BusInv, NEW S, NEW reason \in Reasons,
         S \subseteq pendingAsks,
         Settle(S, reason), msgs' = Retire(msgs, S)
  PROVE  /\ msgs' \in Seq(Envelopes) /\ Len(msgs') = Len(msgs)
         /\ outcome' \in Seq(Reasons \cup {"open"}) /\ Len(outcome') = Len(msgs)
         /\ pendingAsks' \subseteq Ids /\ timers' \subseteq Ids /\ listeners' \subseteq Ids
         /\ \A id \in Ids : msgs'[id].expectsReply <=> id \in pendingAsks'
         /\ \A id \in Ids : id \notin S => outcome'[id] = outcome[id]
         /\ \A id \in Ids : msgs'[id].to = msgs[id].to
         /\ NothingArmedForSettled'
<1>1. msgs \in Seq(Envelopes) /\ pendingAsks \subseteq Ids
  BY DEF BusInv, TypeOK
<1>2. msgs' \in Seq(Envelopes) /\ Len(msgs') = Len(msgs)
  BY <1>1, RetireTypes
<1>3. \A id \in Ids : msgs'[id].to = msgs[id].to
  BY <1>1, RetireTypes DEF Ids
<1>4. \A id \in Ids : msgs'[id].expectsReply <=> msgs[id].expectsReply /\ id \notin S
  BY <1>1, RetireTypes DEF Ids
<1>5. \A id \in Ids : msgs'[id].expectsReply <=> id \in pendingAsks'
  BY <1>4 DEF BusInv, FlagTellsTheTruth, Settle
<1>6. outcome \in Seq(Reasons \cup {"open"}) /\ Len(outcome) = Len(msgs)
  BY DEF BusInv, TypeOK
<1>7. outcome' = [i \in 1..Len(outcome) |-> IF i \in S THEN reason ELSE outcome[i]]
  BY <1>6 DEF Settle
<1>8. outcome' \in Seq(Reasons \cup {"open"}) /\ Len(outcome') = Len(msgs)
  <2>1. \A i \in 1..Len(outcome) : outcome[i] \in Reasons \cup {"open"}
    BY <1>6
  <2> QED BY <1>6, <1>7, <2>1
<1>9. \A id \in Ids : id \notin S => outcome'[id] = outcome[id]
  BY <1>6, <1>7 DEF Ids
<1>10. pendingAsks' \subseteq Ids /\ timers' \subseteq Ids /\ listeners' \subseteq Ids
  BY DEF BusInv, TypeOK, Settle
<1>11. NothingArmedForSettled'
  BY DEF BusInv, NothingArmedForSettled, Settle
<1> QED BY <1>2, <1>3, <1>5, <1>8, <1>9, <1>10, <1>11

\* One ask settled by a reply, its timer or its signal (229-231, 211-215).
LEMMA SettleOneInv ==
  ASSUME BusInv, NEW id, NEW reason \in Reasons, SettleOne(id, reason)
  PROVE  BusInv'
<1> DEFINE S == {id}
<1>1. /\ S \subseteq pendingAsks /\ Settle(S, reason) /\ msgs' = Retire(msgs, S)
      /\ inbox' = Unread(S)
      /\ UNCHANGED <<registered, drains, drainedAt, retained, retainedChars>>
  BY DEF SettleOne, retention
<1> HIDE DEF S
<1>2. /\ msgs' \in Seq(Envelopes) /\ Len(msgs') = Len(msgs)
      /\ outcome' \in Seq(Reasons \cup {"open"}) /\ Len(outcome') = Len(msgs)
      /\ pendingAsks' \subseteq Ids /\ timers' \subseteq Ids /\ listeners' \subseteq Ids
      /\ \A i \in Ids : msgs'[i].expectsReply <=> i \in pendingAsks'
      /\ \A i \in Ids : i \notin S => outcome'[i] = outcome[i]
      /\ \A i \in Ids : msgs'[i].to = msgs[i].to
      /\ NothingArmedForSettled'
  BY <1>1, SettleInv
<1>3. Ids' = Ids
  BY <1>2 DEF Ids
<1>4. inbox' \in [Names -> SUBSET Ids]
  BY <1>1 DEF Unread, BusInv, TypeOK
<1>5. TypeOK'
  BY <1>1, <1>2, <1>3, <1>4 DEF TypeOK, BusInv
<1>6. \A n \in Names : \A i \in inbox'[n] : outcome'[i] = "open"
  BY <1>1, <1>2 DEF Unread, BusInv, TypeOK, FlagTellsTheTruth
<1>7. FlagTellsTheTruth'
  BY <1>2, <1>3, <1>6 DEF FlagTellsTheTruth
<1>8. LiveAskReachable'
  <2> SUFFICES ASSUME NEW i \in pendingAsks'
               PROVE  /\ msgs'[i].to \in registered'
                      /\ i \in inbox'[msgs'[i].to] \/ drainedAt'[i] > 0
    BY DEF LiveAskReachable
  <2>1. i \in pendingAsks /\ i \notin S /\ i \in Ids
    BY <1>1 DEF Settle, BusInv, TypeOK
  <2>2. /\ msgs[i].to \in registered
        /\ i \in inbox[msgs[i].to] \/ drainedAt[i] > 0
    BY <2>1 DEF BusInv, LiveAskReachable
  <2>3. msgs[i].to \in Names
    BY <2>2 DEF BusInv, TypeOK
  <2> QED BY <1>1, <1>2, <2>1, <2>2, <2>3 DEF Unread
<1> QED BY <1>2, <1>5, <1>7, <1>8 DEF BusInv

\* A departing handle takes its asks, both ways, and its mail with it (158-168).
LEMMA UnregisterInv ==
  ASSUME BusInv, NEW n \in Names, Unregister(n)
  PROVE  BusInv'
<1> DEFINE S == OpenAsksWith(n)
<1>1. /\ S \subseteq pendingAsks /\ Settle(S, "unregistered") /\ msgs' = Retire(msgs, S)
      /\ inbox' = [Unread(S) EXCEPT ![n] = {}]
      /\ registered' = registered \ {n}
      /\ Forget({i \in retained : msgs[i].to = n})
  BY DEF Unregister, OpenAsksWith
<1>2. /\ msgs' \in Seq(Envelopes) /\ Len(msgs') = Len(msgs)
      /\ outcome' \in Seq(Reasons \cup {"open"}) /\ Len(outcome') = Len(msgs)
      /\ pendingAsks' \subseteq Ids /\ timers' \subseteq Ids /\ listeners' \subseteq Ids
      /\ \A i \in Ids : msgs'[i].expectsReply <=> i \in pendingAsks'
      /\ \A i \in Ids : i \notin S => outcome'[i] = outcome[i]
      /\ \A i \in Ids : msgs'[i].to = msgs[i].to
      /\ NothingArmedForSettled'
  <2>1. "unregistered" \in Reasons
    BY DEF Reasons
  <2> HIDE DEF S
  <2> QED BY <1>1, <2>1, SettleInv
<1>3. Ids' = Ids
  BY <1>2 DEF Ids
<1>4. inbox' \in [Names -> SUBSET Ids]
  BY <1>1 DEF Unread, BusInv, TypeOK
<1>5. TypeOK'
  BY <1>1, <1>2, <1>3, <1>4 DEF TypeOK, BusInv, Forget
<1>6. \A k \in Names : \A i \in inbox'[k] : outcome'[i] = "open"
  BY <1>1, <1>2 DEF Unread, BusInv, TypeOK, FlagTellsTheTruth
<1>7. FlagTellsTheTruth'
  BY <1>2, <1>3, <1>6 DEF FlagTellsTheTruth
<1>8. LiveAskReachable'
  <2> SUFFICES ASSUME NEW i \in pendingAsks'
               PROVE  /\ msgs'[i].to \in registered'
                      /\ i \in inbox'[msgs'[i].to] \/ drainedAt'[i] > 0
    BY DEF LiveAskReachable
  <2>1. i \in pendingAsks /\ i \notin S /\ i \in Ids
    BY <1>1 DEF Settle, BusInv, TypeOK
  <2>2. /\ msgs[i].to \in registered
        /\ i \in inbox[msgs[i].to] \/ drainedAt[i] > 0
    BY <2>1 DEF BusInv, LiveAskReachable
  <2>3. msgs[i].to \in Names /\ msgs[i].to # n
    BY <2>1, <2>2 DEF BusInv, TypeOK, OpenAsksWith
  <2> QED BY <1>1, <1>2, <2>1, <2>2, <2>3 DEF Unread, Forget
<1> QED BY <1>2, <1>5, <1>7, <1>8 DEF BusInv

\* A drain moves unread messages into history and touches no ask.
LEMMA DrainInv ==
  ASSUME BusInv, NEW n \in Names, NEW B, B \subseteq inbox[n], Retain(B),
         inbox' = [inbox EXCEPT ![n] = @ \ B],
         registered \subseteq registered', registered' \subseteq Names,
         UNCHANGED <<msgs, pendingAsks, timers, listeners, outcome>>
  PROVE  BusInv'
<1>1. B \subseteq Ids /\ Ids' = Ids
  BY DEF BusInv, TypeOK, Ids
<1>2. /\ drains' \in Nat
      /\ drainedAt' \in Seq(Nat) /\ Len(drainedAt') = Len(msgs)
      /\ retained' \subseteq Ids
      /\ \A i \in Ids : i \in B => drainedAt'[i] > 0
      /\ \A i \in Ids : drainedAt[i] > 0 => drainedAt'[i] > 0
  BY <1>1, RetainTypes DEF BusInv
<1>3. inbox' \in [Names -> SUBSET Ids]
  BY DEF BusInv, TypeOK
<1>4. TypeOK'
  BY <1>1, <1>2, <1>3 DEF BusInv, TypeOK
<1>5. FlagTellsTheTruth' /\ NothingArmedForSettled'
  BY <1>1 DEF BusInv, TypeOK, FlagTellsTheTruth, NothingArmedForSettled
<1>6. LiveAskReachable'
  <2> SUFFICES ASSUME NEW i \in pendingAsks
               PROVE  /\ msgs[i].to \in registered'
                      /\ i \in inbox'[msgs[i].to] \/ drainedAt'[i] > 0
    BY DEF LiveAskReachable
  <2>1. /\ i \in Ids /\ msgs[i].to \in registered
        /\ i \in inbox[msgs[i].to] \/ drainedAt[i] > 0
    BY DEF BusInv, LiveAskReachable, TypeOK
  <2> QED BY <1>2, <2>1 DEF BusInv, TypeOK
<1> QED BY <1>4, <1>5, <1>6 DEF BusInv

\* Each drain of a mailbox, whole or filtered, preserves the invariant (234-251).
LEMMA DrainingInv == ASSUME BusInv, NEW n \in Names, Draining(n) PROVE BusInv'
<1>1. CASE Take(n)
  <2>1. inbox' = [inbox EXCEPT ![n] = @ \ inbox[n]]
    BY <1>1 DEF Take, BusInv, TypeOK
  <2>2. registered' \subseteq Names
    BY <1>1 DEF Take, BusInv, TypeOK
  <2> QED BY <1>1, <2>1, <2>2, DrainInv DEF Take, asking
<1>2. CASE TakeNotes(n)
  <2>1. OneWay(inbox[n]) \subseteq inbox[n]
    BY DEF OneWay
  <2>2. inbox' = [inbox EXCEPT ![n] = @ \ OneWay(inbox[n])]
    BY <1>2 DEF TakeNotes, BusInv, TypeOK
  <2>3. registered' \subseteq Names
    BY <1>2 DEF TakeNotes, BusInv, TypeOK
  <2> QED BY <1>2, <2>1, <2>2, <2>3, DrainInv DEF TakeNotes, asking
<1>3. CASE \E id \in inbox[n] : TakeOne(n, id)
  <2>1. PICK id \in inbox[n] : TakeOne(n, id)
    BY <1>3
  <2>2. registered' \subseteq Names
    BY <2>1 DEF TakeOne, BusInv, TypeOK
  <2> QED BY <2>1, <2>2, DrainInv DEF TakeOne, asking
<1> QED BY <1>1, <1>2, <1>3 DEF Draining

\* One message more: what every send and ask share.  The mailbox may gain the
\* message and may lose notes; the message asks only if it can be read.
LEMMA NewMessageInv ==
  ASSUME BusInv, NEW e \in Envelopes, NEW o \in Reasons \cup {"open"}, NEW box,
         e.to \in registered,
         msgs' = Append(msgs, e), outcome' = Append(outcome, o),
         Unretained, UNCHANGED registered,
         inbox' = [inbox EXCEPT ![e.to] = box],
         box \subseteq inbox[e.to] \cup {NewId},
         \A i \in inbox[e.to] \ box : ~msgs[i].expectsReply,
         NewId \in box => o = "open",
         e.expectsReply => NewId \in box,
         pendingAsks' = IF e.expectsReply THEN pendingAsks \cup {NewId} ELSE pendingAsks,
         timers' \cup listeners' \subseteq timers \cup listeners \cup pendingAsks'
  PROVE  BusInv'
<1>1. /\ msgs \in Seq(Envelopes) /\ e.to \in Names
      /\ outcome \in Seq(Reasons \cup {"open"}) /\ Len(outcome) = Len(msgs)
      /\ drainedAt \in Seq(Nat) /\ Len(drainedAt) = Len(msgs)
  BY DEF BusInv, TypeOK
<1>2. /\ msgs' \in Seq(Envelopes) /\ Len(msgs') = Len(msgs) + 1
      /\ \A i \in Ids : msgs'[i] = msgs[i]
      /\ msgs'[NewId] = e
  BY <1>1 DEF Ids, NewId
<1>3. /\ outcome' \in Seq(Reasons \cup {"open"}) /\ Len(outcome') = Len(msgs) + 1
      /\ \A i \in Ids : outcome'[i] = outcome[i]
      /\ outcome'[NewId] = o
  BY <1>1 DEF Ids, NewId
<1>4. /\ drainedAt' \in Seq(Nat) /\ Len(drainedAt') = Len(msgs) + 1
      /\ \A i \in Ids : drainedAt'[i] = drainedAt[i]
      /\ UNCHANGED <<drains, retained>>
  BY <1>1 DEF Ids, Unretained
<1>5. Ids' = Ids \cup {NewId} /\ NewId \notin Ids
  BY <1>1, <1>2 DEF Ids, NewId
<1>6. pendingAsks' \subseteq Ids' /\ pendingAsks \subseteq pendingAsks' /\ pendingAsks \subseteq Ids
  BY <1>5 DEF BusInv, TypeOK
<1>7. NothingArmedForSettled'
  BY <1>6 DEF BusInv, NothingArmedForSettled
<1>8. timers' \subseteq Ids' /\ listeners' \subseteq Ids'
  BY <1>6, <1>7 DEF NothingArmedForSettled
<1>9. inbox' \in [Names -> SUBSET Ids']
  BY <1>1, <1>5 DEF BusInv, TypeOK
<1>10. TypeOK'
  BY <1>2, <1>3, <1>4, <1>5, <1>6, <1>8, <1>9 DEF BusInv, TypeOK
<1>11. FlagTellsTheTruth'
  <2>1. \A i \in Ids : msgs'[i].expectsReply <=> i \in pendingAsks'
    BY <1>2, <1>5 DEF BusInv, FlagTellsTheTruth
  <2>2. msgs'[NewId].expectsReply <=> NewId \in pendingAsks'
    BY <1>2, <1>5, <1>6
  <2>3. \A n \in Names : \A i \in inbox'[n] : outcome'[i] = "open"
    <3> SUFFICES ASSUME NEW n \in Names, NEW i \in inbox'[n] PROVE outcome'[i] = "open"
      OBVIOUS
    <3>1. CASE i \in inbox[n]
      BY <1>3, <3>1 DEF BusInv, TypeOK, FlagTellsTheTruth
    <3>2. CASE i \notin inbox[n]
      BY <1>1, <1>3, <3>2 DEF BusInv, TypeOK
    <3> QED BY <3>1, <3>2
  <2> QED BY <1>5, <2>1, <2>2, <2>3 DEF FlagTellsTheTruth
<1>12. LiveAskReachable'
  <2> SUFFICES ASSUME NEW i \in pendingAsks'
               PROVE  /\ msgs'[i].to \in registered'
                      /\ i \in inbox'[msgs'[i].to] \/ drainedAt'[i] > 0
    BY DEF LiveAskReachable
  <2>1. CASE i \in pendingAsks
    <3>1. /\ i \in Ids /\ msgs'[i] = msgs[i] /\ drainedAt'[i] = drainedAt[i]
      BY <1>2, <1>4, <1>6, <2>1
    <3>2. /\ msgs[i].to \in registered
          /\ i \in inbox[msgs[i].to] \/ drainedAt[i] > 0
      BY <2>1 DEF BusInv, LiveAskReachable
    <3>3. msgs[i].expectsReply
      BY <2>1, <3>1 DEF BusInv, FlagTellsTheTruth
    <3> QED BY <1>1, <3>1, <3>2, <3>3 DEF BusInv, TypeOK
  <2>2. CASE i \notin pendingAsks
    <3>1. i = NewId /\ e.expectsReply
      BY <2>2
    <3> QED BY <1>1, <1>2, <3>1 DEF BusInv, TypeOK
  <2> QED BY <2>1, <2>2
<1> QED BY <1>7, <1>10, <1>11, <1>12 DEF BusInv

\* Every outcome of send and of ask preserves the invariant (176-225).
LEMMA MessagingInv ==
  ASSUME BusInv, NEW f \in Names, NEW t \in Names, NEW s \in Sizes, Messaging(f, t, s)
  PROVE  BusInv'
<1> DEFINE note == Note(f, t, s)
           ask == Ask(f, t, s)
           room == MakeRoom(inbox[t])
<1>1. note \in Envelopes /\ note.to = t /\ ~note.expectsReply
  BY DEF Note, Envelopes
<1>2. ask \in Envelopes /\ ask.to = t /\ ask.expectsReply
  BY DEF Ask, Envelopes
<1>3. room \subseteq inbox[t] /\ \A i \in inbox[t] \ room : ~msgs[i].expectsReply
  BY RoomCostsOnlyNotes
<1>4. NewId \notin inbox[t]
  BY DEF BusInv, TypeOK, Ids, NewId
<1>5. inbox = [inbox EXCEPT ![t] = inbox[t]]
  BY DEF BusInv, TypeOK
<1> HIDE DEF note, ask, room
<1>6. CASE SendRefused(f, t, s)
  <2>1. /\ t \in registered /\ msgs' = Append(msgs, note) /\ outcome' = Append(outcome, "open")
        /\ Unretained /\ UNCHANGED <<registered, inbox, pendingAsks, timers, listeners>>
    BY <1>6 DEF SendRefused, note, mail, asking
  <2> QED BY <1>1, <1>4, <1>5, <2>1, NewMessageInv
<1>7. CASE Send(f, t, s)
  <2>1. /\ t \in registered /\ msgs' = Append(msgs, note) /\ outcome' = Append(outcome, "open")
        /\ inbox' = [inbox EXCEPT ![t] = room \cup {NewId}]
        /\ Unretained /\ UNCHANGED <<registered, pendingAsks, timers, listeners>>
    BY <1>7 DEF Send, note, room, asking
  <2> QED BY <1>1, <1>3, <2>1, NewMessageInv
<1>8. CASE AskWaiting(f, t, s)
  <2>1. /\ t \in registered /\ msgs' = Append(msgs, ask) /\ outcome' = Append(outcome, "open")
        /\ inbox' = [inbox EXCEPT ![t] = room \cup {NewId}]
        /\ pendingAsks' = pendingAsks \cup {NewId}
        /\ timers' = timers \cup {NewId} /\ listeners' = listeners \cup {NewId}
        /\ Unretained /\ UNCHANGED registered
    BY <1>8 DEF AskWaiting, ask, room, TimerArmed
  <2> QED BY <1>2, <1>3, <2>1, NewMessageInv
<1>9. ASSUME NEW reason \in Reasons, NEW box, t \in registered,
             AskClosedAtOnce(f, t, s, reason, box), box \in {inbox[t], room}
      PROVE  BusInv'
  <2>1. /\ msgs' = Append(msgs, note) /\ outcome' = Append(outcome, reason)
        /\ inbox' = [inbox EXCEPT ![t] = box]
        /\ Unretained /\ UNCHANGED <<registered, pendingAsks, timers, listeners>>
    BY <1>9 DEF AskClosedAtOnce, note, asking
  <2>2. box \subseteq inbox[t] /\ \A i \in inbox[t] \ box : ~msgs[i].expectsReply
    BY <1>3, <1>9
  <2> QED BY <1>1, <1>4, <1>9, <2>1, <2>2, NewMessageInv
<1>10. CASE \E signal \in Signals : AskRefused(f, t, s, signal)
  <2>1. /\ t \in registered
        /\ \/ AskClosedAtOnce(f, t, s, "aborted", inbox[t])
           \/ AskClosedAtOnce(f, t, s, "inbox-full", inbox[t])
    BY <1>10 DEF AskRefused
  <2> QED BY <1>9, <2>1 DEF Reasons
<1>11. CASE \E reason \in Reasons : AskClosedInDelivery(f, t, s, reason)
  <2>1. PICK reason \in Reasons : t \in registered /\ AskClosedAtOnce(f, t, s, reason, room)
    BY <1>11 DEF AskClosedInDelivery, room
  <2> QED BY <1>9, <2>1
<1> QED BY <1>6, <1>7, <1>8, <1>10, <1>11 DEF Messaging

\* The invariant is inductive: one step per operation of the bus.
LEMMA NextInv == ASSUME BusInv, [BusNext]_busVars PROVE BusInv'
<1>1. ASSUME NEW n \in Names, Register(n) PROVE BusInv'
  <2>1. /\ registered' = registered \cup {n}
        /\ UNCHANGED <<msgs, inbox, pendingAsks, timers, listeners, outcome, drains, drainedAt,
                       retained, retainedChars>>
    BY <1>1 DEF Register, asking, retention
  <2> QED BY <2>1 DEF BusInv, TypeOK, FlagTellsTheTruth, NothingArmedForSettled,
                      LiveAskReachable, Ids
<1>2. ASSUME NEW from \in Writers, NEW to \in Readers, NEW s \in Sizes, Messaging(from, to, s) PROVE BusInv'
  <2>1. from \in Names /\ to \in Names
    BY BusAssumption
  <2> QED BY <1>2, <2>1, MessagingInv
<1>3. ASSUME NEW id \in Ids, Settling(id) PROVE BusInv'
  <2>1. PICK reason \in Reasons : SettleOne(id, reason)
    BY <1>3 DEF Settling, Reply, TimesOut, Abort, Reasons
  <2> QED BY <2>1, SettleOneInv
<1>4. CASE UNCHANGED busVars
  BY <1>4 DEF busVars, mail, asking, retention, BusInv, TypeOK, FlagTellsTheTruth,
              NothingArmedForSettled, LiveAskReachable, Ids
<1> QED BY <1>1, <1>2, <1>3, <1>4, UnregisterInv, DrainingInv DEF BusNext

\* The inductive invariant holds in every reachable state.
THEOREM BusInvariant == BusSpec => []BusInv
BY InitInv, NextInv, PTL DEF BusSpec

\* In every state of every run of the bus, whatever its bounds, the variables
\* have their types.
THEOREM TypeCorrect == BusSpec => []TypeOK
<1>1. BusInv => TypeOK BY DEF BusInv
<1> QED BY <1>1, BusInvariant, PTL

\* No ask is ever stranded: while its sender waits, the question is unread in
\* a registered mailbox or was read from it (deliver's eviction, unregister).
THEOREM LiveAsksReachable == BusSpec => []LiveAskReachable
<1>1. BusInv => LiveAskReachable BY DEF BusInv
<1> QED BY <1>1, BusInvariant, PTL

\* An envelope asks for a reply exactly while its sender waits for one, and
\* no mailbox lists a settled ask (settleAsk, retireAskEnvelope).
THEOREM FlagsTrue == BusSpec => []FlagTellsTheTruth
<1>1. BusInv => FlagTellsTheTruth BY DEF BusInv
<1> QED BY <1>1, BusInvariant, PTL

\* No timer and no abort listener outlives its ask (settleAsk).
THEOREM NothingLeftArmed == BusSpec => []NothingArmedForSettled
<1>1. BusInv => NothingArmedForSettled BY DEF BusInv
<1> QED BY <1>1, BusInvariant, PTL
----
(* The window of drained messages: its counter is a true count, and both   *)
(* bounds hold.                                                            *)
Sized(S, m) == IsFiniteSet(S) /\ \A i \in S : m[i].size \in Nat

\* Texts are finite, and those of different messages share no character.
LEMMA TextsAreFinite ==
  ASSUME NEW S, IsFiniteSet(S), NEW m, \A i \in S : m[i].size \in Nat
  PROVE  IsFiniteSet(UNION {Text(i, m) : i \in S})
<1> DEFINE T == {Text(i, m) : i \in S}
           f == [i \in S |-> Text(i, m)]
<1>1. f \in Surjection(S, T) BY DEF Surjection
<1>2. IsFiniteSet(T) BY <1>1, FS_Surjection
<1>3. ASSUME NEW i \in S PROVE IsFiniteSet(Text(i, m))
  <2>1. IsFiniteSet({i}) BY FS_Singleton
  <2>2. IsFiniteSet(1..m[i].size) BY <1>3, FS_Interval
  <2> QED BY <2>1, <2>2, FS_Product DEF Text
<1> HIDE DEF f
<1> QED BY <1>2, <1>3, FS_UNION

\* The characters of a set of messages are those of a part and of the rest.
LEMMA CharsAdd ==
  ASSUME NEW S, NEW A, A \subseteq S, NEW m, Sized(S, m)
  PROVE  /\ Chars(S, m) = Chars(A, m) + Chars(S \ A, m)
         /\ Chars(S, m) \in Nat /\ Chars(A, m) \in Nat /\ Chars(S \ A, m) \in Nat
<1> DEFINE All(B) == UNION {Text(i, m) : i \in B}
<1>1. IsFiniteSet(A) /\ IsFiniteSet(S \ A) BY FS_Subset DEF Sized
<1>2. IsFiniteSet(All(A)) /\ IsFiniteSet(All(S \ A)) BY <1>1, TextsAreFinite DEF Sized
<1>3. All(S) = All(A) \cup All(S \ A) OBVIOUS
<1>4. All(A) \cap All(S \ A) = {} BY DEF Text
<1>5. \A B : Chars(B, m) = Cardinality(All(B)) BY DEF Chars
<1> HIDE DEF All
<1>6. Cardinality({}) = 0 BY FS_EmptySet
<1>7. Cardinality(All(S)) = Cardinality(All(A)) + Cardinality(All(S \ A)) - Cardinality({})
  BY <1>2, <1>3, <1>4, FS_Union
<1>8. Cardinality(All(A)) \in Nat /\ Cardinality(All(S \ A)) \in Nat BY <1>2, FS_CardinalityType
<1> QED BY <1>5, <1>6, <1>7, <1>8

\* Only the lengths of the texts count.
LEMMA CharsOfSizes ==
  ASSUME NEW S, NEW m, NEW k, \A i \in S : k[i].size = m[i].size
  PROVE  Chars(S, k) = Chars(S, m)
<1>1. {Text(i, k) : i \in S} = {Text(i, m) : i \in S} BY DEF Text
<1> QED BY <1>1 DEF Chars

\* The window has an oldest member.
LEMMA OldestIn ==
  ASSUME NEW K, IsFiniteSet(K), K # {}, NEW at, \A i \in K : at[i] \in Nat /\ i \in Nat
  PROVE  \E i \in K : \A j \in K : ~DrainedBefore(j, i, at)
<1> DEFINE Below(i) == {j \in K : DrainedBefore(j, i, at)}
           T == {Below(i) : i \in K}
<1>1. T \subseteq FiniteSubsetsOf(K) /\ T # {}
  <2>1. \A i \in K : IsFiniteSet(Below(i)) BY FS_Subset
  <2> QED BY <2>1 DEF FiniteSubsetsOf
<1>2. PICK x \in T : \A y \in T : <<y, x>> \notin StrictSubsetOrdering(K)
  <2>1. IsWellFoundedOn(StrictSubsetOrdering(K), FiniteSubsetsOf(K)) BY FS_StrictSubsetOrderingWellFounded
  <2> HIDE DEF T
  <2> QED BY <1>1, <2>1, WFMin
<1>3. PICK i \in K : x = Below(i) BY <1>2
<1>4. ASSUME NEW j \in K, DrainedBefore(j, i, at) PROVE FALSE
  <2>1. \A h \in K : DrainedBefore(h, j, at) => DrainedBefore(h, i, at) BY <1>4 DEF DrainedBefore
  <2>2. ~DrainedBefore(j, j, at) BY DEF DrainedBefore
  <2>3. Below(j) \subseteq x /\ j \in x /\ j \notin Below(j) BY <1>3, <1>4, <2>1, <2>2
  <2>4. <<Below(j), x>> \in StrictSubsetOrdering(K) BY <1>3, <2>3 DEF StrictSubsetOrdering
  <2> QED BY <1>2, <2>4
<1> QED BY <1>4

\* What the window keeps is within both bounds (the loop of retain, 141-147).
LEMMA NewestFits ==
  ASSUME NEW C, NEW m, Sized(C, m), NEW at, \A i \in C : at[i] \in Nat /\ i \in Nat,
         NEW kept, kept = Newest(C, at, Chars(C, m), m)
  PROVE  /\ kept \subseteq C
         /\ Chars(C, m) - Chars(C \ kept, m) = Chars(kept, m)
         /\ Chars(kept, m) <= MaxRetainedChars
         /\ Cardinality(kept) <= MaxRetained
<1>1. kept \subseteq C BY DEF Newest
<1>2. IsFiniteSet(C) /\ IsFiniteSet(kept) BY <1>1, FS_Subset DEF Sized
<1>3. Chars(C, m) - Chars(C \ kept, m) = Chars(kept, m)
  <2>1. ASSUME NEW A, A \subseteq C PROVE Chars(C, m) - Chars(C \ A, m) = Chars(A, m)
    <3>1. Chars(C, m) = Chars(A, m) + Chars(C \ A, m) BY <2>1, CharsAdd
    <3>2. Chars(A, m) \in Nat /\ Chars(C \ A, m) \in Nat BY <2>1, CharsAdd
    <3> QED BY <3>1, <3>2
  <2> QED BY <1>1, <2>1
<1>4. CASE kept = {}
  <2>1. Cardinality(kept) = 0 BY <1>4, FS_EmptySet
  <2>2. Chars(kept, m) = 0
    <3>1. UNION {Text(i, m) : i \in kept} = {} BY <1>4
    <3> QED BY <3>1, FS_EmptySet DEF Chars
  <2> QED BY <1>1, <1>3, <2>1, <2>2, BusAssumption
<1>5. CASE kept # {}
  <2>1. PICK i \in kept : \A j \in kept : ~DrainedBefore(j, i, at) BY <1>1, <1>2, <1>5, OldestIn
  <2> DEFINE older == {j \in C : DrainedBefore(j, i, at)}
  <2>2. /\ Cardinality(C \ older) <= MaxRetained
        /\ Chars(C, m) - Chars(older, m) <= MaxRetainedChars
    BY <2>1, Zenon DEF Newest
  <2>3. kept \subseteq C \ older /\ older \subseteq C BY <1>1, <2>1
  <2> HIDE DEF older
  <2>4. IsFiniteSet(C \ older) /\ Sized(C \ older, m) BY <1>2, FS_Subset DEF Sized
  <2>5. Cardinality(kept) <= Cardinality(C \ older) /\ Cardinality(kept) \in Nat /\ Cardinality(C \ older) \in Nat
    BY <1>2, <2>3, <2>4, FS_Subset, FS_CardinalityType
  <2>6. Chars(C, m) = Chars(older, m) + Chars(C \ older, m) BY <2>3, CharsAdd
  <2>10. Chars(C \ older, m) \in Nat /\ Chars(older, m) \in Nat BY <2>3, CharsAdd
  <2>7. Chars(C \ older, m) = Chars(kept, m) + Chars((C \ older) \ kept, m)
        /\ Chars(kept, m) \in Nat /\ Chars((C \ older) \ kept, m) \in Nat
    BY <2>3, <2>4, CharsAdd
  <2>8. Cardinality(kept) <= MaxRetained BY <2>2, <2>5, BusAssumption
  <2>9. Chars(kept, m) <= MaxRetainedChars BY <2>2, <2>6, <2>7, <2>10, BusAssumption
  <2> QED BY <1>1, <1>3, <2>8, <2>9
<1> QED BY <1>4, <1>5

\* What is known of the messages the window may hold.
LEMMA WindowTypes ==
  ASSUME BusInv, NEW S, S \subseteq Ids
  PROVE  Sized(S, msgs) /\ IsFiniteSet(S) /\ \A i \in S : i \in Nat /\ drainedAt[i] \in Nat
<1>1. msgs \in Seq(Envelopes) /\ drainedAt \in Seq(Nat) /\ Len(drainedAt) = Len(msgs)
  BY DEF BusInv, TypeOK
<1>2. IsFiniteSet(Ids) BY <1>1, FS_Interval DEF Ids
<1>3. IsFiniteSet(S) BY <1>2, FS_Subset
<1>4. \A i \in Ids : i \in Nat /\ msgs[i] \in Envelopes /\ drainedAt[i] \in Nat BY <1>1 DEF Ids
<1>5. \A e \in Envelopes : e.size \in Nat BY BusAssumption DEF Envelopes
<1> QED BY <1>3, <1>4, <1>5 DEF Sized

\* A drain counts what it adds and what it pushes out (retain, 137-148).
LEMMA RetainCounts ==
  ASSUME BusInv, RetentionAccounted, NEW B, B \subseteq Ids, Retain(B), UNCHANGED msgs
  PROVE  RetentionAccounted'
<1>1. Window(B) \subseteq Ids /\ drains \in Nat /\ Fresh(B) \subseteq B
  BY DEF BusInv, TypeOK, Window, Fresh
<1>2. Sized(Window(B), msgs) /\ \A i \in Window(B) : i \in Nat /\ drainedAt[i] \in Nat
  BY <1>1, WindowTypes
<1>3. \A i \in Window(B) : drainedAt'[i] \in Nat /\ i \in Nat /\ drainedAt'[i] > 0
  <2>1. \A i \in Window(B) : i \in B \/ drainedAt[i] > 0 BY <1>1 DEF RetentionAccounted, Window
  <2>2. \A i \in Ids : drainedAt'[i] = IF i \in B THEN drains + 1 ELSE drainedAt[i] BY DEF Retain, Stamped
  <2> QED BY <1>1, <1>2, <2>1, <2>2
<1>4. Grown(B) = Chars(Window(B), msgs)
  <2>1. retained \subseteq Window(B) /\ Window(B) \ retained = Fresh(B) BY DEF Window, Fresh
  <2>2. Chars(Window(B), msgs) = Chars(retained, msgs) + Chars(Window(B) \ retained, msgs)
    BY <1>2, <2>1, CharsAdd
  <2> QED BY <2>1, <2>2 DEF RetentionAccounted, Grown
<1>5. retained' = Newest(Window(B), drainedAt', Chars(Window(B), msgs), msgs)
  BY <1>4 DEF Retain
<1>6. /\ retained' \subseteq Window(B)
      /\ Chars(Window(B), msgs) - Chars(Window(B) \ retained', msgs) = Chars(retained', msgs)
      /\ Chars(retained', msgs) <= MaxRetainedChars
      /\ Cardinality(retained') <= MaxRetained
  <2>1. \A i \in Window(B) : drainedAt'[i] \in Nat /\ i \in Nat BY <1>3
  <2> QED BY <1>2, <1>5, <2>1, NewestFits
<1>7. retainedChars' = Chars(retained', msgs) BY <1>4, <1>6 DEF Retain
<1> QED BY <1>3, <1>6, <1>7 DEF RetentionAccounted

\* The window stays as it is, or loses what was sent to a handle that left:
\* its messages keep their lengths and the drain that took them.
LEMMA ForgetCounts ==
  ASSUME BusInv, RetentionAccounted, NEW gone, gone \subseteq retained, Forget(gone),
         \A i \in retained : msgs'[i].size = msgs[i].size /\ drainedAt'[i] = drainedAt[i]
  PROVE  RetentionAccounted'
<1>1. retained \subseteq Ids BY DEF BusInv, TypeOK
<1>2. IsFiniteSet(retained) /\ Sized(retained, msgs)
  BY <1>1, WindowTypes
<1>3. Chars(retained, msgs) = Chars(gone, msgs) + Chars(retained \ gone, msgs)
  BY <1>2, CharsAdd
<1>11. Chars(gone, msgs) \in Nat /\ Chars(retained \ gone, msgs) \in Nat
  BY <1>2, CharsAdd
<1>4. /\ Cardinality(retained \ gone) <= Cardinality(retained)
      /\ Cardinality(retained) \in Nat /\ Cardinality(retained \ gone) \in Nat
  BY <1>2, FS_Subset, FS_CardinalityType
<1>5. Chars(retained', msgs') = Chars(retained', msgs)
  BY CharsOfSizes DEF Forget
<1>6. retained' = retained \ gone /\ retainedChars' = retainedChars - Chars(gone, msgs)
  BY DEF Forget
<1>7. retainedChars' = Chars(retained', msgs') BY <1>3, <1>5, <1>6, <1>11 DEF RetentionAccounted
<1>8. retainedChars' <= MaxRetainedChars BY <1>3, <1>6, <1>11, BusAssumption DEF RetentionAccounted
<1>9. Cardinality(retained') <= MaxRetained BY <1>4, <1>6, BusAssumption DEF RetentionAccounted
<1>10. \A i \in retained' : drainedAt'[i] > 0 BY <1>6 DEF RetentionAccounted
<1> QED BY <1>7, <1>8, <1>9, <1>10 DEF RetentionAccounted

LEMMA WindowUntouched ==
  ASSUME BusInv, RetentionAccounted, UNCHANGED <<retained, retainedChars>>,
         \A i \in retained : msgs'[i].size = msgs[i].size /\ drainedAt'[i] = drainedAt[i]
  PROVE  RetentionAccounted'
<1>1. Chars(retained, msgs') = Chars(retained, msgs) BY CharsOfSizes
<1> QED BY <1>1 DEF RetentionAccounted

\* Retiring an ask changes no text.
LEMMA RetireKeepsSizes ==
  ASSUME NEW m \in Seq(Envelopes), NEW S
  PROVE  \A i \in 1..Len(m) : Retire(m, S)[i].size = m[i].size
<1>1. DOMAIN m = 1..Len(m) /\ \A i \in 1..Len(m) : m[i] \in Envelopes OBVIOUS
<1>2. \A e \in Envelopes : [e EXCEPT !.expectsReply = FALSE].size = e.size BY DEF Envelopes
<1>3. \A i \in 1..Len(m) :
        Retire(m, S)[i] = IF i \in S THEN [m[i] EXCEPT !.expectsReply = FALSE] ELSE m[i]
  BY <1>1 DEF Retire
<1> QED BY <1>1, <1>2, <1>3

\* One step per operation: drains and departures change the window, the rest
\* leave it alone.
LEMMA WindowStep == ASSUME BusInv, RetentionAccounted, [BusNext]_busVars PROVE RetentionAccounted'
<1>1. /\ msgs \in Seq(Envelopes) /\ Ids = 1..Len(msgs)
      /\ drainedAt \in Seq(Nat) /\ Len(drainedAt) = Len(msgs)
      /\ retained \subseteq Ids /\ inbox \in [Names -> SUBSET Ids]
  BY DEF BusInv, TypeOK, Ids
<1>2. CASE UNCHANGED <<msgs, retention>> BY <1>2, WindowUntouched DEF retention
<1>3. ASSUME NEW S, msgs' = Retire(msgs, S) PROVE \A i \in retained : msgs'[i].size = msgs[i].size
  BY <1>1, <1>3, RetireKeepsSizes
<1>4. ASSUME NEW n \in Names, Unregister(n) PROVE RetentionAccounted'
  <2>1. /\ msgs' = Retire(msgs, OpenAsksWith(n)) /\ Forget({i \in retained : msgs[i].to = n})
        /\ drainedAt' = drainedAt
    BY <1>4 DEF Unregister, Forget
  <2> QED BY <1>3, <2>1, ForgetCounts
<1>5. ASSUME NEW n \in Names, Draining(n) PROVE RetentionAccounted'
  <2>1. \E B : B \subseteq inbox[n] /\ Retain(B) /\ UNCHANGED msgs
    BY <1>5 DEF Draining, Take, TakeNotes, TakeOne, OneWay
  <2> QED BY <1>1, <2>1, RetainCounts
<1>6. ASSUME NEW f, NEW t, NEW s, Messaging(f, t, s) PROVE RetentionAccounted'
  <2>1. \E e : msgs' = Append(msgs, e)
    BY <1>6 DEF Messaging, SendRefused, Send, AskWaiting, AskRefused, AskClosedInDelivery, AskClosedAtOnce
  <2>2. Unretained
    BY <1>6 DEF Messaging, SendRefused, Send, AskWaiting, AskRefused, AskClosedInDelivery, AskClosedAtOnce
  <2>3. \A i \in retained : msgs'[i] = msgs[i] /\ drainedAt'[i] = drainedAt[i]
    BY <1>1, <2>1, <2>2 DEF Unretained
  <2> QED BY <2>2, <2>3, WindowUntouched DEF Unretained
<1>7. ASSUME NEW id \in Ids, Settling(id) PROVE RetentionAccounted'
  <2>1. msgs' = Retire(msgs, {id}) /\ UNCHANGED retention
    BY <1>7 DEF Settling, Reply, TimesOut, Abort, SettleOne
  <2> QED BY <1>3, <2>1, WindowUntouched DEF retention
<1>8. ASSUME NEW n \in Names, Register(n) PROVE RetentionAccounted'
  BY <1>2, <1>8 DEF Register
<1>9. CASE UNCHANGED busVars BY <1>2, <1>9 DEF busVars
<1> QED BY <1>4, <1>5, <1>6, <1>7, <1>8, <1>9 DEF BusNext

\* After any drain and any departure the window's running count is the number
\* of characters it holds, and it holds no more messages and no more characters
\* than it may: nothing is counted twice and nothing leaks (retain 137-148,
\* unregister 158-168).
THEOREM WindowAccounted == BusSpec => []RetentionAccounted
<1>1. BusInit => RetentionAccounted
  <2>1. Chars({}, msgs) = 0 /\ Cardinality({}) = 0
    <3>1. UNION {Text(i, msgs) : i \in {}} = {} OBVIOUS
    <3> QED BY <3>1, FS_EmptySet DEF Chars
  <2> QED BY <2>1, BusAssumption DEF BusInit, RetentionAccounted
<1>2. BusInv /\ RetentionAccounted /\ [BusNext]_busVars => RetentionAccounted' BY WindowStep
<1> QED BY <1>1, <1>2, BusInvariant, PTL DEF BusSpec
----
(* What a full mailbox gives up.                                           *)
BoxesFit == \A n \in Names : Cardinality(inbox[n]) <= MaxInbox

\* A mailbox is a finite set of ids.
LEMMA BoxTypes ==
  ASSUME BusInv, NEW n \in Names
  PROVE  /\ inbox[n] \subseteq Ids /\ inbox[n] \subseteq Nat
         /\ IsFiniteSet(inbox[n]) /\ Cardinality(inbox[n]) \in Nat
<1>1. inbox[n] \subseteq Ids BY DEF BusInv, TypeOK
<1> QED BY <1>1, WindowTypes, FS_CardinalityType

\* Eviction costs a full mailbox one message, its oldest note, and makes room
\* for one (deliver, 92-103).
LEMMA RoomMade ==
  ASSUME NEW box, box \subseteq Nat, IsFiniteSet(box), Cardinality(box) <= MaxInbox, ~NoRoom(box)
  PROVE  /\ Cardinality(MakeRoom(box)) < MaxInbox
         /\ Cardinality(box \ MakeRoom(box)) <= 1
         /\ MakeRoom(box) # box => Cardinality(box) = MaxInbox
         /\ MakeRoom(box) \subseteq box
<1>1. Cardinality(box) \in Nat /\ Cardinality({}) = 0 BY FS_CardinalityType, FS_EmptySet
<1>2. CASE Cardinality(box) < MaxInbox
  <2>1. MakeRoom(box) = box BY <1>2 DEF MakeRoom
  <2>2. box \ box = {} OBVIOUS
  <2> QED BY <1>1, <1>2, <2>1, <2>2
<1>3. CASE ~(Cardinality(box) < MaxInbox)
  <2>1. MakeRoom(box) = box \ Oldest(OneWay(box)) /\ OneWay(box) # {} /\ OneWay(box) \subseteq box
    BY <1>1, <1>3, BusAssumption DEF MakeRoom, NoRoom, OneWay
  <2>7. \A j \in OneWay(box) : j \in Nat BY <2>1
  <2>2. PICK i \in OneWay(box) : \A j \in OneWay(box) : i <= j
    <3> DEFINE at == [j \in box |-> 0]
    <3>1. IsFiniteSet(OneWay(box)) BY <2>1, FS_Subset
    <3>2. PICK i \in OneWay(box) : \A j \in OneWay(box) : ~DrainedBefore(j, i, at)
      <4>1. \A j \in OneWay(box) : at[j] \in Nat /\ j \in Nat BY <2>1
      <4> HIDE DEF at
      <4> QED BY <2>1, <3>1, <4>1, OldestIn
    <3>3. \A j \in OneWay(box) : ~(j < i) BY <2>1, <3>2 DEF DrainedBefore
    <3> HIDE DEF at
    <3> QED BY <2>7, <3>3
  <2>3. Oldest(OneWay(box)) = {i} BY <2>2, <2>7 DEF Oldest
  <2>4. i \in box /\ MakeRoom(box) = box \ {i} /\ box \ MakeRoom(box) = {i} BY <2>1, <2>3
  <2>5. Cardinality(box \ {i}) = Cardinality(box) - 1 BY <2>4, FS_RemoveElement
  <2>6. Cardinality({i}) = 1 BY FS_Singleton
  <2>8. Cardinality(box) = MaxInbox BY <1>1, <1>3, BusAssumption
  <2>9. Cardinality(MakeRoom(box)) < MaxInbox BY <1>1, <2>4, <2>5, <2>8, BusAssumption
  <2>10. Cardinality(box \ MakeRoom(box)) <= 1 /\ MakeRoom(box) \subseteq box BY <2>4, <2>6
  <2> QED BY <2>8, <2>9, <2>10
<1> QED BY <1>2, <1>3

\* What a delivery does to the mailbox it goes to.
LEMMA PutsDelivered ==
  ASSUME BusInv, BoxesFit, NEW t \in Names, ~NoRoom(inbox[t]), NEW new, new \in {{}, {NewId}},
         inbox' = [inbox EXCEPT ![t] = MakeRoom(@) \cup new]
  PROVE  /\ BoxesFit'
         /\ \A n \in Names : /\ Cardinality(inbox[n] \ inbox'[n]) <= 1
                            /\ \A i \in inbox[n] \ inbox'[n] :
                                 ~msgs[i].expectsReply /\ Cardinality(inbox[n]) = MaxInbox
<1>1. /\ inbox[t] \subseteq Nat /\ IsFiniteSet(inbox[t]) /\ Cardinality(inbox[t]) <= MaxInbox
      /\ NewId \notin inbox[t]
  BY BoxTypes DEF BoxesFit, BusInv, TypeOK, Ids, NewId
<1> DEFINE room == MakeRoom(inbox[t])
<1>2. /\ Cardinality(room) < MaxInbox /\ Cardinality(inbox[t] \ room) <= 1
      /\ room # inbox[t] => Cardinality(inbox[t]) = MaxInbox
      /\ room \subseteq inbox[t] /\ \A m \in inbox[t] \ room : ~msgs[m].expectsReply
  BY <1>1, RoomMade, RoomCostsOnlyNotes
<1>3. inbox' = [inbox EXCEPT ![t] = room \cup new] /\ inbox \in [Names -> SUBSET Ids]
  BY DEF BusInv, TypeOK
<1> HIDE DEF room
<1>4. IsFiniteSet(room) /\ Cardinality(room) \in Nat BY <1>1, <1>2, FS_Subset, FS_CardinalityType
<1>5. Cardinality(room \cup new) <= MaxInbox
  <2>1. CASE new = {} BY <1>2, <1>4, <2>1, BusAssumption
  <2>2. CASE new = {NewId}
    <3>1. Cardinality(room \cup {NewId}) = Cardinality(room) + 1 BY <1>1, <1>2, <1>4, FS_AddElement
    <3> QED BY <1>2, <1>4, <2>2, <3>1, BusAssumption
  <2> QED BY <2>1, <2>2
<1>6. BoxesFit' BY <1>3, <1>5 DEF BoxesFit
<1>7. inbox'[t] = room \cup new /\ inbox[t] \ inbox'[t] = inbox[t] \ room BY <1>1, <1>3
<1>8. \A n \in Names \ {t} : inbox'[n] = inbox[n] BY <1>3
<1>9. Cardinality({}) = 0 BY FS_EmptySet
<1> QED
  <2> SUFFICES ASSUME NEW n \in Names
               PROVE  /\ Cardinality(inbox[n] \ inbox'[n]) <= 1
                      /\ \A i \in inbox[n] \ inbox'[n] :
                           ~msgs[i].expectsReply /\ Cardinality(inbox[n]) = MaxInbox
    BY <1>6
  <2>1. CASE n = t BY <1>2, <1>7, <2>1
  <2>2. CASE n # t
    <3>1. inbox[n] \ inbox'[n] = {} BY <1>8, <2>2
    <3> QED BY <1>9, <3>1
  <2> QED BY <2>1, <2>2

\* A mailbox that only loses messages still fits.
LEMMA BoxesShrink ==
  ASSUME BusInv, BoxesFit, \A n \in Names : inbox'[n] \subseteq inbox[n]
  PROVE  BoxesFit'
<1> SUFFICES ASSUME NEW n \in Names PROVE Cardinality(inbox'[n]) <= MaxInbox BY DEF BoxesFit
<1>1. IsFiniteSet(inbox[n]) /\ Cardinality(inbox[n]) \in Nat BY BoxTypes
<1>2. inbox'[n] \subseteq inbox[n] /\ Cardinality(inbox[n]) <= MaxInbox BY DEF BoxesFit
<1>3. Cardinality(inbox'[n]) <= Cardinality(inbox[n]) /\ Cardinality(inbox'[n]) \in Nat
  BY <1>1, <1>2, FS_Subset, FS_CardinalityType
<1> QED BY <1>1, <1>2, <1>3, BusAssumption

GivenUp(n) == {i \in inbox[n] \ inbox'[n] : n \in registered' /\ drainedAt'[i] = 0 /\ outcome'[i] = "open"}
GivesUpOldNotes ==
  \A n \in Names :
    /\ Cardinality(GivenUp(n)) <= 1
    /\ \A i \in GivenUp(n) : ~msgs[i].expectsReply /\ Cardinality(inbox[n]) = MaxInbox

\* A step that explains every message it removes gives up none.
LEMMA NothingGivenUp == ASSUME \A n \in Names : GivenUp(n) = {} PROVE GivesUpOldNotes
<1>1. Cardinality({}) = 0 BY FS_EmptySet
<1> QED BY <1>1 DEF GivesUpOldNotes

\* One step per operation: only a delivery gives up a message.
LEMMA GivingUpStep ==
  ASSUME BusInv, BoxesFit, [BusNext]_busVars
  PROVE  BoxesFit' /\ GivesUpOldNotes
<1>1. /\ inbox \in [Names -> SUBSET Ids] /\ pendingAsks \subseteq Ids
      /\ outcome \in Seq(Reasons \cup {"open"}) /\ Len(outcome) = Len(msgs)
      /\ drainedAt \in Seq(Nat) /\ Len(drainedAt) = Len(msgs) /\ drains \in Nat
      /\ Ids = 1..Len(msgs) /\ msgs \in Seq(Envelopes)
  BY DEF BusInv, TypeOK, Ids
<1>2. CASE UNCHANGED inbox
  <2>1. \A n \in Names : GivenUp(n) = {} BY <1>2 DEF GivenUp
  <2> QED BY <1>2, <2>1, NothingGivenUp, BoxesShrink
<1>3. ASSUME NEW S, S \subseteq pendingAsks, NEW reason, reason # "open", Settle(S, reason),
             \A n \in Names : /\ inbox'[n] \subseteq inbox[n]
                              /\ n \in registered' => inbox[n] \ inbox'[n] \subseteq S
      PROVE  BoxesFit' /\ GivesUpOldNotes
  <2>1. \A i \in S : outcome'[i] = reason
    <3>1. \A i \in S : i \in DOMAIN outcome BY <1>1, <1>3
    <3> QED BY <3>1, <1>3 DEF Settle
  <2>2. \A n \in Names : GivenUp(n) = {} BY <1>3, <2>1 DEF GivenUp
  <2> QED BY <1>3, <2>2, NothingGivenUp, BoxesShrink
<1>4. ASSUME NEW n \in Names, Unregister(n) PROVE BoxesFit' /\ GivesUpOldNotes
  <2>1. /\ inbox' = [Unread(OpenAsksWith(n)) EXCEPT ![n] = {}] /\ registered' = registered \ {n}
        /\ Settle(OpenAsksWith(n), "unregistered")
    BY <1>4 DEF Unregister
  <2>2. \A k \in Names : /\ inbox'[k] \subseteq inbox[k]
                         /\ k \in registered' => inbox[k] \ inbox'[k] \subseteq OpenAsksWith(n)
    BY <2>1 DEF Unread
  <2>3. OpenAsksWith(n) \subseteq pendingAsks BY DEF OpenAsksWith
  <2> QED BY <1>3, <2>1, <2>2, <2>3
<1>5. ASSUME NEW n \in Names, Draining(n) PROVE BoxesFit' /\ GivesUpOldNotes
  <2>1. PICK B : B \subseteq inbox[n] /\ Retain(B) /\ inbox' = [inbox EXCEPT ![n] = @ \ B]
    <3>1. \/ Retain(inbox[n]) /\ inbox' = [inbox EXCEPT ![n] = {}]
          \/ Retain(OneWay(inbox[n])) /\ inbox' = [inbox EXCEPT ![n] = @ \ OneWay(@)]
          \/ \E id \in inbox[n] : Retain({id}) /\ inbox' = [inbox EXCEPT ![n] = @ \ {id}]
      BY <1>5 DEF Draining, Take, TakeNotes, TakeOne
    <3>2. inbox[n] \ inbox[n] = {} OBVIOUS
    <3>3. [inbox EXCEPT ![n] = {}] = [inbox EXCEPT ![n] = @ \ inbox[n]] BY <1>1, <3>2
    <3> QED BY <3>1, <3>3, RoomCostsOnlyNotes DEF OneWay
  <2>2. \A k \in Names : inbox'[k] \subseteq inbox[k] /\ inbox[k] \ inbox'[k] \subseteq B BY <1>1, <2>1
  <2>3. \A i \in B : drainedAt'[i] # 0 BY <1>1, <2>1 DEF Retain, Stamped
  <2>4. \A k \in Names : GivenUp(k) = {} BY <2>2, <2>3 DEF GivenUp
  <2> QED BY <2>2, <2>4, NothingGivenUp, BoxesShrink
<1>6. ASSUME NEW f \in Names, NEW t \in Names, NEW s, Messaging(f, t, s) PROVE BoxesFit' /\ GivesUpOldNotes
  <2>1. CASE \E new \in {{}, {NewId}} : ~NoRoom(inbox[t]) /\ inbox' = [inbox EXCEPT ![t] = MakeRoom(@) \cup new]
    <3>1. PICK new \in {{}, {NewId}} : ~NoRoom(inbox[t]) /\ inbox' = [inbox EXCEPT ![t] = MakeRoom(@) \cup new]
      BY <2>1
    <3>2. /\ BoxesFit'
          /\ \A n \in Names : /\ Cardinality(inbox[n] \ inbox'[n]) <= 1
                             /\ \A i \in inbox[n] \ inbox'[n] :
                                  ~msgs[i].expectsReply /\ Cardinality(inbox[n]) = MaxInbox
      BY <3>1, PutsDelivered
    <3>3. ASSUME NEW n \in Names PROVE Cardinality(GivenUp(n)) <= 1
      <4>1. IsFiniteSet(inbox[n] \ inbox'[n]) BY BoxTypes, FS_Subset
      <4>2. GivenUp(n) \subseteq inbox[n] \ inbox'[n] BY DEF GivenUp
      <4>3. Cardinality(GivenUp(n)) <= Cardinality(inbox[n] \ inbox'[n]) BY <4>1, <4>2, FS_Subset
      <4>4. Cardinality(GivenUp(n)) \in Nat /\ Cardinality(inbox[n] \ inbox'[n]) \in Nat
        BY <4>1, <4>2, FS_Subset, FS_CardinalityType
      <4> QED BY <3>2, <4>3, <4>4
    <3> QED BY <3>2, <3>3 DEF GivesUpOldNotes, GivenUp
  <2>2. CASE UNCHANGED inbox BY <1>2, <2>2
  <2>3. ASSUME NEW reason, AskClosedAtOnce(f, t, s, reason, inbox[t]) PROVE UNCHANGED inbox
    BY <1>1, <2>3 DEF AskClosedAtOnce
  <2>4. ASSUME NEW reason, AskClosedAtOnce(f, t, s, reason, MakeRoom(inbox[t]))
        PROVE  inbox' = [inbox EXCEPT ![t] = MakeRoom(@) \cup {}]
    <3>1. MakeRoom(inbox[t]) \cup {} = MakeRoom(inbox[t]) OBVIOUS
    <3> QED BY <2>4, <3>1 DEF AskClosedAtOnce
  <2> QED BY <1>6, <2>1, <2>2, <2>3, <2>4
        DEF Messaging, SendRefused, Send, AskWaiting, AskRefused, AskClosedInDelivery, mail
<1>7. ASSUME NEW id \in Ids, Settling(id) PROVE BoxesFit' /\ GivesUpOldNotes
  <2>1. PICK reason \in Reasons : id \in pendingAsks /\ Settle({id}, reason) /\ inbox' = Unread({id})
    BY <1>7 DEF Settling, Reply, TimesOut, Abort, SettleOne, Reasons
  <2>2. \A k \in Names : inbox'[k] \subseteq inbox[k] /\ inbox[k] \ inbox'[k] \subseteq {id} BY <2>1 DEF Unread
  <2>3. reason # "open" BY <2>1 DEF Reasons
  <2> QED BY <1>3, <2>1, <2>2, <2>3
<1>8. ASSUME NEW n, Register(n) PROVE UNCHANGED inbox BY <1>8 DEF Register
<1>9. ASSUME NEW from \in Writers, NEW to \in Readers, NEW s, Messaging(from, to, s) PROVE BoxesFit' /\ GivesUpOldNotes
  BY <1>6, <1>9, BusAssumption
<1>10. CASE UNCHANGED busVars BY <1>2, <1>10 DEF busVars, mail
<1> QED BY <1>2, <1>4, <1>5, <1>7, <1>8, <1>9, <1>10 DEF BusNext

\* The only unread message that a step takes from a registered handle, which
\* neither read it nor saw its ask settled, is one one-way note of a mailbox
\* that was full (deliver, 92-103).
THEOREM NotesGivenUp == BusSpec => OnlyOldNotesLost
<1>1. BusInit => BoxesFit
  <2>1. Cardinality({}) = 0 BY FS_EmptySet
  <2> QED BY <2>1, BusAssumption DEF BusInit, BoxesFit
<1>2. BusInv /\ BoxesFit /\ [BusNext]_busVars => BoxesFit' BY GivingUpStep
<1>3. BusInv /\ BoxesFit /\ [BusNext]_busVars =>
        [LET gone(n) == {i \in inbox[n] \ inbox'[n] :
                           /\ n \in registered'
                           /\ drainedAt'[i] = 0
                           /\ outcome'[i] = "open"}
         IN \A n \in Names :
              /\ Cardinality(gone(n)) <= 1
              /\ \A i \in gone(n) : /\ ~msgs[i].expectsReply
                                    /\ Cardinality(inbox[n]) = MaxInbox]_busVars
  BY GivingUpStep DEF GivesUpOldNotes, GivenUp
<1> QED BY <1>1, <1>2, <1>3, BusInvariant, PTL DEF BusSpec, OnlyOldNotesLost
----
(* The bus implements AskContract.                                         *)
ViewOK ==
  /\ AskView \in Seq(Contract!Questions) /\ Len(AskView) = Len(msgs)
  /\ DOMAIN AskView = Ids
  /\ \A i \in Ids : AskView[i] = [from |-> msgs[i].from, to |-> msgs[i].to, phase |-> Phase(i)]
  /\ \A i \in Ids : AskView[i].phase = "waiting" <=> i \in pendingAsks

\* The contract sees one question per ask the bus issued, in its phase.
LEMMA ViewIsSeq == BusInv => ViewOK
<1> SUFFICES ASSUME BusInv PROVE ViewOK
  OBVIOUS
<1>1. \A i \in Ids : /\ msgs[i] \in Envelopes /\ outcome[i] \in Reasons \cup {"open"}
  BY DEF BusInv, TypeOK, Ids
<1>2. \A i \in Ids : Phase(i) \in Contract!Phases
  BY <1>1 DEF Phase, Contract!Phases
<1>3. \A i \in Ids :
        [from |-> msgs[i].from, to |-> msgs[i].to, phase |-> Phase(i)] \in Contract!Questions
  BY <1>1, <1>2 DEF Contract!Questions, Envelopes
<1>4. Len(msgs) \in Nat
  BY DEF BusInv, TypeOK
<1>5. \A i \in Ids : Phase(i) = "waiting" <=> i \in pendingAsks
  BY <1>1 DEF Phase, Reasons
<1>6. AskView \in Seq(Contract!Questions) /\ Len(AskView) = Len(msgs)
  BY <1>3, <1>4 DEF AskView, Ids
<1>7. /\ DOMAIN AskView = Ids
      /\ \A i \in Ids : AskView[i] = [from |-> msgs[i].from, to |-> msgs[i].to, phase |-> Phase(i)]
  BY DEF AskView
<1> QED BY <1>5, <1>6, <1>7 DEF ViewOK

\* The same after a step.
LEMMA ViewIsSeqNext == BusInv' => ViewOK'
BY ViewIsSeq, PTL

\* A bus just made shows the contract no question.
LEMMA ContractInitially == ASSUME BusInit PROVE Contract!ContractInit
BY DEF BusInit, Contract!ContractInit, AskView, Ids

\* What a settlement of S does to the contract's view.
LEMMA SettleView ==
  ASSUME BusInv, NEW S, NEW reason \in Reasons, S \subseteq pendingAsks,
         Settle(S, reason), msgs' = Retire(msgs, S)
  PROVE  AskView' = [i \in DOMAIN AskView |->
                       IF i \in S THEN [AskView[i] EXCEPT !.phase = reason] ELSE AskView[i]]
<1>1. msgs \in Seq(Envelopes) /\ outcome \in Seq(Reasons \cup {"open"}) /\ Len(outcome) = Len(msgs)
  BY DEF BusInv, TypeOK
<1>2. /\ Len(msgs') = Len(msgs)
      /\ \A i \in Ids : msgs'[i].from = msgs[i].from /\ msgs'[i].to = msgs[i].to
  BY <1>1, RetireTypes DEF Ids
<1>3. Ids' = Ids
  BY <1>2 DEF Ids
<1>4. \A i \in Ids : outcome'[i] = IF i \in S THEN reason ELSE outcome[i]
  BY <1>1 DEF Settle, Ids
<1>5. \A i \in Ids : Phase(i)' = IF i \in S THEN reason ELSE Phase(i)
  BY <1>4 DEF Phase, Settle, Reasons
<1>6. \A i \in Ids : AskView[i] = [from |-> msgs[i].from, to |-> msgs[i].to, phase |-> Phase(i)]
  BY DEF AskView
<1>7. \A i \in Ids :
        AskView'[i] = IF i \in S THEN [AskView[i] EXCEPT !.phase = reason] ELSE AskView[i]
  <2> SUFFICES ASSUME NEW i \in Ids
               PROVE  AskView'[i] = IF i \in S THEN [AskView[i] EXCEPT !.phase = reason] ELSE AskView[i]
    OBVIOUS
  <2>1. AskView'[i] = [from |-> msgs[i].from, to |-> msgs[i].to, phase |-> Phase(i)']
    BY <1>2, <1>3 DEF AskView
  <2>2. AskView[i] = [from |-> msgs[i].from, to |-> msgs[i].to, phase |-> Phase(i)]
    BY <1>6
  <2>3. Phase(i)' = IF i \in S THEN reason ELSE Phase(i)
    BY <1>5
  <2> HIDE DEF AskView
  <2>4. CASE i \in S
    <3>1. [AskView[i] EXCEPT !.phase = reason] = [from |-> msgs[i].from, to |-> msgs[i].to, phase |-> reason]
      BY <2>2
    <3> QED BY <2>1, <2>3, <2>4, <3>1
  <2>5. CASE i \notin S
    BY <2>1, <2>2, <2>3, <2>5
  <2> QED BY <2>4, <2>5
<1> QED BY <1>3, <1>7 DEF AskView

\* A reply, a timeout or an abort is one Close of the contract.
LEMMA SettleOneRefines ==
  ASSUME BusInv, NEW id, NEW reason \in Reasons, SettleOne(id, reason)
  PROVE  Contract!ContractNext
<1>1. id \in pendingAsks /\ id \in Ids
  BY DEF SettleOne, BusInv, TypeOK
<1>2. AskView' = [i \in DOMAIN AskView |->
                    IF i \in {id} THEN [AskView[i] EXCEPT !.phase = reason] ELSE AskView[i]]
  BY <1>1, SettleView DEF SettleOne
<1>3. AskView' = [AskView EXCEPT ![id].phase = reason]
  BY <1>2
<1>4. Contract!Close(id, reason)
  BY <1>1, <1>3, ViewIsSeq DEF ViewOK, Contract!Close, SettleOne
<1> QED BY <1>1, <1>4, ViewIsSeq DEF ViewOK, Contract!ContractNext

\* A departure is one Leave of the contract.
LEMMA UnregisterRefines ==
  ASSUME BusInv, NEW n \in Names, Unregister(n)
  PROVE  Contract!ContractNext
<1> DEFINE S == OpenAsksWith(n)
<1>1. S \subseteq pendingAsks /\ "unregistered" \in Reasons
  BY DEF OpenAsksWith, Reasons
<1>2. AskView' = [i \in DOMAIN AskView |->
                    IF i \in S THEN [AskView[i] EXCEPT !.phase = "unregistered"] ELSE AskView[i]]
  BY <1>1, SettleView DEF Unregister
<1>3. \A i \in Ids :
        i \in S <=> AskView[i].phase = "waiting" /\ n \in {AskView[i].from, AskView[i].to}
  <2>1. ViewOK /\ pendingAsks \subseteq Ids
    BY ViewIsSeq DEF BusInv, TypeOK
  <2>2. \A i \in Ids : /\ AskView[i].from = msgs[i].from
                       /\ AskView[i].to = msgs[i].to
                       /\ AskView[i].phase = "waiting" <=> i \in pendingAsks
    BY <2>1 DEF ViewOK
  <2> QED BY <2>2 DEF OpenAsksWith
<1>4. Contract!Leave(n)
  BY <1>2, <1>3, ViewIsSeq DEF ViewOK, Contract!Leave, Unregister
<1> QED BY <1>4 DEF Contract!ContractNext

\* An ask that got an id is one Put of the contract, open or already closed.
LEMMA PutRefines ==
  ASSUME BusInv, BusInv', NEW e \in Envelopes, NEW o \in Reasons \cup {"open"},
         e.to \in registered, UNCHANGED registered,
         msgs' = Append(msgs, e), outcome' = Append(outcome, o),
         pendingAsks' \in {pendingAsks, pendingAsks \cup {NewId}}
  PROVE  Contract!ContractNext
<1> DEFINE q == AskView'[NewId]
<1>1. /\ msgs \in Seq(Envelopes)
      /\ outcome \in Seq(Reasons \cup {"open"}) /\ Len(outcome) = Len(msgs)
  BY DEF BusInv, TypeOK
<1>2. /\ Len(msgs') = Len(msgs) + 1 /\ msgs'[NewId] = e
      /\ \A i \in Ids : msgs'[i] = msgs[i] /\ outcome'[i] = outcome[i]
  BY <1>1 DEF Ids, NewId
<1>3. Ids' = 1..(Len(msgs) + 1) /\ Ids = 1..Len(msgs) /\ NewId \in Ids' /\ NewId \notin Ids
  BY <1>1, <1>2 DEF Ids, NewId
<1>4. /\ AskView \in Seq(Contract!Questions) /\ Len(AskView) = Len(msgs)
      /\ \A i \in Ids : AskView[i] = [from |-> msgs[i].from, to |-> msgs[i].to, phase |-> Phase(i)]
  BY ViewIsSeq DEF ViewOK
<1>5. /\ AskView' \in Seq(Contract!Questions) /\ Len(AskView') = Len(msgs) + 1
      /\ \A i \in Ids' : AskView'[i] = [from |-> msgs'[i].from, to |-> msgs'[i].to, phase |-> Phase(i)']
  BY <1>2, ViewIsSeqNext DEF ViewOK
<1>6. \A i \in Ids : AskView'[i] = AskView[i]
  <2>1. \A i \in Ids : Phase(i)' = Phase(i)
    BY <1>2, <1>3 DEF Phase
  <2> TAKE i \in Ids
  <2>2. i \in Ids'
    BY <1>3
  <2>3. AskView'[i] = [from |-> msgs'[i].from, to |-> msgs'[i].to, phase |-> Phase(i)']
    BY <1>5, <2>2
  <2>4. AskView[i] = [from |-> msgs[i].from, to |-> msgs[i].to, phase |-> Phase(i)]
    BY <1>4
  <2> HIDE DEF q
  <2>5. Phase(i)' = Phase(i) /\ msgs'[i] = msgs[i]
    BY <1>2, <2>1
  <2> QED BY <2>3, <2>4, <2>5
<1>7. q \in Contract!Questions /\ q.to = e.to
  BY <1>2, <1>3, <1>5
<1>8. AskView' = Append(AskView, q)
  BY <1>1, <1>3, <1>4, <1>5, <1>6 DEF NewId
<1> QED BY <1>7, <1>8 DEF Contract!ContractNext, Contract!Put

\* Every step of the bus is a step of the contract or leaves its view alone.
LEMMA StepRefines ==
  ASSUME BusInv, BusInv', [BusNext]_busVars
  PROVE  [Contract!ContractNext]_(Contract!contractVars)
<1>1. ASSUME NEW n \in Names, Register(n) PROVE Contract!ContractNext
  <2>1. UNCHANGED AskView
    BY <1>1 DEF Register, asking, AskView, Ids, Phase
  <2> QED BY <1>1, <2>1 DEF Register, Contract!ContractNext, Contract!Join
<1>2. ASSUME NEW n \in Names, Draining(n) PROVE [Contract!ContractNext]_(Contract!contractVars)
  <2>1. /\ UNCHANGED <<msgs, pendingAsks, outcome>>
        /\ registered' \in {registered, registered \cup {n}}
    BY <1>2 DEF Draining, Take, TakeNotes, TakeOne, asking
  <2>2. UNCHANGED AskView
    BY <2>1 DEF AskView, Ids, Phase
  <2> QED BY <2>1, <2>2 DEF Contract!ContractNext, Contract!Join, Contract!contractVars
<1>3. ASSUME NEW from \in Writers, NEW to \in Readers, NEW s \in Sizes, Messaging(from, to, s)
      PROVE  Contract!ContractNext
  <2>1. from \in Names /\ to \in Names
    BY BusAssumption
  <2> DEFINE note == Note(from, to, s)
             ask == Ask(from, to, s)
  <2>2. note \in Envelopes /\ note.to = to /\ ask \in Envelopes /\ ask.to = to
    BY <2>1 DEF Note, Ask, Envelopes
  <2> HIDE DEF note, ask
  <2>3. \E e \in {note, ask}, o \in Reasons \cup {"open"} :
          /\ to \in registered /\ UNCHANGED registered
          /\ msgs' = Append(msgs, e) /\ outcome' = Append(outcome, o)
          /\ pendingAsks' \in {pendingAsks, pendingAsks \cup {NewId}}
    BY <1>3 DEF Messaging, SendRefused, Send, AskWaiting, AskRefused, AskClosedInDelivery,
                AskClosedAtOnce, note, ask, mail, asking, Reasons
  <2> QED BY <2>2, <2>3, PutRefines
<1>4. ASSUME NEW id \in Ids, Settling(id) PROVE Contract!ContractNext
  <2>1. PICK reason \in Reasons : SettleOne(id, reason)
    BY <1>4 DEF Settling, Reply, TimesOut, Abort, Reasons
  <2> QED BY <2>1, SettleOneRefines
<1>5. CASE UNCHANGED busVars
  BY <1>5 DEF busVars, mail, asking, AskView, Ids, Phase, Contract!contractVars
<1> QED BY <1>1, <1>2, <1>3, <1>4, <1>5, UnregisterRefines DEF BusNext

\* The bus implements the contract: one outcome per question, given once, and
\* a departure closes exactly the questions of the handle that left.
THEOREM BusRefinesContract == BusSpec => KeepsAskContract
<1>1. BusInit => Contract!ContractInit BY ContractInitially
<1>2. BusInv /\ BusInv' /\ [BusNext]_busVars => [Contract!ContractNext]_(Contract!contractVars)
  BY StepRefines
<1> QED BY <1>1, <1>2, BusInvariant, PTL DEF BusSpec, KeepsAskContract, Contract!ContractSpec

---------------------------------------------------------------------------
(* Alarms and watches.  For any watches, alarms and limits: each watch and *)
(* each alarm ends once, with its deadline, process, log and row, and      *)
(* nothing outlives the session; every event is told in its order, queued  *)
(* or counted; and nothing withdrawn is told.                              *)

Procs == {"none", "stopped", "ended", "live", "pidless"}
Armed == {t \in Alarms : alarm[t] = "armed"}

\* What the manager, the adapters and the archive say of one watch.
WatchAgrees(w) ==
  /\ watch[w] = "active" <=> w \in timed
  /\ watch[w] = "active" <=> proc[w] \in Open
  /\ watch[w] = "active" <=> log[w] = "running"
  /\ w \in killed => watch[w] = "ended"
  /\ log[w] = "exit" => w \notin killed

ManagerInv ==
  /\ watch \in [Watches -> {"unborn", "active", "ended"}]
  /\ proc \in [Watches -> Procs]
  /\ log \in [Watches -> {"none", "running"} \cup Outcomes]
  /\ timed \subseteq Watches
  /\ \A w \in Watches : WatchAgrees(w)

AlarmInv == alarm \in [Alarms -> {"unarmed", "armed", "rung", "cancelled"}]

RowInv == rows = Active \cup Armed

QuietInv == disposed => rows = {} /\ ringing = {} /\ queue = <<>> /\ ~ringTimer /\ ~tellTimer

WakeInv == ManagerInv /\ AlarmInv /\ RowInv /\ QuietInv

---------------------------------------------------------------------------
\* Ending watches, with or without an event, keeps what is said of each and
\* takes exactly those out of the manager's map.
LEMMA LeaveKeeps ==
  ASSUME ManagerInv,
         NEW G \in SUBSET Active, NEW C \in SUBSET Active, NEW kind \in Outcomes,
         NEW p \in [Watches -> Procs],
         \A w \in Watches : p[w] = proc[w] \/ (w \in G /\ p[w] = "ended"),
         kind = "exit" => \A w \in G : p[w] = "ended",
         Leave(G, C, kind, p)
  PROVE  ManagerInv' /\ Active' = Active \ (G \cup C)
<1>1. watch' \in [Watches -> {"unborn", "active", "ended"}]
  BY DEF ManagerInv, Leave
<1>2. proc' \in [Watches -> Procs]
  BY DEF Leave, Stopped, Procs
<1>3. log' \in [Watches -> {"none", "running"} \cup Outcomes]
  BY DEF ManagerInv, Leave, Outcomes
<1>4. timed' \subseteq Watches
  BY DEF ManagerInv, Leave
<1>5. ASSUME NEW w \in Watches
      PROVE  WatchAgrees(w)'
  <2>1. CASE w \in G \cup C
    <3>1. watch'[w] = "ended" /\ w \notin timed'
      BY <2>1 DEF Leave
    <3>2. proc'[w] \notin Open
      BY <2>1 DEF Leave, Stopped, Open
    <3>3. log'[w] \in Outcomes
      BY <2>1 DEF Leave, Outcomes
    <3>4. log'[w] = "exit" => w \notin killed'
      <4>1. SUFFICES ASSUME log'[w] = "exit" PROVE w \notin killed'
        OBVIOUS
      <4>2. w \in G /\ kind = "exit"
        BY <2>1, <4>1 DEF Leave
      <4>3. p[w] = "ended"
        BY <4>2
      <4>4. w \notin killed
        BY <4>2 DEF ManagerInv, WatchAgrees, Active
      <4> QED BY <4>3, <4>4 DEF Leave, KilledBy
    <3> QED BY <3>1, <3>2, <3>3, <3>4 DEF WatchAgrees, Outcomes
  <2>2. CASE w \notin G \cup C
    <3>1. watch'[w] = watch[w] /\ log'[w] = log[w]
      BY <2>2 DEF Leave
    <3>2. proc'[w] = proc[w]
      BY <2>2 DEF Leave, Stopped
    <3>3. (w \in timed') <=> (w \in timed)
      BY <2>2 DEF Leave
    <3>4. (w \in killed') <=> (w \in killed)
      BY <2>2 DEF Leave, KilledBy
    <3> QED BY <3>1, <3>2, <3>3, <3>4 DEF ManagerInv, WatchAgrees
  <2> QED BY <2>1, <2>2
<1>6. Active' = Active \ (G \cup C)
  BY DEF Leave, Active, ManagerInv
<1> QED BY <1>1, <1>2, <1>3, <1>4, <1>5, <1>6 DEF ManagerInv

\* Withdrawing every watch, after G has just ended with an event.
LEMMA CancelAllKeeps ==
  ASSUME ManagerInv, CancelAll({}, "cancelled", proc)
  PROVE  ManagerInv' /\ Active' = {} /\ queue' = <<>> /\ ~tellTimer'
<1>1. Leave({}, Active \ {}, "cancelled", proc)
  BY DEF CancelAll
<1>2. proc \in [Watches -> Procs] /\ "cancelled" \in Outcomes
  BY DEF ManagerInv, Outcomes
<1>3. ManagerInv' /\ Active' = Active \ ({} \cup (Active \ {}))
  BY <1>1, <1>2, LeaveKeeps
<1> QED BY <1>3 DEF CancelAll, EmptyQueue

\* An event of an active watch, whatever brought it, keeps the invariant.
LEMMA EventKeeps ==
  ASSUME WakeInv, NEW w \in Active, NEW what, NEW kind \in Outcomes,
         NEW terminal \in BOOLEAN, NEW p \in [Watches -> Procs],
         \A v \in Watches : p[v] = proc[v] \/ (v = w /\ terminal /\ p[v] = "ended"),
         kind = "exit" => terminal /\ p[w] = "ended",
         OnEvent(w, what, kind, terminal, p)
  PROVE  WakeInv'
<1> DEFINE G == IF terminal THEN {w} ELSE {}
           C == IF CanRun THEN {} ELSE Active \ G
<1>1. ~disposed /\ disposed' = disposed /\ alarm' = alarm
  BY DEF WakeInv, RowInv, QuietInv, OnEvent, modeVars, alarmVars
<1>2. Leave(G, C, kind, p)
  BY DEF OnEvent, CancelAll
<1>3. G \in SUBSET Active /\ C \in SUBSET Active
  OBVIOUS
<1>4. \A v \in Watches : p[v] = proc[v] \/ (v \in G /\ p[v] = "ended")
  OBVIOUS
<1>5. kind = "exit" => \A v \in G : p[v] = "ended"
  OBVIOUS
<1>6. ManagerInv' /\ Active' = Active \ (G \cup C)
  <2> HIDE DEF G, C
  <2> QED BY <1>2, <1>3, <1>4, <1>5, LeaveKeeps DEF WakeInv
<1>7. rows' = rows \ (G \cup C)
  BY <1>1 DEF OnEvent, Settled
<1>8. Armed' = Armed /\ Armed \cap Active = {}
  BY <1>1, WakeAssumption DEF Armed, Active
<1>9. RowInv'
  BY <1>3, <1>6, <1>7, <1>8 DEF WakeInv, RowInv
<1> QED BY <1>1, <1>6, <1>9 DEF WakeInv, AlarmInv, QuietInv

---------------------------------------------------------------------------
\* What the invariant reads, apart from the notifiers after shutdown.
kept == <<watch, proc, log, timed, killed, alarm, rows>>

\* A step that touches none of them, and nothing quiet, keeps it.
LEMMA Frame ==
  ASSUME WakeInv, kept' = kept,
         disposed' = disposed,
         disposed => UNCHANGED <<ringing, queue, ringTimer, tellTimer>>
  PROVE  WakeInv'
<1>1. ManagerInv' /\ Active' = Active
  BY DEF kept, WakeInv, ManagerInv, WatchAgrees, Active
<1>2. AlarmInv' /\ Armed' = Armed
  BY DEF kept, WakeInv, AlarmInv, Armed
<1> QED BY <1>1, <1>2 DEF kept, WakeInv, RowInv, QuietInv

\* A session that was shut down has nothing left to act on.
LEMMA NothingLeft ==
  ASSUME WakeInv, disposed
  PROVE  Active = {} /\ Armed = {} /\ ~ringTimer /\ ~tellTimer
BY DEF WakeInv, RowInv, QuietInv

\* Nothing is armed at first.
LEMMA InitWakes == Init => WakeInv
BY DEF Init, WakesStart, MonitorsInit, WakeInv, ManagerInv, WatchAgrees, AlarmInv, RowInv, QuietInv,
       Active, Armed, Procs, Open

\* A flush of the monitor notifier: it tells, waits, or withdraws everything.
LEMMA TellerKeeps ==
  ASSUME WakeInv, ~disposed, disposed' = disposed, alarm' = alarm,
         \/ \E open \in BOOLEAN : TellerDelivers(open)
         \/ TellerWaits
         \/ TellerWithdraws
  PROVE  WakeInv'
<1>1. CASE \E open \in BOOLEAN : TellerDelivers(open)
  BY <1>1, Frame DEF TellerDelivers, managerVars, kept
<1>2. CASE TellerWaits
  BY <1>2, Frame DEF TellerWaits, managerVars, kept
<1>3. CASE TellerWithdraws
  <2>1. ManagerInv' /\ Active' = {}
    BY <1>3, CancelAllKeeps DEF TellerWithdraws, WakeInv
  <2>2. rows' = rows \ Active
    BY <1>3 DEF TellerWithdraws, Settled
  <2>3. Armed' = Armed /\ Armed \cap Active = {}
    BY WakeAssumption DEF Armed, Active
  <2> QED BY <2>1, <2>2, <2>3 DEF WakeInv, AlarmInv, RowInv, QuietInv
<1> QED BY <1>1, <1>2, <1>3

\* Every action of a session keeps the invariant.
LEMMA StepWakes == WakeInv /\ [Next]_vars => WakeInv'
<1> SUFFICES ASSUME WakeInv, [Next]_vars PROVE WakeInv'
  OBVIOUS
<1>1. ASSUME NEW w \in Watches, ArmMonitor(w) PROVE WakeInv'
  <2>1. ~disposed /\ ~disposed' /\ alarm' = alarm /\ Armed' = Armed
    BY <1>1 DEF ArmMonitor, CanRun, modeVars, alarmVars, Armed
  <2>2. CASE \E how \in Open : Start(w, how) /\ rows' = rows \cup {w}
    <3>1. PICK how \in Open : Start(w, how) /\ rows' = rows \cup {w}
      BY <2>2
    <3>2. Active' = Active \cup {w}
      BY <3>1 DEF Start, Active, WakeInv, ManagerInv
    <3>3. ASSUME NEW v \in Watches PROVE WatchAgrees(v)'
      BY <3>1 DEF Start, Admissible, WakeInv, ManagerInv, WatchAgrees
    <3>4. ManagerInv'
      BY <3>1, <3>3 DEF Start, WakeInv, ManagerInv, Open, Procs
    <3> QED BY <2>1, <3>1, <3>2, <3>4 DEF WakeInv, AlarmInv, RowInv, QuietInv
  <2>3. CASE StartFails(w) /\ rows' = rows
    <3>1. Active' = Active
      BY <2>3 DEF StartFails, Admissible, Active, WakeInv, ManagerInv
    <3>2. ASSUME NEW v \in Watches PROVE WatchAgrees(v)'
      BY <2>3 DEF StartFails, Admissible, WakeInv, ManagerInv, WatchAgrees
    <3>3. ManagerInv'
      BY <2>3, <3>2 DEF StartFails, WakeInv, ManagerInv, Outcomes
    <3> QED BY <2>1, <2>3, <3>1, <3>3 DEF WakeInv, AlarmInv, RowInv, QuietInv
  <2> QED BY <1>1, <2>2, <2>3 DEF ArmMonitor
<1>2. ASSUME NEW w \in Watches, CancelMonitor(w) PROVE WakeInv'
  <2> DEFINE C == {w} \cap Active
  <2>1. ~disposed /\ ~disposed' /\ alarm' = alarm /\ Armed' = Armed
    BY <1>2 DEF CancelMonitor, modeVars, alarmVars, Armed
  <2>2. ManagerInv' /\ Active' = Active \ ({} \cup C)
    <3>1. proc \in [Watches -> Procs] /\ "cancelled" \in Outcomes
      BY DEF WakeInv, ManagerInv, Outcomes
    <3> QED BY <1>2, <3>1, LeaveKeeps DEF CancelMonitor, WakeInv
  <2>3. rows' = rows \ {w} /\ w \notin Armed
    BY <1>2, <2>1, WakeAssumption DEF CancelMonitor, Settled, Armed
  <2> QED BY <2>1, <2>2, <2>3 DEF WakeInv, AlarmInv, RowInv, QuietInv
<1>3. ASSUME NEW w \in Watches, Error(w) PROVE WakeInv'
  BY <1>3, EventKeeps DEF Error, Fails, Active, WakeInv, ManagerInv, Outcomes
<1>4. ASSUME NEW w \in Watches, Timeout(w) PROVE WakeInv'
  BY <1>4, EventKeeps DEF Timeout, Expires, Active, WakeInv, ManagerInv, Outcomes
<1>5. ASSUME NEW w \in Watches, Exit(w) PROVE WakeInv'
  <2>1. w \in Active /\ EndedFirst(w) \in [Watches -> Procs] /\ EndedFirst(w)[w] = "ended"
    BY <1>5 DEF Exit, Closes, Active, EndedFirst, WakeInv, ManagerInv, Procs
  <2>2. \A v \in Watches : EndedFirst(w)[v] = proc[v] \/ (v = w /\ EndedFirst(w)[v] = "ended")
    BY DEF EndedFirst, WakeInv, ManagerInv
  <2> QED BY <1>5, <2>1, <2>2, EventKeeps DEF Exit, Outcomes
<1>6. ASSUME NEW w \in Watches, NEW l \in Lines, Line(w, l) PROVE WakeInv'
  <2>1. w \in Active /\ LastLine(w) \in BOOLEAN /\ proc \in [Watches -> Procs]
    BY <1>6 DEF Line, Prints, Active, LastLine, WakeInv, ManagerInv
  <2> QED BY <1>6, <2>1, EventKeeps DEF Line, Outcomes
<1>7. ASSUME NEW t \in Alarms, ArmAlarm(t) PROVE WakeInv'
  <2>1. ManagerInv' /\ Active' = Active /\ ~disposed'
    BY <1>7 DEF ArmAlarm, managerVars, modeVars, WakeInv, ManagerInv, WatchAgrees, Active
  <2>2. AlarmInv' /\ Armed' = Armed \cup {t}
    BY <1>7 DEF ArmAlarm, WakeInv, AlarmInv, Armed
  <2> QED BY <1>7, <2>1, <2>2 DEF ArmAlarm, WakeInv, RowInv, QuietInv
<1>8. ASSUME NEW t \in Alarms, CancelAlarm(t) \/ Fire(t) PROVE WakeInv'
  <2>1. t \in Armed /\ UNCHANGED <<managerVars, modeVars>> /\ rows' = Settled({t})
    BY <1>8 DEF CancelAlarm, Fire, Armed
  <2>2. ~disposed /\ ~disposed'
    BY <2>1, NothingLeft DEF modeVars
  <2>3. ManagerInv' /\ Active' = Active
    BY <2>1 DEF managerVars, WakeInv, ManagerInv, WatchAgrees, Active
  <2>4. AlarmInv' /\ Armed' = Armed \ {t}
    BY <1>8 DEF CancelAlarm, Fire, WakeInv, AlarmInv, Armed
  <2>5. t \notin Active
    BY WakeAssumption DEF Active
  <2> QED BY <2>1, <2>2, <2>3, <2>4, <2>5 DEF Settled, WakeInv, RowInv, QuietInv
<1>9. CASE RingTimerDelivers \/ RingTimerWaits
  BY <1>9, NothingLeft, Frame
     DEF RingTimerDelivers, RingTimerWaits, RingTimer, managerVars, queueVars, modeVars, kept
<1>10. CASE TellTimerDelivers \/ TellTimerWaits
  <2>1. ~disposed /\ disposed' = disposed /\ alarm' = alarm
    BY <1>10, NothingLeft DEF TellTimerDelivers, TellTimerWaits, TellTimer, alarmVars, modeVars
  <2>2. \/ \E open \in BOOLEAN : TellerDelivers(open)
        \/ TellerWaits \/ TellerWithdraws
    BY <1>10 DEF TellTimerDelivers, TellTimerWaits, TellerDelivers
  <2> QED BY <2>1, <2>2, TellerKeeps
<1>11. CASE Settles
  BY <1>11, TellerKeeps DEF Settles
<1>12. CASE TurnStarts
  BY <1>12, Frame DEF TurnStarts, managerVars, alarmVars, queueVars, kept
<1>13. CASE PersonaChanges
  <2>1. ~disposed /\ disposed' = disposed /\ alarm' = alarm
    BY <1>13 DEF PersonaChanges, alarmVars
  <2>2. CASE permitted
    <3>1. CancelAll({}, "cancelled", proc) /\ rows' = rows \ Active
      BY <1>13, <2>1, <2>2 DEF PersonaChanges, Settled
    <3>2. ManagerInv' /\ Active' = {}
      BY <3>1, CancelAllKeeps DEF WakeInv
    <3>3. Armed' = Armed /\ Armed \cap Active = {}
      BY <2>1, WakeAssumption DEF Armed, Active
    <3> QED BY <2>1, <3>1, <3>2, <3>3 DEF WakeInv, AlarmInv, RowInv, QuietInv
  <2>3. CASE ~permitted
    BY <1>13, <2>1, <2>3, Frame DEF PersonaChanges, managerVars, kept
  <2> QED BY <2>2, <2>3
<1>14. CASE ToolsSwitched
  BY <1>14, Frame DEF ToolsSwitched, managerVars, alarmVars, queueVars, kept
<1>15. CASE Shutdown
  <2>1. ManagerInv' /\ Active' = {} /\ queue' = <<>> /\ ~tellTimer'
    BY <1>15, CancelAllKeeps DEF Shutdown, WakeInv
  <2>2. AlarmInv' /\ Armed' = {}
    BY <1>15 DEF Shutdown, WakeInv, AlarmInv, Armed
  <2>3. ringing' = {} /\ ~ringTimer' /\ rows' = {}
    BY <1>15 DEF Shutdown, Ringer!Cancel
  <2> QED BY <2>1, <2>2, <2>3 DEF WakeInv, RowInv, QuietInv
<1>16. CASE UNCHANGED vars
  BY <1>16, Frame DEF vars, managerVars, alarmVars, queueVars, modeVars, kept
<1> QED BY <1>1, <1>2, <1>3, <1>4, <1>5, <1>6, <1>7, <1>8, <1>9, <1>10, <1>11, <1>12,
          <1>13, <1>14, <1>15, <1>16 DEF Next

\* Every step keeps the agreement of the manager, the adapters, the archive,
\* the alarms and the rows, and the quiet after shutdown.
THEOREM WakeInvariant == Spec => []WakeInv
BY InitWakes, StepWakes, PTL DEF Spec

\* Each watch has one end, and its deadline, process, log and row end with it;
\* an alarm's row goes when it does (core/monitor.ts:70, extension.ts:1231).
THEOREM WatchesEndOnce == Spec => []WakesAgree
<1>1. WakeInv => WakesAgree
  <2> SUFFICES ASSUME WakeInv PROVE WakesAgree
    OBVIOUS
  <2>1. ASSUME NEW w \in Watches PROVE w \in Active <=> w \in rows
    BY <2>1, WakeAssumption DEF WakeInv, RowInv, Armed
  <2>2. ASSUME NEW t \in Alarms PROVE t \in Armed <=> t \in rows
    BY <2>2, WakeAssumption DEF WakeInv, RowInv, Active
  <2> QED BY <2>1, <2>2 DEF WakeInv, ManagerInv, WatchAgrees, QuietInv, WakesAgree, Active, Armed
<1> QED BY <1>1, WakeInvariant, PTL

---------------------------------------------------------------------------
\* The monitor notifier.

\* s is what is left of h, in its order.
InOrderOf(s, h) ==
  /\ \A i \in DOMAIN s : \E k \in DOMAIN h : h[k] = s[i]
  /\ \A i, j \in DOMAIN s : i < j => \E k, l \in DOMAIN h : k < l /\ h[k] = s[i] /\ h[l] = s[j]

\* What is left of what is left.
LEMMA LeftOfLeft ==
  ASSUME NEW s, NEW t, NEW h, InOrderOf(s, t), InOrderOf(t, h)
  PROVE  InOrderOf(s, h)
<1>1. ASSUME NEW i \in DOMAIN s PROVE \E k \in DOMAIN h : h[k] = s[i]
  BY DEF InOrderOf
<1>2. ASSUME NEW i \in DOMAIN s, NEW j \in DOMAIN s, i < j
      PROVE  \E k, l \in DOMAIN h : k < l /\ h[k] = s[i] /\ h[l] = s[j]
  <2>1. PICK m, n \in DOMAIN t : m < n /\ t[m] = s[i] /\ t[n] = s[j]
    BY <1>2 DEF InOrderOf
  <2> QED BY <2>1 DEF InOrderOf
<1> QED BY <1>1, <1>2 DEF InOrderOf

\* What comes last stays last.
LEMMA LastStaysLast ==
  ASSUME NEW T, NEW s \in Seq(T), NEW h \in Seq(T), NEW e \in T, InOrderOf(s, h)
  PROVE  InOrderOf(Append(s, e), Append(h, e))
<1> DEFINE u == Append(s, e)
           g == Append(h, e)
<1>1. /\ u \in Seq(T) /\ Len(u) = Len(s) + 1 /\ u[Len(u)] = e
      /\ \A i \in 1..Len(s) : u[i] = s[i]
  OBVIOUS
<1>2. /\ g \in Seq(T) /\ Len(g) = Len(h) + 1 /\ g[Len(g)] = e
      /\ \A i \in 1..Len(h) : g[i] = h[i]
  OBVIOUS
<1>3. DOMAIN s = 1..Len(s) /\ DOMAIN h = 1..Len(h) /\ Len(s) \in Nat /\ Len(h) \in Nat
  OBVIOUS
<1> HIDE DEF u, g
<1>4. DOMAIN u = 1..(Len(s) + 1) /\ DOMAIN g = 1..(Len(h) + 1)
  BY <1>1, <1>2
<1>5. ASSUME NEW i \in DOMAIN u PROVE \E k \in DOMAIN g : g[k] = u[i]
  <2>1. CASE i \in DOMAIN s
    <3>1. PICK k \in DOMAIN h : h[k] = s[i]
      BY <2>1 DEF InOrderOf
    <3> QED BY <3>1, <2>1, <1>1, <1>2, <1>3, <1>4
  <2>2. CASE i = Len(s) + 1
    BY <2>2, <1>1, <1>2, <1>3, <1>4
  <2> QED BY <2>1, <2>2, <1>3, <1>4
<1>6. ASSUME NEW i \in DOMAIN u, NEW j \in DOMAIN u, i < j
      PROVE  \E k, l \in DOMAIN g : k < l /\ g[k] = u[i] /\ g[l] = u[j]
  <2>0. i \in DOMAIN s
    BY <1>6, <1>3, <1>4
  <2>1. CASE j \in DOMAIN s
    <3>1. PICK k, l \in DOMAIN h : k < l /\ h[k] = s[i] /\ h[l] = s[j]
      BY <1>6, <2>0, <2>1 DEF InOrderOf
    <3>2. k \in DOMAIN g /\ l \in DOMAIN g /\ g[k] = u[i] /\ g[l] = u[j]
      BY <3>1, <2>0, <2>1, <1>1, <1>2, <1>3, <1>4
    <3> QED BY <3>1, <3>2
  <2>2. CASE j = Len(s) + 1
    <3>1. PICK k \in DOMAIN h : h[k] = s[i]
      BY <2>0 DEF InOrderOf
    <3>2. k \in DOMAIN g /\ g[k] = u[i] /\ k < Len(g) /\ Len(g) \in DOMAIN g /\ g[Len(g)] = u[j]
      BY <3>1, <2>0, <2>2, <1>1, <1>2, <1>3, <1>4
    <3> QED BY <3>2
  <2> QED BY <2>1, <2>2, <1>3, <1>4
<1> QED BY <1>5, <1>6 DEF InOrderOf, u, g

\* Leaving out of the second part leaves out of the whole.
LEMMA LeftOfSecond ==
  ASSUME NEW T, NEW a \in Seq(T), NEW s \in Seq(T), NEW t \in Seq(T), InOrderOf(s, t)
  PROVE  InOrderOf(a \o s, a \o t)
<1> DEFINE u == a \o s
           g == a \o t
           n == Len(a)
<1>1. /\ DOMAIN u = 1..(n + Len(s)) /\ \A i \in 1..n : u[i] = a[i]
      /\ \A i \in (n + 1)..(n + Len(s)) : u[i] = s[i - n]
  OBVIOUS
<1>2. /\ DOMAIN g = 1..(n + Len(t)) /\ \A i \in 1..n : g[i] = a[i]
      /\ \A i \in 1..Len(t) : g[i + n] = t[i]
  OBVIOUS
<1>3. DOMAIN s = 1..Len(s) /\ DOMAIN t = 1..Len(t) /\ Len(s) \in Nat /\ Len(t) \in Nat /\ n \in Nat
  OBVIOUS
<1> HIDE DEF u, g, n
<1>4. ASSUME NEW i \in DOMAIN u PROVE \E k \in DOMAIN g : g[k] = u[i] /\ (i \in 1..n => k = i) /\ (i \notin 1..n => k > n)
  <2>1. CASE i \in 1..n
    BY <2>1, <1>1, <1>2, <1>3
  <2>2. CASE i \notin 1..n
    <3>0. i - n \in DOMAIN s /\ u[i] = s[i - n]
      BY <2>2, <1>1, <1>3
    <3>1. PICK k \in DOMAIN t : t[k] = s[i - n]
      BY <3>0 DEF InOrderOf
    <3>2. k + n \in DOMAIN g /\ g[k + n] = u[i] /\ k + n > n
      BY <3>0, <3>1, <1>2, <1>3
    <3> QED BY <3>2, <2>2
  <2> QED BY <2>1, <2>2
<1>5. ASSUME NEW i \in DOMAIN u, NEW j \in DOMAIN u, i < j
      PROVE  \E k, l \in DOMAIN g : k < l /\ g[k] = u[i] /\ g[l] = u[j]
  <2>1. CASE i \in 1..n
    <3>1. PICK l \in DOMAIN g : g[l] = u[j] /\ (j \in 1..n => l = j) /\ (j \notin 1..n => l > n)
      BY <1>4
    <3>2. i < l /\ i \in DOMAIN g /\ g[i] = u[i]
      BY <3>1, <2>1, <1>5, <1>1, <1>2, <1>3
    <3> QED BY <3>1, <3>2
  <2>2. CASE i \notin 1..n
    <3>1. i - n \in DOMAIN s /\ j - n \in DOMAIN s /\ i - n < j - n /\ u[i] = s[i - n] /\ u[j] = s[j - n]
      BY <2>2, <1>5, <1>1, <1>3
    <3>2. PICK k, l \in DOMAIN t : k < l /\ t[k] = s[i - n] /\ t[l] = s[j - n]
      BY <3>1 DEF InOrderOf
    <3>3. k + n \in DOMAIN g /\ l + n \in DOMAIN g /\ g[k + n] = u[i] /\ g[l + n] = u[j] /\ k + n < l + n
      BY <3>1, <3>2, <1>2, <1>3
    <3> QED BY <3>3
  <2> QED BY <2>1, <2>2
<1> QED BY <1>4, <1>5 DEF InOrderOf, u, g

\* The oldest and all of the queue may go.
LEMMA OldestGoes ==
  ASSUME NEW T, NEW s \in Seq(T)
  PROVE  InOrderOf(<<>>, s) /\ InOrderOf(s, s) /\ (s # <<>> => InOrderOf(Tail(s), s))
<1>1. InOrderOf(<<>>, s) /\ InOrderOf(s, s)
  BY DEF InOrderOf
<1>2. ASSUME s # <<>> PROVE InOrderOf(Tail(s), s)
  <2>1. /\ DOMAIN Tail(s) = 1..(Len(s) - 1) /\ DOMAIN s = 1..Len(s) /\ Len(s) \in Nat
        /\ \A i \in 1..(Len(s) - 1) : Tail(s)[i] = s[i + 1]
    BY <1>2
  <2> DEFINE u == Tail(s)
  <2> HIDE DEF u
  <2>2. \A i \in DOMAIN u : i \in Nat /\ i + 1 \in DOMAIN s /\ u[i] = s[i + 1]
    BY <2>1 DEF u
  <2>3. ASSUME NEW i \in DOMAIN u, NEW j \in DOMAIN u, i < j
        PROVE  \E k, l \in DOMAIN s : k < l /\ s[k] = u[i] /\ s[l] = u[j]
    <3>1. i + 1 < j + 1
      BY <2>2, <2>3
    <3> QED BY <2>2, <3>1
  <2>4. InOrderOf(u, s)
    BY <2>2, <2>3 DEF InOrderOf
  <2> QED BY <2>4 DEF u
<1> QED BY <1>1, <1>2

\* Every place of a finite set of numbers is somebody's.
LEMMA NthExists ==
  ASSUME NEW S \in SUBSET Nat, IsFiniteSet(S), NEW n \in 1..Cardinality(S)
  PROVE  Nth(S, n) \in S /\ Cardinality({j \in S : j < Nth(S, n)}) = n - 1
<1> DEFINE Below(i) == {j \in S : j < i}
           rank == [i \in S |-> Cardinality(Below(i)) + 1]
<1>1. Cardinality(S) \in Nat
  BY FS_CardinalityType
<1>2. ASSUME NEW i \in S
      PROVE  /\ IsFiniteSet(Below(i)) /\ Cardinality(Below(i)) \in Nat
             /\ Cardinality(Below(i)) < Cardinality(S)
  <2>1. Below(i) \in SUBSET S /\ i \notin Below(i)
    OBVIOUS
  <2>2. IsFiniteSet(Below(i)) /\ Cardinality(Below(i)) <= Cardinality(S)
        /\ (Cardinality(S) = Cardinality(Below(i)) => S = Below(i))
    BY <2>1, FS_Subset
  <2>3. Cardinality(Below(i)) \in Nat
    BY <2>2, FS_CardinalityType
  <2> QED BY <2>1, <2>2, <2>3, <1>1
<1>3. ASSUME NEW i \in S, NEW k \in S, i < k
      PROVE  Cardinality(Below(i)) < Cardinality(Below(k))
  <2>1. Below(i) \in SUBSET Below(k) /\ i \in Below(k) /\ i \notin Below(i)
    <3>1. \A j \in S : j < i => j < k
      BY <1>3
    <3>2. ~(i < i)
      OBVIOUS
    <3> QED BY <3>1, <3>2, <1>3
  <2>2. Cardinality(Below(i)) <= Cardinality(Below(k))
        /\ (Cardinality(Below(k)) = Cardinality(Below(i)) => Below(k) = Below(i))
    BY <2>1, <1>2, FS_Subset
  <2> QED BY <2>1, <2>2, <1>2
<1>4. rank \in [S -> 1..Cardinality(S)]
  BY <1>1, <1>2
<1>5. ASSUME NEW i \in S, NEW k \in S, rank[i] = rank[k] PROVE i = k
  <2>1. Cardinality(Below(i)) = Cardinality(Below(k))
    BY <1>5, <1>2
  <2>2. ~(i < k) /\ ~(k < i)
    BY <2>1, <1>2, <1>3
  <2> QED BY <2>2
<1>6. rank \in Injection(S, 1..Cardinality(S))
  BY <1>4, <1>5 DEF Injection, IsInjective
<1>7. IsFiniteSet(1..Cardinality(S)) /\ Cardinality(1..Cardinality(S)) = Cardinality(S)
  BY <1>1, FS_Interval
<1>8. rank \in Surjection(S, 1..Cardinality(S))
  BY <1>6, <1>7, FS_Injection
<1>9. PICK i \in S : rank[i] = n
  BY <1>8 DEF Surjection
<1>10. Cardinality(Below(i)) = n - 1
  BY <1>9, <1>2, <1>1
<1> QED BY <1>10 DEF Nth

\* Cancelling keeps the events of the others, in their order.
LEMMA OthersStay ==
  ASSUME NEW w, queue \in Seq(Told)
  PROVE  /\ OfOthers(w) \in Seq(Told) /\ Len(OfOthers(w)) \in 0..Len(queue)
         /\ InOrderOf(OfOthers(w), queue)
         /\ \A n \in DOMAIN OfOthers(w) : OfOthers(w)[n][1] # w
<1> DEFINE S == Others(w)
           c == Cardinality(S)
<1>1. DOMAIN queue = 1..Len(queue) /\ Len(queue) \in Nat
  OBVIOUS
<1>2. IsFiniteSet(1..Len(queue)) /\ Cardinality(1..Len(queue)) = Len(queue)
  BY <1>1, FS_Interval
<1>3. S \in SUBSET (1..Len(queue)) /\ S \in SUBSET Nat
  BY <1>1 DEF Others
<1>4. IsFiniteSet(S) /\ c <= Len(queue)
  <2> HIDE DEF S
  <2> QED BY <1>2, <1>3, FS_Subset
<1>5. c \in Nat
  <2> HIDE DEF S
  <2> QED BY <1>4, FS_CardinalityType
<1>6. ASSUME NEW n \in 1..c
      PROVE  Nth(S, n) \in S /\ Cardinality({j \in S : j < Nth(S, n)}) = n - 1
  <2> HIDE DEF S
  <2> QED BY <1>3, <1>4, <1>6, NthExists
<1> DEFINE q == [n \in 1..c |-> queue[Nth(S, n)]]
<1>7. OfOthers(w) = q
  BY DEF OfOthers
<1>8. ASSUME NEW n \in 1..c
      PROVE  Nth(S, n) \in DOMAIN queue /\ queue[Nth(S, n)][1] # w /\ queue[Nth(S, n)] \in Told
  <2>1. Nth(S, n) \in S
    BY <1>6
  <2> QED BY <2>1 DEF Others
<1>9. ASSUME NEW m \in 1..c, NEW n \in 1..c, m < n PROVE Nth(S, m) < Nth(S, n)
  <2> HIDE DEF S
  <2> DEFINE A == {j \in S : j < Nth(S, m)}
             B == {j \in S : j < Nth(S, n)}
  <2>1. Nth(S, m) \in Nat /\ Nth(S, n) \in Nat /\ Cardinality(A) = m - 1 /\ Cardinality(B) = n - 1
    BY <1>3, <1>6
  <2>2. ASSUME Nth(S, n) <= Nth(S, m) PROVE FALSE
    <3>1. B \in SUBSET A /\ A \in SUBSET S
      <4>1. \A j \in S : j < Nth(S, n) => j < Nth(S, m)
        BY <2>1, <2>2, <1>3
      <4> QED BY <4>1
    <3>2. Cardinality(B) <= Cardinality(A)
      <4> HIDE DEF A, B
      <4> QED BY <3>1, <1>4, FS_Subset
    <3> QED BY <3>2, <2>1, <1>9, <1>5
  <2> QED BY <2>1, <2>2
<1> HIDE DEF S, c
<1>10. DOMAIN q = 1..c /\ q \in Seq(Told) /\ Len(q) = c
  <2>1. q \in [1..c -> Told]
    BY <1>8
  <2> HIDE DEF q
  <2> QED BY <2>1, <1>5
<1>11. \A n \in 1..c : q[n] = queue[Nth(S, n)]
  OBVIOUS
<1> HIDE DEF q
<1>12. InOrderOf(q, queue)
  BY <1>8, <1>9, <1>10, <1>11 DEF InOrderOf
<1> QED BY <1>1, <1>4, <1>5, <1>7, <1>8, <1>10, <1>11, <1>12

---------------------------------------------------------------------------
\* What was issued is told, queued, or counted, and the supervisor hears it in
\* the order it happened.
QueueInv ==
  /\ queue \in Seq(Told) /\ issued \in Seq(Told) /\ told \in Seq(Told)
  /\ omitted \in Nat /\ accounted \in Nat
  /\ Len(issued) = Len(told) + Len(queue) + omitted + accounted
  /\ \A k, l \in DOMAIN issued : issued[k] = issued[l] => k = l
  /\ InOrderOf(told \o queue, issued)

\* A line was seen, and an end has ended its watch.
Said(e, lines, states) == IF e[2] \in Lines THEN e[2] \in lines[e[1]] ELSE states[e[1]] = "ended"

\* A withdrawn watch has ended and nothing of it waits.
SaidInv ==
  /\ seen \in [Watches -> SUBSET Lines]
  /\ withdrawn \subseteq Watches
  /\ \A w \in withdrawn : watch[w] = "ended"
  /\ \A k \in DOMAIN issued : Said(issued[k], seen, watch)
  /\ \A i \in DOMAIN queue : queue[i][1] \notin withdrawn

NoteInv == QueueInv /\ SaidInv

\* The queue is emptied: all that waited is counted.
LEMMA Emptied ==
  ASSUME QueueInv, EmptyQueue
  PROVE  QueueInv'
<1>1. InOrderOf(told \o <<>>, issued)
  <2>1. InOrderOf(<<>>, queue) /\ <<>> \in Seq(Told)
    BY OldestGoes DEF QueueInv
  <2>2. InOrderOf(told \o <<>>, told \o queue)
    BY <2>1, LeftOfSecond DEF QueueInv
  <2> QED BY <2>2, LeftOfLeft DEF QueueInv
<1>2. InOrderOf(told' \o queue', issued')
  BY <1>1 DEF EmptyQueue
<1>3. queue' \in Seq(Told) /\ Len(queue') = 0 /\ omitted' = 0
      /\ accounted' = accounted + Len(queue) + omitted
      /\ issued' = issued /\ told' = told
  BY DEF EmptyQueue
<1>4. Len(queue) \in Nat /\ Len(told) \in Nat /\ Len(issued) \in Nat
  BY DEF QueueInv
<1>5. accounted' \in Nat /\ Len(issued') = Len(told') + Len(queue') + omitted' + accounted'
  BY <1>3, <1>4 DEF QueueInv
<1> QED BY <1>2, <1>3, <1>5 DEF QueueInv

\* A new event joins the queue, the oldest making room when it is full.
LEMMA Joined ==
  ASSUME QueueInv, NEW e \in Told, \A k \in DOMAIN issued : issued[k] # e, Notify(e)
  PROVE  QueueInv'
<1> DEFINE full == Len(queue) >= Backlog
           rest == IF full THEN Tail(queue) ELSE queue
<1>1. Len(queue) \in Nat /\ Len(told) \in Nat /\ Len(issued) \in Nat /\ Backlog \in Nat \ {0}
  BY WakeAssumption DEF QueueInv
<1>2. full => queue # <<>>
  BY <1>1
<1>3. rest \in Seq(Told) /\ Len(rest) = Len(queue) - (IF full THEN 1 ELSE 0)
  BY <1>1, <1>2 DEF QueueInv
<1>4. queue' = Append(rest, e) /\ omitted' = omitted + (IF full THEN 1 ELSE 0)
  BY DEF Notify, Push, QueueInv
<1>5. issued' = Append(issued, e) /\ told' = told /\ accounted' = accounted
  BY DEF Notify
<1>6. InOrderOf(rest, queue)
  BY <1>2, OldestGoes DEF QueueInv
<1> HIDE DEF rest, full
<1>7. InOrderOf(told \o rest, issued)
  <2>1. InOrderOf(told \o rest, told \o queue)
    BY <1>3, <1>6, LeftOfSecond DEF QueueInv
  <2> QED BY <2>1, LeftOfLeft DEF QueueInv
<1>8. told \o rest \in Seq(Told) /\ told \o Append(rest, e) = Append(told \o rest, e)
  BY <1>3 DEF QueueInv
<1>9. InOrderOf(told' \o queue', issued')
  <2>1. InOrderOf(Append(told \o rest, e), Append(issued, e))
    BY <1>7, <1>8, LastStaysLast DEF QueueInv
  <2> QED BY <2>1, <1>4, <1>5, <1>8
<1>10. /\ queue' \in Seq(Told) /\ Len(queue') = Len(rest) + 1
       /\ issued' \in Seq(Told) /\ Len(issued') = Len(issued) + 1
       /\ DOMAIN issued' = 1..(Len(issued) + 1) /\ DOMAIN issued = 1..Len(issued)
       /\ issued'[Len(issued) + 1] = e /\ \A n \in 1..Len(issued) : issued'[n] = issued[n]
  <2>1. issued \in Seq(Told)
    BY DEF QueueInv
  <2>2. queue' \in Seq(Told) /\ Len(queue') = Len(rest) + 1
    BY <1>3, <1>4
  <2> QED BY <2>1, <2>2, <1>5
<1>11. omitted' \in Nat /\ Len(issued') = Len(told') + Len(queue') + omitted' + accounted'
  <2>1. /\ omitted \in Nat /\ accounted \in Nat
        /\ Len(issued) = Len(told) + Len(queue) + omitted + accounted
    BY DEF QueueInv
  <2>2. /\ Len(told') = Len(told) /\ accounted' = accounted
        /\ Len(issued') = Len(issued) + 1 /\ Len(queue') = Len(rest) + 1
    BY <1>5, <1>10
  <2>3. CASE full
    <3>1. Len(rest) = Len(queue) - 1 /\ omitted' = omitted + 1
      BY <2>3, <1>3, <1>4
    <3> QED BY <2>1, <2>2, <3>1, <1>1
  <2>4. CASE ~full
    <3>1. Len(rest) = Len(queue) /\ omitted' = omitted
      BY <2>1, <2>4, <1>1, <1>3, <1>4
    <3> QED BY <2>1, <2>2, <3>1, <1>1
  <2> QED BY <2>3, <2>4
<1>12. ASSUME NEW k \in DOMAIN issued', NEW l \in DOMAIN issued', issued'[k] = issued'[l]
       PROVE  k = l
  <2>1. \A m, n \in DOMAIN issued : issued[m] = issued[n] => m = n
    BY DEF QueueInv
  <2> QED BY <2>1, <1>1, <1>10, <1>12
<1> QED BY <1>5, <1>9, <1>10, <1>11, <1>12 DEF QueueInv

\* The events of a cancelled watch are withdrawn.
LEMMA Discarded ==
  ASSUME QueueInv, NEW w, Discarding(w), UNCHANGED <<omitted, issued, told>>
  PROVE  QueueInv'
<1>1. OfOthers(w) \in Seq(Told) /\ Len(OfOthers(w)) \in 0..Len(queue) /\ InOrderOf(OfOthers(w), queue)
  BY OthersStay DEF QueueInv
<1>2. queue' = OfOthers(w) /\ accounted' = accounted + Len(queue) - Len(queue')
  BY DEF Discarding
<1>3. InOrderOf(told \o queue', issued)
  <2>1. InOrderOf(told \o queue', told \o queue)
    BY <1>1, <1>2, LeftOfSecond DEF QueueInv
  <2> QED BY <2>1, LeftOfLeft DEF QueueInv
<1>4. /\ Len(queue) \in Nat /\ omitted \in Nat /\ accounted \in Nat
      /\ Len(issued) = Len(told) + Len(queue) + omitted + accounted
      /\ Len(told) \in Nat /\ Len(told') = Len(told) /\ Len(issued') = Len(issued) /\ omitted' = omitted
  BY DEF QueueInv
<1>5. accounted' \in Nat /\ Len(issued') = Len(told') + Len(queue') + omitted' + accounted'
  BY <1>1, <1>2, <1>4
<1> QED BY <1>1, <1>2, <1>3, <1>5 DEF QueueInv

\* A message takes the oldest events, and leaves the rest.
LEMMA Batches ==
  ASSUME QueueInv
  PROVE  /\ Batch \in Seq(Told) /\ AfterBatch \in Seq(Told)
         /\ Len(Batch) + Len(AfterBatch) = Len(queue)
         /\ \A i \in 1..Len(Batch) : i \in DOMAIN queue /\ Batch[i] = queue[i]
         /\ \A i \in 1..Len(AfterBatch) : i + Len(Batch) \in DOMAIN queue /\ AfterBatch[i] = queue[i + Len(Batch)]
         /\ (told \o Batch) \o AfterBatch = told \o queue
<1> DEFINE n == IF Len(queue) < BatchLimit THEN Len(queue) ELSE BatchLimit
           len == Len(queue)
<1>1. n \in 0..len /\ len \in Nat /\ DOMAIN queue = 1..len /\ queue \in Seq(Told)
  BY WakeAssumption DEF QueueInv
<1>2. Batch = SubSeq(queue, 1, n)
  BY DEF Batch
<1> HIDE DEF n
<1>3. Batch \in Seq(Told) /\ Len(Batch) = n /\ \A i \in 1..n : Batch[i] = queue[i]
  BY <1>1, <1>2
<1>4. AfterBatch = SubSeq(queue, n + 1, len)
  BY <1>3 DEF AfterBatch
<1>5. AfterBatch \in Seq(Told) /\ Len(AfterBatch) = len - n
      /\ \A i \in 1..(len - n) : AfterBatch[i] = queue[i + n]
  <2> HIDE DEF len
  <2>1. AfterBatch \in Seq(Told) /\ Len(AfterBatch) = len - n
    BY <1>1, <1>4
  <2>2. ASSUME NEW i \in 1..(len - n) PROVE AfterBatch[i] = queue[i + n]
    <3>1. AfterBatch[i] = queue[(n + 1) + i - 1] /\ (n + 1) + i - 1 = i + n
      BY <1>1, <1>4
    <3> QED BY <3>1
  <2> QED BY <2>1, <2>2
<1>6. (told \o Batch) \o AfterBatch = told \o queue
  <2> DEFINE a == told \o Batch
             s == a \o AfterBatch
             g == told \o queue
             m == Len(told)
  <2>1. m \in Nat /\ told \in Seq(Told)
    BY DEF QueueInv
  <2>2. a \in Seq(Told) /\ Len(a) = m + n /\ (\A i \in 1..m : a[i] = told[i])
        /\ \A i \in (m + 1)..(m + n) : a[i] = queue[i - m]
    BY <2>1, <1>1, <1>3
  <2>3. g \in Seq(Told) /\ Len(g) = m + len /\ (\A i \in 1..m : g[i] = told[i])
        /\ \A i \in (m + 1)..(m + len) : g[i] = queue[i - m]
    BY <2>1, <1>1
  <2> HIDE DEF a, g
  <2>4. s \in Seq(Told) /\ Len(s) = m + len /\ (\A i \in 1..(m + n) : s[i] = a[i])
        /\ \A i \in (m + n + 1)..(m + len) : s[i] = AfterBatch[i - (m + n)]
    <3> DEFINE b == AfterBatch
               c == m + n
    <3>1. b \in Seq(Told) /\ Len(b) = len - n /\ s = a \o b /\ Len(a) = c /\ c \in Nat
      BY <2>1, <2>2, <1>1, <1>5
    <3>2. c + Len(b) = m + len
      BY <3>1, <2>1, <1>1
    <3> HIDE DEF b, s, c
    <3>3. s \in Seq(Told) /\ Len(s) = c + Len(b) /\ (\A i \in 1..c : s[i] = a[i])
          /\ \A i \in (c + 1)..(c + Len(b)) : s[i] = b[i - c]
      <4>1. /\ s \in Seq(Told) /\ Len(s) = c + Len(b)
            /\ \A i \in 1..(c + Len(b)) : s[i] = IF i <= c THEN a[i] ELSE b[i - c]
        BY <3>1, <2>2, ConcatProperties
      <4>2. Len(b) \in Nat
        BY <3>1
      <4> QED BY <4>1, <4>2, <3>1
    <3> QED BY <3>2, <3>3 DEF b, c
  <2> HIDE DEF s, m, len
  <2>5. ASSUME NEW i \in 1..(m + len) PROVE s[i] = g[i]
    <3>1. CASE i \in 1..m
      BY <3>1, <2>1, <2>2, <2>3, <2>4, <1>1
    <3>2. CASE i \in (m + 1)..(m + n)
      BY <3>2, <2>1, <2>2, <2>3, <2>4, <1>1
    <3>3. CASE i \in (m + n + 1)..(m + len)
      <4>1. i - (m + n) \in 1..(len - n) /\ (i - (m + n)) + n = i - m
        BY <3>3, <2>1, <1>1
      <4> QED BY <4>1, <3>3, <2>1, <2>3, <2>4, <1>1, <1>5
    <3> QED BY <3>1, <3>2, <3>3, <2>1, <1>1
  <2>6. s = g
    BY <2>1, <2>3, <2>4, <2>5, <1>1
  <2> QED BY <2>6 DEF s, a, g
<1> QED BY <1>1, <1>3, <1>5, <1>6

LEMMA Delivered ==
  ASSUME QueueInv, NEW open, TellerDelivers(open)
  PROVE  QueueInv'
<1>1. told' = told \o Batch /\ queue' = AfterBatch /\ omitted' = 0 /\ accounted' = accounted + omitted
      /\ issued' = issued
  BY DEF TellerDelivers
<1>2. told' \in Seq(Told) /\ queue' \in Seq(Told) /\ told' \o queue' = told \o queue
      /\ Len(told') = Len(told) + Len(Batch) /\ Len(queue') = Len(queue) - Len(Batch)
      /\ Len(Batch) \in Nat /\ Len(queue) \in Nat /\ Len(told) \in Nat
  <2> DEFINE a == Batch
             b == AfterBatch
  <2>1. a \in Seq(Told) /\ b \in Seq(Told) /\ Len(a) + Len(b) = Len(queue)
        /\ (told \o a) \o b = told \o queue
    BY Batches
  <2>2. told \in Seq(Told) /\ queue \in Seq(Told)
    BY DEF QueueInv
  <2>3. told' = told \o a /\ queue' = b
    BY <1>1
  <2> HIDE DEF a, b
  <2>4. Len(a) \in Nat /\ Len(b) \in Nat /\ Len(queue) \in Nat /\ Len(told) \in Nat
    BY <2>1, <2>2
  <2>5. told \o a \in Seq(Told) /\ Len(told \o a) = Len(told) + Len(a)
    BY <2>1, <2>2, ConcatProperties
  <2>6. Len(b) = Len(queue) - Len(a)
    BY <2>1, <2>4
  <2> QED BY <2>1, <2>3, <2>4, <2>5, <2>6 DEF a
<1>3. accounted' \in Nat /\ Len(issued') = Len(told') + Len(queue') + omitted' + accounted'
  <2>1. /\ omitted \in Nat /\ accounted \in Nat
        /\ Len(issued) = Len(told) + Len(queue) + omitted + accounted
    BY DEF QueueInv
  <2>2. Len(issued') = Len(issued) /\ omitted' = 0 /\ accounted' = accounted + omitted
    BY <1>1
  <2>3. Len(told') = Len(told) + Len(Batch) /\ Len(queue') = Len(queue) - Len(Batch)
    BY <1>2
  <2>4. Len(Batch) \in Nat /\ Len(queue) \in Nat /\ Len(told) \in Nat
    BY <1>2
  <2> QED BY <2>1, <2>2, <2>3, <2>4
<1> QED BY <1>1, <1>2, <1>3 DEF QueueInv

\* Watches end and lines are seen once and for all.
Onward ==
  /\ \A w \in Watches : watch[w] = "ended" => watch'[w] = "ended"
  /\ \A w \in Watches : seen[w] \subseteq seen'[w]
  /\ seen' \in [Watches -> SUBSET Lines]

\* A step onward that announces no event and queues none keeps what is said.
LEMMA NothingNew ==
  ASSUME NoteInv, Onward, UNCHANGED issued,
         withdrawn' \subseteq Watches, \A w \in withdrawn' : watch'[w] = "ended",
         \A i \in DOMAIN queue' : queue'[i][1] \notin withdrawn'
  PROVE  SaidInv'
<1>1. ASSUME NEW k \in DOMAIN issued' PROVE Said(issued'[k], seen', watch')
  <2>1. k \in DOMAIN issued /\ issued[k] \in Told /\ Said(issued[k], seen, watch) /\ issued' = issued
    BY DEF NoteInv, QueueInv, SaidInv
  <2> DEFINE e == issued[k]
  <2>2. e[1] \in Watches
    BY <2>1 DEF Told
  <2>3. IF e[2] \in Lines THEN e[2] \in seen'[e[1]] ELSE watch'[e[1]] = "ended"
    BY <2>1, <2>2 DEF Said, Onward
  <2> QED BY <2>1, <2>3 DEF Said
<1> QED BY <1>1 DEF Onward, SaidInv

\* Only the queue's timer and the rest of the session move.
LEMMA QueueStill ==
  ASSUME NoteInv, Onward, UNCHANGED <<queue, omitted, issued, told, accounted, withdrawn>>
  PROVE  NoteInv'
<1>1. QueueInv'
  BY DEF NoteInv, QueueInv
<1>2. SaidInv'
  BY NothingNew DEF NoteInv, SaidInv, Onward
<1> QED BY <1>1, <1>2 DEF NoteInv

\* Nothing happens to watches and their lines.
LEMMA SameWatches ==
  ASSUME NoteInv, UNCHANGED <<watch, seen>>
  PROVE  Onward
BY DEF Onward, NoteInv, SaidInv

\* What the end of some watches does to the others.
LEMMA LeftOnward ==
  ASSUME NEW G, NEW C, NEW kind, NEW p, Leave(G, C, kind, p), ManagerInv,
         \A w \in Watches : seen[w] \subseteq seen'[w], seen' \in [Watches -> SUBSET Lines]
  PROVE  Onward
BY DEF Leave, Onward, ManagerInv

\* The permission is lost, or the session ends: all is withdrawn.
LEMMA AllWithdrawn ==
  ASSUME NoteInv, ManagerInv, NEW G \in SUBSET Active, NEW kind, NEW p, CancelAll(G, kind, p),
         \A w \in Watches : seen[w] \subseteq seen'[w], seen' \in [Watches -> SUBSET Lines]
  PROVE  NoteInv'
<1>1. Leave(G, Active \ G, kind, p) /\ EmptyQueue
  BY DEF CancelAll
<1>2. Onward
  BY <1>1, LeftOnward
<1>3. QueueInv'
  BY <1>1, Emptied DEF NoteInv
<1>4. withdrawn' \subseteq Watches
  BY <1>1 DEF EmptyQueue, NoteInv, SaidInv
<1>5. ASSUME NEW w \in withdrawn' PROVE watch'[w] = "ended"
  <2>1. CASE w \in withdrawn
    BY <2>1, <1>2 DEF NoteInv, SaidInv, Onward
  <2>2. CASE w \in Watches /\ watch[w] # "unborn"
    BY <2>2, <1>1 DEF Leave, ManagerInv, Active
  <2> QED BY <2>1, <2>2, <1>1 DEF EmptyQueue
<1>6. DOMAIN queue' = {}
  BY <1>1 DEF EmptyQueue
<1>7. SaidInv'
  BY <1>1, <1>2, <1>4, <1>5, <1>6, NothingNew DEF EmptyQueue
<1> QED BY <1>3, <1>7 DEF NoteInv

\* An event of an active watch, a new line or its end.
LEMMA EventNoted ==
  ASSUME NoteInv, ManagerInv, NEW w \in Active, NEW what \in Lines \cup Ends, NEW kind,
         NEW terminal \in BOOLEAN, NEW p, OnEvent(w, what, kind, terminal, p),
         \A v \in Watches : seen[v] \subseteq seen'[v], seen' \in [Watches -> SUBSET Lines],
         IF what \in Lines THEN what \in seen'[w] \ seen[w] ELSE terminal
  PROVE  NoteInv'
<1> DEFINE G == IF terminal THEN {w} ELSE {}
           e == <<w, what>>
<1>1. CASE ~CanRun
  <2>1. G \in SUBSET Active /\ CancelAll(G, kind, p)
    BY <1>1 DEF OnEvent
  <2> HIDE DEF G
  <2> QED BY <2>1, AllWithdrawn
<1>2. CASE CanRun
  <2>1. Leave(G, {}, kind, p) /\ Notify(e)
    BY <1>2 DEF OnEvent
  <2>2. Onward
    <3> HIDE DEF G
    <3> QED BY <2>1, LeftOnward
  <2>3. e \in Told /\ w \in Watches /\ watch[w] = "active"
    BY DEF Told, Active
  <2>4. ASSUME NEW k \in DOMAIN issued PROVE issued[k] # e
    <3>1. ASSUME issued[k] = e PROVE FALSE
      <4>1. Said(e, seen, watch)
        BY <3>1 DEF NoteInv, SaidInv
      <4>2. IF what \in Lines THEN what \in seen[w] ELSE watch[w] = "ended"
        BY <4>1 DEF Said
      <4> QED BY <4>2, <2>3
    <3> QED BY <3>1
  <2>5. QueueInv'
    BY <2>1, <2>3, <2>4, Joined DEF NoteInv
  <2>6. ASSUME NEW k \in DOMAIN issued' PROVE Said(issued'[k], seen', watch')
    <3>1. issued' = Append(issued, e) /\ issued \in Seq(Told) /\ Len(issued) \in Nat
      BY <2>1 DEF Notify, NoteInv, QueueInv
    <3>2. DOMAIN issued' = 1..(Len(issued) + 1) /\ DOMAIN issued = 1..Len(issued)
          /\ issued'[Len(issued) + 1] = e /\ \A n \in 1..Len(issued) : issued'[n] = issued[n]
      BY <3>1, <2>3
    <3>3. CASE k \in DOMAIN issued
      <4> DEFINE d == issued[k]
      <4>1. d \in Told /\ Said(d, seen, watch) /\ issued'[k] = d
        BY <3>1, <3>2, <3>3 DEF NoteInv, SaidInv
      <4>2. d[1] \in Watches
        BY <4>1 DEF Told
      <4>3. IF d[2] \in Lines THEN d[2] \in seen'[d[1]] ELSE watch'[d[1]] = "ended"
        BY <4>1, <4>2, <2>2 DEF Said, Onward
      <4> QED BY <4>1, <4>3 DEF Said
    <3>4. CASE k = Len(issued) + 1
      <4>1. issued'[k] = e
        BY <3>2, <3>4
      <4>2. IF what \in Lines THEN what \in seen'[w] ELSE watch'[w] = "ended"
        BY <2>1, <2>3 DEF Leave
      <4> QED BY <4>1, <4>2 DEF Said
    <3> QED BY <3>1, <3>2, <3>3, <3>4
  <2>7. withdrawn' = withdrawn /\ w \notin withdrawn
    BY <2>1, <2>3 DEF Notify, NoteInv, SaidInv
  <2>8. ASSUME NEW i \in DOMAIN queue' PROVE queue'[i][1] \notin withdrawn'
    <3> DEFINE rest == IF Len(queue) >= Backlog THEN Tail(queue) ELSE queue
    <3>1. queue \in Seq(Told) /\ Len(queue) \in Nat /\ Backlog \in Nat \ {0}
      BY WakeAssumption DEF NoteInv, QueueInv
    <3>2. queue' = Append(rest, e)
      BY <2>1 DEF Notify, Push
    <3>3. rest \in Seq(Told) /\ \A n \in DOMAIN rest : \E m \in DOMAIN queue : rest[n] = queue[m]
      <4>1. CASE Len(queue) >= Backlog
        <5>1. queue # <<>> /\ InOrderOf(Tail(queue), queue)
          BY <3>1, <4>1, OldestGoes
        <5> QED BY <3>1, <4>1, <5>1 DEF InOrderOf
      <4>2. CASE ~(Len(queue) >= Backlog)
        BY <3>1, <4>2
      <4> QED BY <4>1, <4>2
    <3> HIDE DEF rest
    <3>4. i \in DOMAIN rest \/ queue'[i] = e
      BY <3>2, <3>3, <2>3
    <3>5. CASE i \in DOMAIN rest
      <4>1. queue'[i] = rest[i]
        BY <3>2, <3>3, <3>5, <2>3
      <4> QED BY <4>1, <3>3, <3>5, <2>7 DEF NoteInv, SaidInv
    <3> QED BY <3>4, <3>5, <2>7
  <2>9. SaidInv'
    <3>1. withdrawn' \subseteq Watches /\ \A v \in withdrawn' : watch'[v] = "ended"
      BY <2>2, <2>7 DEF NoteInv, SaidInv, Onward
    <3> QED BY <2>2, <2>6, <2>8, <3>1 DEF SaidInv, Onward
  <2> QED BY <2>5, <2>9 DEF NoteInv
<1> QED BY <1>1, <1>2

\* A watch is cancelled with what it has said.
LEMMA CancelNoted ==
  ASSUME NoteInv, ManagerInv, NEW w \in Watches, CancelMonitor(w)
  PROVE  NoteInv'
<1>1. Discarding(w) /\ Leave({}, {w} \cap Active, "cancelled", proc)
      /\ withdrawn' = withdrawn \cup {w} /\ UNCHANGED <<seen, omitted, issued, told>>
      /\ watch[w] # "unborn"
  BY DEF CancelMonitor
<1>2. QueueInv'
  BY <1>1, Discarded DEF NoteInv
<1>3. Onward
  BY <1>1, LeftOnward DEF NoteInv, SaidInv
<1>4. watch'[w] = "ended"
  BY <1>1 DEF Leave, Active, ManagerInv
<1>5. ASSUME NEW v \in withdrawn' PROVE v \in Watches /\ watch'[v] = "ended"
  BY <1>1, <1>3, <1>4 DEF NoteInv, SaidInv, Onward
<1>6. ASSUME NEW i \in DOMAIN queue' PROVE queue'[i][1] \notin withdrawn'
  <2>1. queue' = OfOthers(w) /\ queue \in Seq(Told)
    BY <1>1 DEF Discarding, NoteInv, QueueInv
  <2>2. queue'[i][1] # w /\ \E m \in DOMAIN queue : queue[m] = queue'[i]
    BY <2>1, OthersStay DEF InOrderOf
  <2> QED BY <2>2, <1>1 DEF NoteInv, SaidInv
<1>7. SaidInv'
  BY <1>1, <1>3, <1>5, <1>6, NothingNew
<1> QED BY <1>2, <1>7 DEF NoteInv

\* A flush of the monitor notifier.
LEMMA TellerNotes ==
  ASSUME NoteInv, ManagerInv,
         (\E open \in BOOLEAN : TellerDelivers(open)) \/ TellerWaits \/ TellerWithdraws
  PROVE  NoteInv'
<1>1. CASE \E open \in BOOLEAN : TellerDelivers(open)
  <2>1. PICK open \in BOOLEAN : TellerDelivers(open)
    BY <1>1
  <2>2. QueueInv'
    BY <2>1, Delivered DEF NoteInv
  <2>3. Onward /\ issued' = issued /\ withdrawn' = withdrawn /\ watch' = watch /\ queue' = AfterBatch
    BY <2>1, SameWatches DEF TellerDelivers, managerVars
  <2>4. ASSUME NEW i \in DOMAIN queue' PROVE queue'[i][1] \notin withdrawn'
    <3>1. queue' \in Seq(Told) /\ DOMAIN queue' = 1..Len(AfterBatch)
      BY <2>2, <2>3 DEF QueueInv
    <3>2. i + Len(Batch) \in DOMAIN queue /\ queue'[i] = queue[i + Len(Batch)]
      BY <3>1, <2>3, Batches DEF NoteInv
    <3> QED BY <3>2, <2>3 DEF NoteInv, SaidInv
  <2>5. SaidInv'
    BY <2>3, <2>4, NothingNew DEF NoteInv, SaidInv
  <2> QED BY <2>2, <2>5 DEF NoteInv
<1>2. CASE TellerWaits
  BY <1>2, SameWatches, QueueStill DEF TellerWaits, CountIsKept, managerVars
<1>3. CASE TellerWithdraws
  <2>1. CancelAll({}, "cancelled", proc) /\ seen' = seen
    BY <1>3 DEF TellerWithdraws
  <2> QED BY <2>1, AllWithdrawn DEF NoteInv, SaidInv
<1> QED BY <1>1, <1>2, <1>3

LEMMA InitNotes == Init => NoteInv
<1> SUFFICES ASSUME Init PROVE NoteInv
  OBVIOUS
<1>1. queue = <<>> /\ issued = <<>> /\ told = <<>> /\ <<>> \in Seq(Told) /\ <<>> \o <<>> = <<>>
      /\ omitted = 0 /\ accounted = 0 /\ withdrawn = {}
  BY DEF Init, WakesStart
<1>2. InOrderOf(told \o queue, issued)
  BY <1>1 DEF InOrderOf
<1>3. QueueInv
  BY <1>1, <1>2 DEF QueueInv
<1>4. SaidInv
  BY <1>1 DEF Init, WakesStart, MonitorsInit, SaidInv
<1> QED BY <1>3, <1>4 DEF NoteInv

\* Every step keeps the account, the order, and the silence of what was withdrawn.
LEMMA StepNotes == WakeInv /\ NoteInv /\ [Next]_vars => NoteInv'
<1> SUFFICES ASSUME WakeInv, NoteInv, [Next]_vars PROVE NoteInv'
  OBVIOUS
<1>0. ManagerInv /\ seen \in [Watches -> SUBSET Lines] /\ Lines \cap Ends = {}
      /\ {"exit", "error", "timeout"} \subseteq Ends
  BY WakeAssumption DEF WakeInv, NoteInv, SaidInv, Ends
<1>1. ASSUME NEW w \in Watches, ArmMonitor(w) PROVE NoteInv'
  <2>1. Onward
    BY <1>0, <1>1 DEF ArmMonitor, Start, StartFails, Admissible, Onward, ManagerInv
  <2> QED BY <2>1, <1>1, QueueStill DEF ArmMonitor, queueVars
<1>2. ASSUME NEW w \in Watches, CancelMonitor(w) PROVE NoteInv'
  BY <1>0, <1>2, CancelNoted
<1>3. ASSUME NEW w \in Watches, Error(w) PROVE NoteInv'
  <2>1. w \in Active /\ seen' = seen /\ OnEvent(w, "error", "error", TRUE, proc)
    BY <1>3 DEF Error, Fails, Active
  <2> QED BY <2>1, <1>0, EventNoted
<1>4. ASSUME NEW w \in Watches, Timeout(w) PROVE NoteInv'
  <2>1. w \in Active /\ seen' = seen /\ OnEvent(w, "timeout", "timeout", TRUE, proc)
    BY <1>4 DEF Timeout, Expires, Active
  <2> QED BY <2>1, <1>0, EventNoted
<1>5. ASSUME NEW w \in Watches, Exit(w) PROVE NoteInv'
  <2>1. w \in Active /\ seen' = seen /\ OnEvent(w, "exit", "exit", TRUE, EndedFirst(w))
    BY <1>5 DEF Exit, Closes, Active
  <2> QED BY <2>1, <1>0, EventNoted
<1>6. ASSUME NEW w \in Watches, NEW l \in Lines, Line(w, l) PROVE NoteInv'
  <2>1. w \in Active /\ LastLine(w) \in BOOLEAN /\ OnEvent(w, l, "ended", LastLine(w), proc)
        /\ l \notin seen[w] /\ seen' = [seen EXCEPT ![w] = @ \cup {l}]
    BY <1>6 DEF Line, Prints, Active, LastLine
  <2>2. seen' \in [Watches -> SUBSET Lines] /\ (\A v \in Watches : seen[v] \subseteq seen'[v]) /\ l \in seen'[w]
    BY <2>1, <1>0
  <2> QED BY <2>1, <2>2, <1>0, EventNoted
<1>7. ASSUME NEW t \in Alarms, ArmAlarm(t) \/ CancelAlarm(t) \/ Fire(t) PROVE NoteInv'
  BY <1>7, SameWatches, QueueStill DEF ArmAlarm, CancelAlarm, Fire, managerVars, queueVars
<1>8. CASE RingTimerDelivers \/ RingTimerWaits
  BY <1>8, SameWatches, QueueStill DEF RingTimerDelivers, RingTimerWaits, RingTimer, managerVars, queueVars
<1>9. CASE TellTimerDelivers \/ TellTimerWaits
  <2>1. (\E open \in BOOLEAN : TellerDelivers(open)) \/ TellerWaits \/ TellerWithdraws
    BY <1>9 DEF TellTimerDelivers, TellTimerWaits, TellerDelivers
  <2> QED BY <2>1, <1>0, TellerNotes
<1>10. CASE Settles
  <2>1. (\E open \in BOOLEAN : TellerDelivers(open)) \/ TellerWaits \/ TellerWithdraws
    BY <1>10 DEF Settles
  <2> QED BY <2>1, <1>0, TellerNotes
<1>11. CASE TurnStarts \/ ToolsSwitched
  BY <1>11, SameWatches, QueueStill DEF TurnStarts, ToolsSwitched, managerVars, queueVars
<1>12. CASE PersonaChanges
  <2>1. CASE permitted
    <3>1. CancelAll({}, "cancelled", proc) /\ seen' = seen
      BY <1>12, <2>1 DEF PersonaChanges
    <3> QED BY <3>1, <1>0, AllWithdrawn
  <2>2. CASE ~permitted
    BY <1>12, <2>2, SameWatches, QueueStill DEF PersonaChanges, managerVars, queueVars
  <2> QED BY <2>1, <2>2
<1>13. CASE Shutdown
  <2>1. CancelAll({}, "cancelled", proc) /\ seen' = seen
    BY <1>13 DEF Shutdown
  <2> QED BY <2>1, <1>0, AllWithdrawn
<1>14. CASE UNCHANGED vars
  BY <1>14, SameWatches, QueueStill DEF vars, managerVars, queueVars
<1> QED BY <1>1, <1>2, <1>3, <1>4, <1>5, <1>6, <1>7, <1>8, <1>9, <1>10, <1>11, <1>12,
          <1>13, <1>14 DEF Next

---------------------------------------------------------------------------
\* A fired alarm waits in the timer notifier or was heard, until shutdown.
RungInv == ~disposed => \A t \in Alarms : alarm[t] = "rung" => t \in ringing \cup heard

LEMMA StepRung == WakeInv /\ RungInv /\ [Next]_vars => RungInv'
<1> SUFFICES ASSUME WakeInv, RungInv, [Next]_vars PROVE RungInv'
  OBVIOUS
<1>0. AlarmInv
  BY DEF WakeInv
<1>1. ASSUME NEW t \in Alarms, ArmAlarm(t) \/ CancelAlarm(t) PROVE RungInv'
  BY <1>0, <1>1 DEF ArmAlarm, CancelAlarm, modeVars, RungInv, AlarmInv
<1>2. ASSUME NEW t \in Alarms, Fire(t) PROVE RungInv'
  BY <1>0, <1>2 DEF Fire, Ringer!Enqueue, modeVars, RungInv, AlarmInv
<1>3. ASSUME NEW open, RingerDelivers(open) \/ RingerWaits(open), alarm' = alarm, disposed' = disposed
      PROVE  RungInv'
  <2>1. ringing \cup heard \subseteq ringing' \cup heard'
    BY <1>3 DEF RingerDelivers, RingerWaits, Ringer!FlushDelivers, Ringer!FlushHolds,
                Ringer!FlushThrows, Ringer!BatchOf, Ringer!Requeued
  <2> QED BY <2>1, <1>3 DEF RungInv
<1>4. ASSUME UNCHANGED <<alarm, ringing, heard, disposed>> PROVE RungInv'
  BY <1>4 DEF RungInv
<1>5. CASE RingTimerDelivers \/ RingTimerWaits
  BY <1>3, <1>5 DEF RingTimer, RingTimerDelivers, RingTimerWaits, modeVars
<1>6. CASE Settles
  BY <1>3, <1>6 DEF Settles
<1>7. CASE TellTimerDelivers \/ TellTimerWaits \/ TurnStarts \/ PersonaChanges \/ ToolsSwitched
  BY <1>4, <1>7 DEF TellTimerDelivers, TellTimerWaits, TellTimer, TurnStarts, PersonaChanges,
                    ToolsSwitched, alarmVars, modeVars
<1>8. CASE Shutdown
  BY <1>8 DEF Shutdown, RungInv
<1>9. ASSUME NEW w \in Watches, ArmMonitor(w) \/ CancelMonitor(w) PROVE RungInv'
  BY <1>4, <1>9 DEF ArmMonitor, CancelMonitor, alarmVars, modeVars
<1>10. ASSUME NEW w, NEW what, NEW kind, NEW terminal, NEW p, OnEvent(w, what, kind, terminal, p)
       PROVE  RungInv'
  BY <1>4, <1>10 DEF OnEvent, alarmVars, modeVars
<1>11. ASSUME NEW w \in Watches, Error(w) \/ Timeout(w) \/ Exit(w) \/ \E l \in Lines : Line(w, l)
       PROVE  RungInv'
  BY <1>10, <1>11 DEF Error, Timeout, Exit, Line
<1>12. CASE UNCHANGED vars
  BY <1>4, <1>12 DEF vars, alarmVars, modeVars
<1> QED BY <1>1, <1>2, <1>5, <1>6, <1>7, <1>8, <1>9, <1>11, <1>12 DEF Next

---------------------------------------------------------------------------
\* Every step keeps the account and the order of the events of the watches.
THEOREM NotesInvariant == Spec => []NoteInv
<1>1. WakeInv /\ NoteInv /\ [Next]_vars => (WakeInv /\ NoteInv)'
  BY StepWakes, StepNotes
<1> QED BY <1>1, InitWakes, InitNotes, PTL DEF Spec

\* Every event of a watch is told, queued, withdrawn or counted as omitted, and
\* the supervisor hears them in the order they happened (MONITORS.md:115,
\* session.ts:55).
THEOREM EventsAccounted == Spec => []NothingUnaccounted
<1>1. Init => RungInv
  BY DEF Init, WakesStart, RungInv
<1>2. WakeInv /\ RungInv /\ [Next]_vars => (WakeInv /\ RungInv)'
  BY StepWakes, StepRung
<1>3. NoteInv /\ RungInv => NothingUnaccounted
  <2> SUFFICES ASSUME NoteInv, RungInv PROVE NothingUnaccounted
    OBVIOUS
  <2>1. ToSet(told \o queue) \subseteq ToSet(issued)
    BY DEF NoteInv, QueueInv, InOrderOf, ToSet
  <2>2. \A i, j \in DOMAIN (told \o queue) :
          i < j => Before((told \o queue)[i], (told \o queue)[j])
    BY DEF NoteInv, QueueInv, InOrderOf, Before
  <2> QED BY <2>1, <2>2 DEF NoteInv, QueueInv, RungInv, NothingUnaccounted
<1> QED BY <1>1, <1>2, <1>3, InitWakes, NotesInvariant, PTL DEF Spec

\* Nothing of a watch that was cancelled, or that a lost permission stopped, is
\* told afterwards, and nothing is told without the permission (session.ts:34).
THEOREM WithdrawnIsSilent == Spec => SilentWhenWithdrawn
<1> DEFINE P == \A i \in (Len(told) + 1)..Len(told') : CanRun /\ told'[i][1] \notin withdrawn
<1>1. NoteInv /\ [Next]_vars => P
  <2> SUFFICES ASSUME NoteInv, [Next]_vars PROVE P
    OBVIOUS
  <2>1. ASSUME told' = told PROVE P
    BY <2>1 DEF NoteInv, QueueInv
  <2>2. ASSUME NEW open, TellerDelivers(open) PROVE P
    <3>1. CanRun /\ told' = told \o Batch
      BY <2>2 DEF TellerDelivers, MayTell
    <3>2. ASSUME NEW i \in (Len(told) + 1)..Len(told') PROVE told'[i][1] \notin withdrawn
      <4>1. told \in Seq(Told) /\ Batch \in Seq(Told) /\ Len(told) \in Nat /\ Len(Batch) \in Nat
        BY Batches DEF NoteInv, QueueInv
      <4>2. i - Len(told) \in 1..Len(Batch) /\ told'[i] = Batch[i - Len(told)]
        <5> DEFINE b == Batch
        <5> HIDE DEF b
        <5>1. b = Batch
          BY DEF b
        <5>2. Len(told') = Len(told) + Len(b)
          BY <3>1, <4>1, <5>1
        <5> QED BY <3>1, <4>1, <5>1, <5>2
      <4>3. \E m \in DOMAIN queue : told'[i] = queue[m]
        BY <4>2, Batches DEF NoteInv
      <4> QED BY <4>3 DEF NoteInv, SaidInv
    <3> QED BY <3>1, <3>2
  <2>3. ASSUME NEW G, NEW kind, NEW p, CancelAll(G, kind, p) PROVE told' = told
    BY <2>3 DEF CancelAll, EmptyQueue
  <2>4. ASSUME NEW w, NEW what, NEW kind, NEW terminal, NEW p, OnEvent(w, what, kind, terminal, p)
        PROVE  told' = told
    BY <2>3, <2>4 DEF OnEvent, Notify
  <2> HIDE DEF P
  <2>5. ASSUME NEW w \in Watches, ArmMonitor(w) \/ CancelMonitor(w) PROVE P
    BY <2>1, <2>5 DEF ArmMonitor, CancelMonitor, queueVars
  <2>6. ASSUME NEW w \in Watches, Error(w) \/ Timeout(w) \/ Exit(w) \/ \E l \in Lines : Line(w, l)
        PROVE  P
    BY <2>1, <2>4, <2>6 DEF Error, Timeout, Exit, Line
  <2>7. ASSUME NEW t \in Alarms, ArmAlarm(t) \/ CancelAlarm(t) \/ Fire(t) PROVE P
    BY <2>1, <2>7 DEF ArmAlarm, CancelAlarm, Fire, queueVars
  <2>8. CASE RingTimerDelivers \/ RingTimerWaits \/ TurnStarts \/ ToolsSwitched \/ UNCHANGED vars
    BY <2>1, <2>8 DEF RingTimerDelivers, RingTimerWaits, RingTimer, TurnStarts, ToolsSwitched, vars, queueVars
  <2>9. ASSUME TellerWaits \/ TellerWithdraws PROVE told' = told
    BY <2>3, <2>9 DEF TellerWaits, TellerWithdraws
  <2>10. CASE TellTimerDelivers \/ TellTimerWaits
    BY <2>1, <2>2, <2>9, <2>10 DEF TellTimerDelivers, TellTimerWaits
  <2>11. CASE Settles
    BY <2>1, <2>2, <2>9, <2>11 DEF Settles
  <2>12. CASE PersonaChanges \/ Shutdown
    BY <2>1, <2>3, <2>12 DEF PersonaChanges, Shutdown, queueVars
  <2> QED BY <2>5, <2>6, <2>7, <2>8, <2>10, <2>11, <2>12 DEF Next
<1>2. NoteInv /\ [Next]_vars => [P]_vars
  BY <1>1
<1> QED BY <1>2, NotesInvariant, PTL DEF Spec, SilentWhenWithdrawn
====
