---- MODULE InProcBus ----
(***************************************************************************)
(* The in-process coordination bus (src/bus/inproc.ts): handle-based       *)
(* mailboxes with one-way notes, blocking asks, a bounded inbox, a bounded *)
(* window of drained messages, and observers that run inside delivery.     *)
(*                                                                         *)
(* A message id is its position in msgs (nextId only counts up).  A        *)
(* mailbox is the set of the unread ids: a delivery always appends the     *)
(* newest id, so the array's order is the order of the ids.  Envelopes are *)
(* shared objects: msgs[i].expectsReply is the one flag every copy shows.  *)
(***************************************************************************)
EXTENDS Naturals, Integers, Sequences, FiniteSets

CONSTANTS
  Names,             \* participant handles
  Writers, Readers,  \* who writes, and to whom
  Sizes,             \* text lengths of messages
  MaxInbox,          \* unread messages one mailbox holds
  MaxRetained,       \* MAX_RETAINED_MESSAGES
  MaxRetainedChars,  \* MAX_RETAINED_MESSAGE_CHARS
  MaxMsgs            \* bound: messages ever sent

ASSUME BusAssumption ==
  /\ Writers \subseteq Names /\ Readers \subseteq Names
  /\ Sizes \subseteq Nat
  /\ MaxInbox \in Nat \ {0}
  /\ MaxRetained \in Nat
  /\ MaxRetainedChars \in Nat
  /\ MaxMsgs \in Nat

VARIABLES
  msgs,           \* every envelope made so far, by id
  registered,     \* keys of inboxes
  inbox,          \* inboxes: the unread ids of each handle
  pendingAsks,    \* ids of the asks nobody has settled
  timers,         \* asks whose timeout is armed
  listeners,      \* asks with an abort listener on their signal
  outcome,        \* history: how each message's ask ended ("open" until then)
  drains,         \* history: how many drains took something
  drainedAt,      \* history: the drain that took each message out (0: none)
  retained,       \* retainedMessages: drained ids still retrievable
  retainedChars   \* retainedMessageChars

mail == <<registered, inbox>>
asking == <<pendingAsks, timers, listeners>>
retention == <<drains, drainedAt, retained, retainedChars>>
busVars == <<msgs, mail, asking, outcome, retention>>

Reasons == {"replied", "aborted", "timeout", "unregistered", "inbox-full", "delivery-error"}

\* An ask without a signal is one whose signal never fires.
Signals == {"live", "aborted"}

Envelopes == [from : Names, to : Names, size : Sizes, expectsReply : BOOLEAN]
Ids == 1..Len(msgs)

\* Wrong: the counter is read before it is advanced.
StaleId == Len(msgs)
NewId == Len(msgs) + 1

BusInit ==
  /\ msgs = <<>>
  /\ registered = {}
  /\ inbox = [n \in Names |-> {}]
  /\ pendingAsks = {} /\ timers = {} /\ listeners = {}
  /\ outcome = <<>>
  /\ drains = 0 /\ drainedAt = <<>> /\ retained = {} /\ retainedChars = 0
----
(* deliver: a full inbox gives up its oldest one-way note, never an ask.   *)
OneWay(box) == {m \in box : ~msgs[m].expectsReply}

NoRoom(box) == Cardinality(box) >= MaxInbox /\ OneWay(box) = {}

Oldest(S) == {m \in S : \A k \in S : m <= k}

\* Wrong: the oldest message goes, ask or not.
EvictOldest(box) == IF Cardinality(box) < MaxInbox THEN box ELSE box \ Oldest(box)
\* Wrong: every note goes.
EvictAllNotes(box) == IF Cardinality(box) < MaxInbox THEN box ELSE box \ OneWay(box)

MakeRoom(box) ==
  IF Cardinality(box) < MaxInbox THEN box ELSE box \ Oldest(OneWay(box))

(* retain: a drained batch B joins the window, which then loses its oldest *)
(* members until both bounds hold.  Batches are ordered by their drain,    *)
(* members of a batch by id.  A text above the cap never enters.           *)
Text(i, m) == {i} \X (1..m[i].size)
Chars(S, m) == Cardinality(UNION {Text(i, m) : i \in S})
DrainedBefore(i, j, at) == at[i] < at[j] \/ (at[i] = at[j] /\ i < j)

Newest(C, at, chars, m) ==
  {i \in C : LET older == {j \in C : DrainedBefore(j, i, at)} IN
               /\ Cardinality(C \ older) <= MaxRetained
               /\ chars - Chars(older, m) <= MaxRetainedChars}

Fresh(B) == {i \in B : msgs[i].size <= MaxRetainedChars /\ i \notin retained}
Window(B) == retained \cup Fresh(B)
Stamped(B) == [i \in Ids |-> IF i \in B THEN drains + 1 ELSE drainedAt[i]]
Grown(B) == retainedChars + Chars(Fresh(B), msgs)

Retain(B) ==
  /\ drains' = IF B = {} THEN drains ELSE drains + 1
  /\ drainedAt' = Stamped(B)
  /\ retained' = Newest(Window(B), drainedAt', Grown(B), msgs)
  /\ retainedChars' = Grown(B) - Chars(Window(B) \ retained', msgs)
----
(* settleAsk: the entry, its timer and its listener go, the shared         *)
(* envelope stops asking, and the unread copy leaves the mailbox.          *)
\* Wrong: the unread copy is dropped and the shared envelope left as it was.
RetireKeepsFlag(m, S) == m
Retire(m, S) ==
  [i \in DOMAIN m |-> IF i \in S THEN [m[i] EXCEPT !.expectsReply = FALSE] ELSE m[i]]

Unread(S) == [n \in Names |-> inbox[n] \ S]

\* Wrong: the entry goes and its timer and listener stay behind.
SettleLeavingTimers(S, reason) ==
  /\ pendingAsks' = pendingAsks \ S
  /\ UNCHANGED <<timers, listeners>>
  /\ outcome' = [i \in DOMAIN outcome |-> IF i \in S THEN reason ELSE outcome[i]]
Settle(S, reason) ==
  /\ pendingAsks' = pendingAsks \ S
  /\ timers' = timers \ S
  /\ listeners' = listeners \ S
  /\ outcome' = [i \in DOMAIN outcome |-> IF i \in S THEN reason ELSE outcome[i]]

SettleOne(id, reason) ==
  /\ id \in pendingAsks
  /\ Settle({id}, reason)
  /\ msgs' = Retire(msgs, {id})
  /\ inbox' = Unread({id})
  /\ UNCHANGED <<registered, retention>>

Reply(id) == SettleOne(id, "replied")

\* The timer callback of an ask runs.
TimesOut(id) == id \in timers /\ SettleOne(id, "timeout")

\* The asker's signal fires while the listener is attached.
Abort(id) == id \in listeners /\ SettleOne(id, "aborted")
----
Register(n) ==
  /\ registered' = registered \cup {n}
  /\ UNCHANGED <<msgs, inbox, asking, outcome, retention>>

\* A leaving handle loses its mailbox, its asks in both directions and what
\* was retained for it.
\* Wrong: only the asks addressed to it.
OpenAsksTo(n) == {i \in pendingAsks : msgs[i].to = n}
OpenAsksWith(n) == {i \in pendingAsks : n \in {msgs[i].from, msgs[i].to}}

\* Wrong: the messages go and their characters stay counted.
ForgetWithoutCount(gone) ==
  retained' = retained \ gone /\ UNCHANGED <<drains, drainedAt, retainedChars>>
Forget(gone) ==
  /\ retained' = retained \ gone
  /\ retainedChars' = retainedChars - Chars(gone, msgs)
  /\ UNCHANGED <<drains, drainedAt>>

Unregister(n) ==
  LET open == OpenAsksWith(n) IN
  /\ registered' = registered \ {n}
  /\ inbox' = [Unread(open) EXCEPT ![n] = {}]
  /\ Settle(open, "unregistered")
  /\ msgs' = Retire(msgs, open)
  /\ Forget({i \in retained : msgs[i].to = n})

\* take: empties the mailbox, creating it for a handle that had none.
Take(n) ==
  /\ registered' = registered \cup {n}
  /\ inbox' = [inbox EXCEPT ![n] = {}]
  /\ Retain(inbox[n])
  /\ UNCHANGED <<msgs, asking, outcome>>

\* takeWhere(!expectsReply): the notes leave, the live asks stay.
TakeNotes(n) ==
  /\ OneWay(inbox[n]) # {}
  /\ inbox' = [inbox EXCEPT ![n] = @ \ OneWay(@)]
  /\ Retain(OneWay(inbox[n]))
  /\ UNCHANGED <<msgs, registered, asking, outcome>>

\* takeWhere by id: an answered ask still listed is cleared away.
TakeOne(n, id) ==
  /\ id \in inbox[n]
  /\ inbox' = [inbox EXCEPT ![n] = @ \ {id}]
  /\ Retain({id})
  /\ UNCHANGED <<msgs, registered, asking, outcome>>
----
(* deliver pushes, then runs the observers.  One that drains the mailbox    *)
(* does what Take or TakeNotes does next; one may answer an ask inline; one *)
(* may throw, which send passes on to its caller and ask turns into an      *)
(* outcome.                                                                 *)
Unretained == drainedAt' = Append(drainedAt, 0) /\ UNCHANGED <<drains, retained, retainedChars>>

\* send: refused when the mailbox holds nothing but live asks.
Note(f, t, s) == [from |-> f, to |-> t, size |-> s, expectsReply |-> FALSE]

SendRefused(f, t, s) ==
  /\ t \in registered /\ NoRoom(inbox[t])
  /\ msgs' = Append(msgs, Note(f, t, s))
  /\ outcome' = Append(outcome, "open")
  /\ Unretained
  /\ UNCHANGED <<mail, asking>>

Send(f, t, s) ==
  /\ t \in registered /\ ~NoRoom(inbox[t])
  /\ msgs' = Append(msgs, Note(f, t, s))
  /\ outcome' = Append(outcome, "open")
  /\ inbox' = [inbox EXCEPT ![t] = MakeRoom(@) \cup {NewId}]
  /\ Unretained
  /\ UNCHANGED <<registered, asking>>

\* ask, closed before anybody could read it: its signal had already fired,
\* the mailbox is full of asks, or an observer threw or answered inline.
\* The envelope is retired; a thrown or answered one had been delivered, and
\* made room for itself, first.
Ask(f, t, s) == [from |-> f, to |-> t, size |-> s, expectsReply |-> TRUE]

AskClosedAtOnce(f, t, s, reason, box) ==
  /\ msgs' = Append(msgs, Note(f, t, s))
  /\ outcome' = Append(outcome, reason)
  /\ inbox' = [inbox EXCEPT ![t] = box]
  /\ Unretained
  /\ UNCHANGED <<registered, asking>>

AskRefused(f, t, s, signal) ==
  /\ t \in registered
  /\ \/ signal = "aborted" /\ AskClosedAtOnce(f, t, s, "aborted", inbox[t])
     \/ signal # "aborted" /\ NoRoom(inbox[t])
          /\ AskClosedAtOnce(f, t, s, "inbox-full", inbox[t])

AskClosedInDelivery(f, t, s, reason) ==
  /\ t \in registered /\ ~NoRoom(inbox[t])
  /\ reason \in {"delivery-error", "replied"}
  /\ AskClosedAtOnce(f, t, s, reason, MakeRoom(inbox[t]))

\* Wrong: the ask waits with no timeout.
TimerNotArmed(id) == timers
TimerArmed(id) == timers \cup {id}

AskWaiting(f, t, s) ==
  /\ t \in registered /\ ~NoRoom(inbox[t])
  /\ msgs' = Append(msgs, Ask(f, t, s))
  /\ outcome' = Append(outcome, "open")
  /\ pendingAsks' = pendingAsks \cup {NewId}
  /\ timers' = TimerArmed(NewId)
  /\ listeners' = listeners \cup {NewId}
  /\ inbox' = [inbox EXCEPT ![t] = MakeRoom(@) \cup {NewId}]
  /\ Unretained
  /\ UNCHANGED registered
----
Messaging(f, t, s) ==
  /\ Len(msgs) < MaxMsgs
  /\ \/ SendRefused(f, t, s) \/ Send(f, t, s)
     \/ AskWaiting(f, t, s)
     \/ \E signal \in Signals : AskRefused(f, t, s, signal)
     \/ \E reason \in Reasons : AskClosedInDelivery(f, t, s, reason)

Draining(n) == Take(n) \/ TakeNotes(n) \/ (\E id \in inbox[n] : TakeOne(n, id))

Settling(id) == Reply(id) \/ TimesOut(id) \/ Abort(id)

BusNext ==
  \/ \E n \in Names : Register(n) \/ Unregister(n) \/ Draining(n)
  \/ \E from \in Writers, to \in Readers, s \in Sizes : Messaging(from, to, s)
  \/ \E id \in Ids : Settling(id)

\* setTimeout callbacks run: an armed timeout that stays armed fires.
BusFairness == \A id \in 1..MaxMsgs : WF_busVars(id \in Ids /\ TimesOut(id))

BusSpec == BusInit /\ [][BusNext]_busVars /\ BusFairness
----
\* The variables have their types: every id names an envelope, and every
\* set of ids is drawn from the messages sent so far (inproc.ts:64-70).
TypeOK ==
  /\ msgs \in Seq(Envelopes)
  /\ registered \subseteq Names
  /\ inbox \in [Names -> SUBSET Ids]
  /\ pendingAsks \subseteq Ids
  /\ timers \subseteq Ids /\ listeners \subseteq Ids
  /\ outcome \in Seq(Reasons \cup {"open"}) /\ Len(outcome) = Len(msgs)
  /\ drains \in Nat
  /\ drainedAt \in Seq(Nat) /\ Len(drainedAt) = Len(msgs)
  /\ retained \subseteq Ids

\* A sender blocked on an ask is never stranded by the bus: the question is
\* unread in the mailbox of a registered peer, or that peer drained it.
\* Eviction, one-way traffic and departures never lose it (deliver, 92-103).
LiveAskReachable ==
  \A id \in pendingAsks :
    LET to == msgs[id].to IN
    to \in registered /\ (id \in inbox[to] \/ drainedAt[id] > 0)

\* The flag every copy of an envelope shows is exactly "somebody is still
\* waiting": a settled ask, unread or retained, no longer asks to be answered
\* and is in no mailbox (retireAskEnvelope, 105-115).
FlagTellsTheTruth ==
  /\ \A id \in Ids : msgs[id].expectsReply <=> id \in pendingAsks
  /\ \A n \in Names : \A id \in inbox[n] : outcome[id] = "open"

\* Settling by any path disarms what could settle again: no timer and no
\* abort listener outlives its ask (settleAsk, 117-124).
NothingArmedForSettled == timers \cup listeners \subseteq pendingAsks

\* The retention window's running character count is the true total and both
\* bounds hold after every drain and departure (retain, 137-148).
RetentionAccounted ==
  /\ retainedChars = Chars(retained, msgs)
  /\ retainedChars <= MaxRetainedChars
  /\ Cardinality(retained) <= MaxRetained
  /\ \A id \in retained : drainedAt[id] > 0

\* The only unread message a step may lose without its recipient reading it,
\* leaving, or the ask being settled, is one one-way note to a full mailbox.
OnlyOldNotesLost ==
  [][LET gone(n) == {i \in inbox[n] \ inbox'[n] :
                       /\ n \in registered'
                       /\ drainedAt'[i] = 0
                       /\ outcome'[i] = "open"}
     IN \A n \in Names :
          /\ Cardinality(gone(n)) <= 1
          /\ \A i \in gone(n) : /\ ~msgs[i].expectsReply
                                /\ Cardinality(inbox[n]) = MaxInbox]_busVars

\* Every ask is settled in the end, whoever forgets about it.
EveryAskSettles ==
  \A id \in 1..MaxMsgs : (id \in pendingAsks) ~> (id \in Ids /\ outcome[id] # "open")

\* What the contract sees of each message.
Phase(i) == IF i \in pendingAsks THEN "waiting"
            ELSE IF outcome[i] = "open" THEN "note" ELSE outcome[i]
AskView == [i \in Ids |-> [from |-> msgs[i].from, to |-> msgs[i].to, phase |-> Phase(i)]]

Contract == INSTANCE AskContract WITH peers <- registered, asks <- AskView

\* Refinement: every step of the bus is a step of the contract or a stutter;
\* each question gets one outcome, once, and a departure closes exactly the
\* questions of the handle that left (settleAsk 117-135, unregister 158-168).
KeepsAskContract == Contract!ContractSpec
====
