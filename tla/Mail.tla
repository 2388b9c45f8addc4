---- MODULE Mail ----
(***************************************************************************)
(* Messages between the sessions of a workspace: src/exocom/plane.ts, the  *)
(* receiver's decision in src/exocom/install.ts and src/exocom/inbound.ts, *)
(* and the files a message too big for a frame travels in.                 *)
(*                                                                         *)
(* One session sends; its peers come, go and restart under a new key.      *)
(* A session's endpoint never changes.                                     *)
(*                                                                         *)
(* At the end, what a receiver does with the messages it is sent: its      *)
(* guards (src/exocom/guards.ts), and the queue that wakes its session     *)
(* with whole messages and not too often (src/engine/async.ts).  It shares *)
(* no variable with the rest.                                              *)
(***************************************************************************)
EXTENDS Integers, Sequences, SequencesExt, FiniteSetsExt

CONSTANTS
  Peers,
  Msgs,
  NameOf,    \* [peer -> the name it shows]: it may read like another's token
  MaxKeys,   \* bound: [peer -> planes it starts]
  Letters,   \* what a session is sent: [letter -> [from, size, far: its hops are used up]]
  SenderMsgs, SenderBytes,  \* SENDER_MAX_MSGS, SENDER_MAX_BYTES
  InboxMax,  \* EXOCOM_INBOX_MAX
  BatchRoom, \* MAX_COMPLETION_REPORT_CHARS
  MaxWakes,  \* DELIVER_MAX_PER_MIN
  Budget     \* bounds: [comes: letters accepted, lapses: forgotten letters, stops, failed wakes]

VARIABLES
  reg,      \* [peer -> its entry in the registry: at most one]
  here,     \* the sender is in the registry
  peer,     \* [peer -> its plane: up; the key it signs with]
  cached,   \* [peer -> the entry it had when it wrote to the sender]
  msg,      \* [message -> at; big: it travels as a file; meant; entry; try; answer; told]
  spills,   \* payload files of the sender
  snaps,    \* copies made by receivers
  aged,     \* files older than an answer may take
  accepted, \* [message -> the peers that accepted it, in order]
  box,      \* a receiver: [queue, seen: letters it remembers, spent: from -> [msgs, bytes] of its window,
            \* wakes: since the last minute began, cooling: one was a short while ago, armed: its timer, idle: its session]
  post      \* history: [taken: letters accepted, but those a stop dropped, heard: the letters told,
            \* batch: the last of them, old: letters it has forgotten, left: bounds]

mailVars == <<reg, here, peer, cached, msg, spills, snaps, aged, accepted>>

\* The routing token of a peer, among the names.
Token(p) == p
Entry(p) == [of |-> p, key |-> peer[p].key]
Unsent == [at |-> "new", big |-> FALSE, meant |-> {}, entry |-> {}, try |-> 0, answer |-> "none", key |-> 0, told |-> "none"]

MailInit ==
  /\ peer = [p \in Peers |-> [up |-> TRUE, key |-> 1]]
  /\ reg = [p \in Peers |-> {Entry(p)}] /\ here = TRUE
  /\ cached = [p \in Peers |-> {}] /\ msg = [m \in Msgs |-> Unsent]
  /\ spills = {} /\ snaps = {} /\ aged = {}
  /\ accepted = [m \in Msgs |-> <<>>]

files == <<spills, snaps, aged>>
pool == <<reg, here, peer, cached>>

\* start, heartbeat, setProfile: the entry is written.
Registers(p) ==
  /\ peer[p].up /\ reg' = [reg EXCEPT ![p] = {Entry(p)}]
  /\ UNCHANGED <<here, peer, cached, msg, files, accepted>>

\* A slow session's entry is pruned, the sender's too, until it beats again.
PrunedPeer(p) ==
  /\ reg[p] # {} /\ reg' = [reg EXCEPT ![p] = {}]
  /\ UNCHANGED <<here, peer, cached, msg, files, accepted>>
SenderBlinks == here' = ~here /\ UNCHANGED <<reg, peer, cached, msg, files, accepted>>

\* stop(), and stopExocom before it: the connections go.
Stops(p) ==
  /\ peer[p].up /\ peer' = [peer EXCEPT ![p].up = FALSE]
  /\ reg' = [reg EXCEPT ![p] = {}]
  /\ UNCHANGED <<here, cached, msg, files, accepted>>
Restarts(p) ==
  /\ ~peer[p].up /\ peer[p].key < MaxKeys[p]
  /\ peer' = [peer EXCEPT ![p] = [up |-> TRUE, key |-> @.key + 1]]
  /\ UNCHANGED <<reg, here, cached, msg, files, accepted>>

\* A message from a peer: what authenticated it is kept for the reply.
WritesToSender(p) ==
  /\ peer[p].up /\ reg[p] # {} /\ cached' = [cached EXCEPT ![p] = reg[p]]
  /\ UNCHANGED <<reg, here, peer, msg, files, accepted>>

Called(n) == UNION {reg[p] : p \in {q \in Peers : NameOf[q] = n}}

\* Wrong: a token nobody answers to is looked up as a name.
TokenOrName(p) == IF reg[p] # {} THEN reg[p] ELSE Called(Token(p))

ByToken(p) == reg[p]

\* A reply goes by what was cached, else by the token in the whole pool.
ByReply(p) == IF cached[p] # {} THEN cached[p] ELSE ByToken(p)

\* payloadFor: a big message is spilled before the frame is written.
Dispatch(m, big, meant, found) ==
  \/ /\ found = {} /\ msg' = [msg EXCEPT ![m] = [@ EXCEPT !.at = "over", !.told = "unknown"]]
     /\ UNCHANGED spills
  \/ \E e \in found :
       /\ msg' = [msg EXCEPT ![m] = [@ EXCEPT !.at = "flying", !.big = big, !.meant = meant, !.entry = {e}, !.try = 1]]
       /\ spills' = IF big THEN spills \union {m} ELSE spills
Sends(m) ==
  /\ msg[m].at = "new"
  /\ \E p \in Peers, big \in BOOLEAN :
       \/ Dispatch(m, big, {p}, ByToken(p)) \/ Dispatch(m, big, {p}, ByReply(p))
       \/ Dispatch(m, big, {e.of : e \in Called(NameOf[p])}, Called(NameOf[p]))
  /\ UNCHANGED <<pool, snaps, aged, accepted>>

File(m) == IF msg[m].big THEN {m} ELSE {}
To(m) == (CHOOSE e \in msg[m].entry : TRUE).of
Signer(m) == (CHOOSE e \in msg[m].entry : TRUE).key

Answers(m, answer) ==
  msg' = [msg EXCEPT ![m] = [@ EXCEPT !.answer = answer, !.key = peer[To(m)].key,
                                      !.at = IF msg[m].at = "stray" THEN "over" ELSE "answered"]]
Nacks(m, why) == Answers(m, why) /\ UNCHANGED <<snaps, accepted>>

\* onInbound refuses when its queue is full, or when the hops, the budget or the
\* size say so; a copy made is left to the sweep.
Declines(m) ==
  snaps' = snaps \union File(m) /\ Answers(m, "refused") /\ UNCHANGED accepted

\* handleConnection: who it is from, the file it names, the copy of that file,
\* then the decision.
FileMissing(m) == ~(File(m) \subseteq spills)

\* Wrong: the copy is not needed to accept.
Copied(m, made) == made = {}

CopyMade(m, made) == made = File(m)

Arrives(m) ==
  /\ msg[m].at \in {"flying", "stray"} /\ peer[To(m)].up
  /\ \/ ~here /\ Nacks(m, "refused")
     \/ here /\ FileMissing(m) /\ Nacks(m, "missing")
     \/ here /\ ~FileMissing(m) /\ msg[m].big /\ Nacks(m, "refused")
     \/ here /\ ~FileMissing(m) /\ Declines(m)
     \/ \E made \in SUBSET File(m) :
          /\ here /\ ~FileMissing(m) /\ CopyMade(m, made)
          /\ snaps' = snaps \union made
          /\ accepted' = [accepted EXCEPT ![m] = Append(@, To(m))]
          /\ Answers(m, "ack")
  /\ UNCHANGED <<pool, spills, aged>>

\* Undelivered: the sender's file goes.  Delivered: it is left to the sweep.
Tell(m, at, told) == msg' = [msg EXCEPT ![m] = [@ EXCEPT !.at = at, !.told = told]]
Fails(m, at, told) == Tell(m, at, told) /\ spills' = spills \ {m} /\ UNCHANGED <<snaps, aged, accepted>>
Evicts(m) == reg' = [reg EXCEPT ![To(m)] = @ \ {e \in @ : e.key = Signer(m)}]
KeepsPool == UNCHANGED pool
EvictsOne(m) == Evicts(m) /\ UNCHANGED <<here, peer, cached>>

Authentic(m) == msg[m].key = Signer(m)

AnswerArrives(m) ==
  /\ msg[m].at = "answered"
  /\ \/ /\ Authentic(m) /\ msg[m].answer = "ack" /\ KeepsPool
        /\ Tell(m, "over", "ok") /\ UNCHANGED <<files, accepted>>
     \/ Authentic(m) /\ msg[m].answer # "ack" /\ KeepsPool /\ Fails(m, "over", msg[m].answer)
     \/ ~Authentic(m) /\ EvictsOne(m) /\ Fails(m, "over", "unauthenticated")

\* No answer in time: the frame may be with the peer all the same.
Still(m) == IF msg[m].at = "flying" THEN "stray" ELSE "over"
TimesOut(m) ==
  /\ msg[m].at \in {"flying", "answered"} /\ KeepsPool /\ Fails(m, Still(m), "timeout")
Breaks(m) ==
  /\ msg[m].at \in {"flying", "answered"} /\ EvictsOne(m) /\ Fails(m, Still(m), "unreachable")

NobodyListens(m) == ~peer[To(m)].up

\* Refused to connect: once more, after a while.
Refused(m) ==
  /\ msg[m].at = "flying" /\ NobodyListens(m)
  /\ \/ msg[m].try = 1 /\ KeepsPool /\ msg' = [msg EXCEPT ![m].at = "waiting"] /\ UNCHANGED <<files, accepted>>
     \/ msg[m].try = 2 /\ EvictsOne(m) /\ Fails(m, "over", "unreachable")
Retries(m) ==
  /\ msg[m].at = "waiting"
  /\ msg' = [msg EXCEPT ![m] = [@ EXCEPT !.at = "flying", !.try = 2]]
  /\ UNCHANGED <<pool, files, accepted>>

\* Wrong: the sweep does not look at the age.
AnyFiles == spills \union snaps

SweptFiles == aged

\* A first attempt ends before its file is aged.
Ages(m) ==
  /\ m \in (spills \union snaps) \ aged /\ ~(msg[m].at \in {"flying", "answered"} /\ msg[m].try = 1)
  /\ aged' = aged \union {m} /\ UNCHANGED <<pool, msg, spills, snaps, accepted>>
\* cleanupArtifacts, by any session that starts, stops, spills or copies.
Sweeps ==
  /\ \E m \in SweptFiles : spills' = spills \ {m} /\ snaps' = snaps \ {m}
  /\ UNCHANGED <<pool, msg, aged, accepted>>

MailNext ==
  \/ \E m \in Msgs :
       \/ Sends(m) \/ Arrives(m) \/ AnswerArrives(m) \/ TimesOut(m) \/ Breaks(m) \/ Refused(m)
       \/ Retries(m) \/ Ages(m)
  \/ \E p \in Peers :
       \/ Registers(p) \/ PrunedPeer(p) \/ Stops(p) \/ Restarts(p) \/ WritesToSender(p)
  \/ SenderBlinks \/ Sweeps

---------------------------------------------------------------------------
Taken(m) == {accepted[m][i] : i \in DOMAIN accepted[m]}

\* plane.ts:1003: what the sender is told is so.  "Delivered" was accepted, by
\* the session the address was given out for and once; "refused" never was, and
\* a first attempt is not refused for a file a sweep took from it.
SendersHearTrue == \A m \in Msgs :
  /\ Len(accepted[m]) <= 1 /\ Taken(m) \subseteq msg[m].meant
  /\ msg[m].told = "ok" => accepted[m] # <<>>
  /\ msg[m].told \in {"refused", "missing", "unknown"} => accepted[m] = <<>>
  /\ msg[m].told = "missing" => msg[m].try = 2

\* plane.ts:742: a big message that was accepted has its own copy to read, and
\* one that is over leaves a file of the sender's only if it was delivered.
FilesMatchMessages == \A m \in Msgs :
  /\ accepted[m] # <<>> /\ msg[m].big /\ m \notin aged => m \in snaps
  /\ msg[m].at \in {"over", "stray"} /\ m \in spills => msg[m].told = "ok"

---------------------------------------------------------------------------
(* The receiver's guards and its queue *)

boxVars == <<box, post>>

Froms == {Letters[l].from : l \in DOMAIN Letters}
Nothing == [msgs |-> 0, bytes |-> 0]
NewPlane(idle) ==
  [queue |-> <<>>, seen |-> {}, spent |-> [f \in Froms |-> Nothing], wakes |-> 0, cooling |-> FALSE, armed |-> FALSE, idle |-> idle]

InboxInit ==
  /\ box = NewPlane(TRUE)
  /\ post = [taken |-> <<>>, heard |-> <<>>, batch |-> <<>>, old |-> {}, left |-> Budget]

\* SenderBudget.allow.
Allowed(l) ==
  LET spent == box.spent[Letters[l].from] IN spent.msgs < SenderMsgs /\ spent.bytes + Letters[l].size <= SenderBytes

\* onInbound, buildInboundDelivery: in this order.
AnswerTo(l) ==
  CASE Len(box.queue) >= InboxMax -> "full"
    [] Letters[l].far -> "hops"
    [] l \in box.seen -> "again"
    [] ~Allowed(l) -> "budget"
    [] OTHER -> "ack"

\* Wrong: a letter the budget refused stays reserved.
Reserved(l) == box.seen \union {l}

\* forget: it may come again in another window.
AfterBudget(l) == box.seen

Comes(l) ==
  /\ LET answer == AnswerTo(l) IN
       /\ answer = "ack" => post.left.comes > 0
       /\ box' = CASE answer = "ack" ->
                        [box EXCEPT !.queue = Append(@, l), !.seen = @ \union {l}, !.armed = TRUE,
                                    !.spent[Letters[l].from] = [msgs |-> @.msgs + 1, bytes |-> @.bytes + Letters[l].size]]
                   [] answer = "budget" -> [box EXCEPT !.seen = AfterBudget(l)]
                   [] OTHER -> box
       /\ post' = IF answer = "ack" THEN [post EXCEPT !.taken = Append(@, l), !.left.comes = @ - 1] ELSE post

WindowPasses(f) == box.spent[f] # Nothing /\ box' = [box EXCEPT !.spent[f] = Nothing] /\ UNCHANGED post

SeenFades(l) ==
  /\ l \in box.seen /\ post.left.lapses > 0 /\ box' = [box EXCEPT !.seen = @ \ {l}]
  /\ post' = [post EXCEPT !.old = @ \union {l}, !.left.lapses = @ - 1]

SizeOf(batch) == FoldLeft(LAMBDA n, l : n + Letters[l].size, 0, batch)

\* Wrong: a burst is one message, whatever it holds.
WholeQueue(queue) == Len(queue)

BatchSize(queue) == Max({1} \union {n \in 1..Len(queue) : SizeOf(SubSeq(queue, 1, n)) <= BatchRoom})

Holds(b) == ~b.idle \/ b.wakes >= MaxWakes \/ (b.wakes > 0 /\ b.cooling)

\* flushIfIdle, in the state the caller leaves: a message to the host starts a turn, or throws.
Flush(b) ==
  LET n == BatchSize(b.queue)  rest == SubSeq(b.queue, n + 1, Len(b.queue)) IN
  \/ b.queue = <<>> /\ box' = [b EXCEPT !.armed = FALSE] /\ UNCHANGED post
  \/ b.queue # <<>> /\ Holds(b) /\ box' = [b EXCEPT !.armed = TRUE] /\ UNCHANGED post
  \/ /\ b.queue # <<>> /\ ~Holds(b)
     /\ box' = [b EXCEPT !.queue = rest, !.wakes = @ + 1, !.cooling = TRUE, !.armed = rest # <<>>, !.idle = FALSE]
     /\ post' = [post EXCEPT !.heard = @ \o SubSeq(b.queue, 1, n), !.batch = SubSeq(b.queue, 1, n)]
  \/ /\ b.queue # <<>> /\ ~Holds(b) /\ post.left.lapses > 0
     /\ box' = [b EXCEPT !.armed = TRUE] /\ post' = [post EXCEPT !.left.lapses = @ - 1]

BoxTimer == box.armed /\ Flush(box)
TurnStarts == box.idle /\ box' = [box EXCEPT !.idle = FALSE] /\ UNCHANGED post
TurnEnds == ~box.idle /\ Flush([box EXCEPT !.idle = TRUE])
Cools == box.cooling /\ box' = [box EXCEPT !.cooling = FALSE] /\ UNCHANGED post

\* resetDeliveries, every minute: the floor between wakes is not asked of the first that follows.
MinutePasses == box.wakes > 0 /\ Flush([box EXCEPT !.wakes = 0])

\* stopExocom drops what waits; the plane that starts again remembers nothing.
BoxRestarts ==
  /\ post.left.lapses > 0 /\ box' = NewPlane(box.idle)
  /\ post' = [post EXCEPT !.left.lapses = @ - 1, !.old = @ \union box.seen,
                          !.taken = SubSeq(@, 1, Len(@) - Len(box.queue))]

InboxNext ==
  \/ \E l \in DOMAIN Letters : Comes(l) \/ SeenFades(l)
  \/ \E f \in Froms : WindowPasses(f)
  \/ BoxTimer \/ TurnStarts \/ TurnEnds \/ Cools \/ MinutePasses \/ BoxRestarts

\* Timers fire, turns end, minutes pass.
InboxFairness == WF_boxVars(BoxTimer) /\ WF_boxVars(TurnEnds) /\ WF_boxVars(MinutePasses)

\* inbound.ts:96, shared.ts:100: what was accepted is told in that order, once, unless it came
\* again after it was forgotten, and nothing else is; a letter is "accepted again" only if it
\* was accepted and is told or waits; and no batch holds more than is shown, unless one message does.
InboxIsTrue ==
  /\ post.heard \o box.queue = post.taken
  /\ \A i, j \in DOMAIN post.taken : i # j /\ post.taken[i] = post.taken[j] => post.taken[i] \in post.old
  /\ box.seen \subseteq ToSet(post.taken)
  /\ Len(post.batch) > 1 => SizeOf(post.batch) <= BatchRoom

\* async.ts:900: whatever is held for a turn, a pause or the next minute, the queue empties.
InboxDrains == <>[](box.queue = <<>>)
====
