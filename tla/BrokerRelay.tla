---- MODULE BrokerRelay ----
(***************************************************************************)
(* The cross-process broker: the supervisor's relay (src/bus/broker/       *)
(* host.ts), its lifecycle (src/extension/broker-host.ts), the client in a *)
(* child process (src/bus/broker/client.ts) as the child's bridge uses it  *)
(* (src/bridge.ts), and the registration of a leg around its child         *)
(* (src/engine/adapter.ts).                                                *)
(*                                                                         *)
(* The in-process bus the relay feeds is taken at its contract             *)
(* (AskContract, which InProcBus implements), with the unread mail of a    *)
(* child that has not connected added.  A connection is a sequence of      *)
(* frames per direction; either end may go, and what was written may then  *)
(* be read up to any point.  Handles are minted once per leg and a client  *)
(* dials once, so a handle has at most one connection.  The roster lookup  *)
(* (list) is left out: to this protocol it is a note nobody is sent.       *)
(***************************************************************************)
EXTENDS AskContract, FiniteSets, SequencesExt

CONSTANTS
  Supervisor,   \* the reserved handle
  MaxPuts,      \* bound: messages the bus accepts
  MaxCalls,     \* bound: calls the children make
  MaxSteers     \* bound: steers accepted for one child

ASSUME RelayAssumption ==
  /\ Supervisor \in Names
  /\ {"replied", "aborted", "timeout", "unregistered"} \subseteq Reasons
  /\ {"note", "waiting"} \cap Reasons = {}
  /\ MaxPuts \in Nat /\ MaxCalls \in Nat /\ MaxSteers \in Nat

Children == Names \ {Supervisor}

VARIABLES
  host,      \* SupervisorBroker.state(), "retrying" for a start after a failure
  leg,       \* the adapter's run of each child: none, running, settled
  grant,     \* its result reader: none, active, bound, revoked
  expected,  \* handles expected to connect
  held,      \* preHostSteers, then pendingSteer: steers waiting for a connection
  steered,   \* how many steers were accepted for each child
  mailbox,   \* the bus inbox of each child: unread ids
  conn,      \* the host's end of each connection: none, open, bound, ended
  relay,     \* the bus message each call became, 0 when it has not
  serving,   \* pendingReads: the reads the host is answering
  cli,       \* the client: off, dialing, handshake, online, offline
  calls,     \* what the children called: [by, kind, to, state]
  heard,     \* history: the mail each child was shown, in order
  told,      \* history: the steers each child was shown, in order
  up, down   \* the frames on the wire, child to host and back

supervisorSide == <<leg, grant, expected, held, steered>>
hostSide == <<mailbox, conn, relay, serving>>
childSide == <<cli, calls, heard, told>>
wire == <<up, down>>
relayVars == <<contractVars, host, supervisorSide, hostSide, childSide, wire>>

CallKinds == {"ask", "note", "read"}
Frame(t, n, ok) == [t |-> t, n |-> n, ok |-> ok]
Answer(k, ok) == Frame("answer", k, ok)
NoFrames == [c \in Children |-> <<>>]
Each(t, s) == [i \in DOMAIN s |-> Frame(t, s[i], TRUE)]

IsWaiting(i) == asks[i].phase = "waiting"
RelayedFor(c) == {k \in DOMAIN calls : calls[k].by = c /\ relay[k] # 0}
OpenQuestion(k) == relay[k] # 0 /\ IsWaiting(relay[k])
PendingOf(c) == {k \in DOMAIN calls : calls[k].by = c /\ calls[k].state = "pending"}

RelayInit ==
  /\ peers = {Supervisor} /\ asks = <<>>
  /\ host = "idle"
  /\ leg = [c \in Children |-> "none"]
  /\ grant = [c \in Children |-> "none"]
  /\ expected = {}
  /\ held = NoFrames
  /\ steered = [c \in Children |-> 0]
  /\ mailbox = NoFrames
  /\ conn = [c \in Children |-> "none"]
  /\ relay = <<>> /\ serving = {}
  /\ cli = [c \in Children |-> "off"]
  /\ calls = <<>>
  /\ heard = NoFrames /\ told = NoFrames
  /\ up = NoFrames /\ down = NoFrames
----
(* What the host writes.  The promise of a relayed question settles in the *)
(* step that closes it, and its answer goes to a connection still there;   *)
(* mail for a connected child goes out in the step that accepts it.        *)
SettledNow(c) ==
  {k \in RelayedFor(c) : IsWaiting(relay[k]) /\ asks'[relay[k]].phase # "waiting"}

AnswersTo(c) ==
  SetToSeq({Answer(k, asks'[relay[k]].phase = "replied") : k \in SettledNow(c)})

Write(frames) ==
  down' = [c \in Children |->
             IF conn'[c] = "bound" /\ cli[c] # "offline"
             THEN down[c] \o frames[c] \o AnswersTo(c) ELSE down[c]]

To(c, frames) == [NoFrames EXCEPT ![c] = frames]

\* Wrong: the id is read after the bus counted on.
MsgIdAfter == Len(asks) + 2
MsgId == Len(asks) + 1

\* The bus accepts message q: drained to the wire of a connected recipient,
\* unread in its mailbox otherwise; the supervisor's own mailbox is the bus's.
\* Wrong: what goes to the wire stays in the mailbox too.
UnreadAnyway(q) ==
  mailbox' = [c \in Children |-> IF c = q.to THEN Append(mailbox[c], MsgId) ELSE mailbox[c]]
Unread(q) ==
  mailbox' = [c \in Children |->
                IF c = q.to /\ conn[c] # "bound" THEN Append(mailbox[c], MsgId) ELSE mailbox[c]]

Accepted(q) == Len(asks) < MaxPuts /\ Put(q) /\ Unread(q)

Drained(q) ==
  [c \in Children |->
     IF c = q.to /\ conn[c] = "bound" THEN <<Frame("deliver", MsgId, TRUE)>> ELSE <<>>]

Message(f, t, phase) == [from |-> f, to |-> t, phase |-> phase]
----
(* Teardown.  bus.unregister for the handles C, after the relay aborted    *)
(* the questions it holds for the connections A.                           *)
RelayedOf(A) == {relay[k] : k \in UNION {RelayedFor(c) : c \in A}}

Depart(C, A) ==
  /\ peers' = peers \ C
  /\ asks' = [i \in DOMAIN asks |->
                IF IsWaiting(i) /\ i \in RelayedOf(A) THEN [asks[i] EXCEPT !.phase = "aborted"]
                ELSE IF IsWaiting(i) /\ {asks[i].from, asks[i].to} \cap C # {}
                THEN [asks[i] EXCEPT !.phase = "unregistered"] ELSE asks[i]]
  /\ mailbox' = [c \in Children |-> IF c \in C THEN <<>> ELSE mailbox[c]]

\* cleanup, and the socket destroyed: a connection ends once, its reads end
\* with it, and a bound grant is revoked.
Disconnect(C) ==
  /\ conn' = [c \in Children |-> IF c \in C THEN "ended" ELSE conn[c]]
  /\ serving' = {k \in serving : calls[k].by \notin C}

\* Grant.revoke: the handle is forgotten with the grant.
Revoke(C) ==
  /\ grant' = [c \in Children |-> IF c \in C THEN "revoked" ELSE grant[c]]
  /\ expected' = expected \ C
  /\ held' = [c \in Children |-> IF c \in C THEN <<>> ELSE held[c]]

Granted(c) == grant[c] \in {"active", "bound"}
\* Nobody reads a connection that ended.
Cut == up' = [c \in Children |-> IF conn'[c] = "ended" THEN <<>> ELSE up[c]]

GrantBoundOf(C) == {c \in C : grant[c] = "bound"}

\* The host's socket of c closes, by the child or by its own hand.
HostDrops(c) ==
  LET there == {c} \cap {d \in Children : conn[d] = "bound"} IN
  /\ Depart(there, there)
  /\ Disconnect({c})
  /\ Revoke(GrantBoundOf({c}))
----
(* The host's life (SupervisorBroker.ensure, close).                       *)
Ensure ==
  /\ host \in {"idle", "failed"}
  /\ host' = IF host = "idle" THEN "starting" ELSE "retrying"
  /\ UNCHANGED <<contractVars, supervisorSide, hostSide, childSide, wire>>

HostUp ==
  /\ host \in {"starting", "retrying"}
  /\ host' = "up"
  /\ UNCHANGED <<contractVars, supervisorSide, hostSide, childSide, wire>>

\* A failed bind drops the steers accepted meanwhile and says how many.
HostFails ==
  /\ host \in {"starting", "retrying"}
  /\ host' = "failed"
  /\ held' = NoFrames
  /\ UNCHANGED <<contractVars, leg, grant, expected, steered, hostSide, childSide, wire>>

\* Session shutdown: every grant and every connection goes, the mailbox of a
\* child that never connected stays until its leg settles.
BrokerClose ==
  LET bound == {c \in Children : conn[c] = "bound"} IN
  /\ host \notin {"idle", "closed"}
  /\ host' = "closed"
  /\ Depart(bound, GrantBoundOf(bound))
  /\ Disconnect({c \in Children : conn[c] \in {"open", "bound"}})
  /\ grant' = [c \in Children |-> IF Granted(c) THEN "revoked" ELSE grant[c]]
  /\ expected' = {} /\ held' = NoFrames
  /\ Write(NoFrames) /\ Cut
  /\ UNCHANGED <<leg, steered, relay, childSide>>
----
(* A leg around its child (adapter.ts).                                    *)
\* The reader, if it wants one, is prepared on a running host first.
SpawnChild(c, reader) ==
  /\ leg[c] = "none" /\ host \notin {"idle", "closed"}
  /\ reader => host = "up"
  /\ leg' = [leg EXCEPT ![c] = "running"]
  /\ grant' = [grant EXCEPT ![c] = IF reader THEN "active" ELSE "none"]
  /\ expected' = expected \cup {c}
  /\ Join(c)
  /\ cli' = [cli EXCEPT ![c] = "dialing"]
  /\ UNCHANGED <<host, held, steered, hostSide, calls, heard, told, wire>>

\* The run's signal fires while the child still runs.
RevokeReader(c) ==
  /\ leg[c] = "running" /\ Granted(c)
  /\ IF grant[c] = "bound" THEN HostDrops(c)
     ELSE Revoke({c}) /\ UNCHANGED <<contractVars, mailbox, conn, serving>>
  /\ Write(NoFrames) /\ Cut
  /\ UNCHANGED <<host, leg, steered, relay, childSide>>

\* The leg settles: the process closed, or was given up for dead.
\* Wrong: the steers queued for the child outlive it.
ForgetHandleOnly(c) == expected' = expected \ {c} /\ UNCHANGED held
ForgetHandle(c) == expected' = expected \ {c} /\ held' = [held EXCEPT ![c] = <<>>]

LegSettles(c) ==
  /\ leg[c] = "running"
  /\ leg' = [leg EXCEPT ![c] = "settled"]
  /\ grant' = [grant EXCEPT ![c] = IF Granted(c) THEN "revoked" ELSE @]
  /\ ForgetHandle(c)
  /\ Depart({c}, GrantBoundOf({c}))
  /\ Disconnect(GrantBoundOf({c}))
  /\ Write(NoFrames) /\ Cut
  /\ UNCHANGED <<host, steered, relay, childSide>>

\* A steer the caller is told was queued: on the wire of a connected child,
\* held for an expected one.  All others are refused and change nothing.
Steer(c) ==
  /\ leg[c] = "running" /\ steered[c] < MaxSteers
  /\ host \in {"starting", "up"}
  /\ steered' = [steered EXCEPT ![c] = @ + 1]
  /\ UNCHANGED <<contractVars, host, leg, grant, expected, hostSide, childSide, up>>
  /\ \/ /\ conn[c] = "bound"
        /\ Write(To(c, <<Frame("steer", steered'[c], TRUE)>>))
        /\ UNCHANGED held
     \/ /\ conn[c] # "bound" /\ c \in expected
        /\ held' = [held EXCEPT ![c] = Append(@, steered'[c])]
        /\ UNCHANGED down

\* The supervisor writes to a child; it answers or ignores a question.
SupervisorWrites(c) ==
  /\ UNCHANGED <<host, supervisorSide, conn, relay, serving, childSide, up>>
  /\ Accepted(Message(Supervisor, c, "note"))
  /\ Write(Drained(Message(Supervisor, c, "note")))

\* Wrong: the question is closed and the child is not told.
AnswerUntold(i, reason) == Close(i, reason) /\ UNCHANGED down
AskCloses(i, reason) == Close(i, reason) /\ Write(NoFrames)

Settles(i, reason) ==
  /\ UNCHANGED <<host, supervisorSide, hostSide, childSide, up>>
  /\ AskCloses(i, reason)
----
(* The host reads a frame (dispatch).                                      *)
Take(c) == up' = [up EXCEPT ![c] = IF conn'[c] = "ended" THEN <<>> ELSE Tail(@)]

\* A child with a grant must show its token, once and in time.
Refused(c) == grant[c] = "revoked"

\* Wrong: the mail queued before the connection stays in the mailbox.
GreetLate(c) == <<Frame("registered", 0, TRUE)>> \o Each("steer", held[c])
Greet(c) ==
  <<Frame("registered", 0, TRUE)>> \o Each("deliver", mailbox[c]) \o Each("steer", held[c])

HostRegisters(c) ==
  /\ conn[c] = "open"
  /\ \/ /\ Refused(c)
        /\ conn' = [conn EXCEPT ![c] = "ended"]
        /\ UNCHANGED <<contractVars, grant, held, mailbox, down>>
     \/ /\ ~Refused(c)
        /\ conn' = [conn EXCEPT ![c] = "bound"]
        /\ grant' = [grant EXCEPT ![c] = IF @ = "active" THEN "bound" ELSE @]
        /\ Join(c)
        /\ mailbox' = [mailbox EXCEPT ![c] = <<>>]
        /\ held' = [held EXCEPT ![c] = <<>>]
        /\ Write(To(c, Greet(c)))
  /\ UNCHANGED <<leg, expected, steered, relay, serving>>

\* A question is put on the child's behalf, whether or not its leg still
\* runs; the bus may refuse it (nobody there, or a full mailbox).
HostAsks(c, k) ==
  \/ /\ Accepted(Message(c, calls[k].to, "waiting"))
     /\ relay' = [relay EXCEPT ![k] = MsgId]
     /\ Write(Drained(Message(c, calls[k].to, "waiting")))
  \/ /\ UNCHANGED <<contractVars, mailbox, relay>>
     /\ Write(To(c, <<Answer(k, FALSE)>>))

\* A note gets a receipt: was it admitted to the bus.
\* Wrong: the receipt says the frame was read.
ReceiptForReading(c, k, admitted) == <<Answer(k, TRUE)>>
Receipt(c, k, admitted) == <<Answer(k, admitted)>>

HostSends(c, k) ==
  LET q == Message(c, calls[k].to, "note") IN
  \/ /\ Accepted(q)
     /\ relay' = [relay EXCEPT ![k] = MsgId]
     /\ Write([d \in Children |-> Drained(q)[d] \o To(c, Receipt(c, k, TRUE))[d]])
  \/ /\ UNCHANGED <<contractVars, mailbox, relay>>
     /\ Write(To(c, Receipt(c, k, FALSE)))

HostStartsReading(c, k) ==
  IF grant[c] = "bound"
  THEN serving' = serving \cup {k} /\ UNCHANGED down
  ELSE Write(To(c, <<Answer(k, FALSE)>>)) /\ UNCHANGED serving

HostTakesCall(c, k) ==
  /\ conn[c] = "bound"
  /\ \/ calls[k].kind = "ask" /\ HostAsks(c, k) /\ UNCHANGED serving
     \/ calls[k].kind = "note" /\ HostSends(c, k) /\ UNCHANGED serving
     \/ /\ calls[k].kind = "read"
        /\ UNCHANGED <<contractVars, mailbox, relay>>
        /\ HostStartsReading(c, k)

\* cancel and result_read_cancel: only what this connection asked for.
HostCancels(c, k) ==
  \/ /\ OpenQuestion(k)
     /\ Close(relay[k], "aborted")
     /\ Write(NoFrames)
     /\ UNCHANGED serving
  \/ /\ k \in serving
     /\ serving' = serving \ {k}
     /\ UNCHANGED contractVars
     /\ Write(To(c, <<Answer(k, FALSE)>>))
  \/ /\ k \notin serving /\ ~OpenQuestion(k)
     /\ UNCHANGED <<contractVars, down, serving>>

HostReads(c) ==
  /\ conn[c] \in {"open", "bound"} /\ up[c] # <<>>
  /\ \/ Head(up[c]).t = "register" /\ HostRegisters(c)
     \/ /\ Head(up[c]).t = "call"
        /\ UNCHANGED <<supervisorSide, conn>>
        /\ HostTakesCall(c, Head(up[c]).n)
     \/ /\ Head(up[c]).t = "cancel"
        /\ UNCHANGED <<supervisorSide, mailbox, conn, relay>>
        /\ HostCancels(c, Head(up[c]).n)
     \/ /\ Head(up[c]).t = "bye"
        /\ HostDrops(c)
        /\ Write(NoFrames)
        /\ UNCHANGED <<leg, steered, relay>>
  /\ Take(c)
  /\ UNCHANGED <<host, childSide>>

\* A read is answered, or its callback fails or its deadline passes.
HostAnswersRead(k, ok) ==
  /\ k \in serving
  /\ serving' = serving \ {k}
  /\ UNCHANGED <<contractVars, host, supervisorSide, mailbox, conn, relay, childSide, up>>
  /\ Write(To(calls[k].by, <<Answer(k, ok)>>))

\* The child's end is gone; what it had written may be lost with it.
HostSeesClose(c) ==
  /\ conn[c] \in {"open", "bound"} /\ cli[c] = "offline"
  /\ HostDrops(c)
  /\ Write(NoFrames) /\ Cut
  /\ UNCHANGED <<host, leg, steered, relay, childSide>>
----
(* The child's end.                                                        *)
\* close(), or a connection found closed: everything pending settles.
FailPending(c) ==
  calls' = [k \in DOMAIN calls |->
              IF k \in PendingOf(c) THEN [calls[k] EXCEPT !.state = "failed"] ELSE calls[k]]

Send(c, frames) ==
  up' = [up EXCEPT ![c] = IF conn[c] = "ended" THEN <<>> ELSE @ \o frames]

Connects(c) ==
  /\ cli[c] = "dialing" /\ host = "up"
  /\ cli' = [cli EXCEPT ![c] = "handshake"]
  /\ conn' = [conn EXCEPT ![c] = "open"]
  /\ up' = [up EXCEPT ![c] = <<Frame("register", 0, TRUE)>>]
  /\ UNCHANGED <<contractVars, host, supervisorSide, mailbox, relay, serving,
                 calls, heard, told, down>>

\* The attempts run out, the process exits or dies, or the session shuts the
\* client down, which says bye.
ChildGoes(c, bye) ==
  /\ cli[c] \in {"dialing", "handshake", "online"}
  /\ cli[c] = "dialing" => ~bye
  /\ cli' = [cli EXCEPT ![c] = "offline"]
  /\ FailPending(c)
  /\ Send(c, IF bye THEN <<Frame("bye", 0, TRUE)>> ELSE <<>>)
  /\ down' = [down EXCEPT ![c] = <<>>]
  /\ UNCHANGED <<contractVars, host, supervisorSide, hostSide, heard, told>>

ChildSeesClose(c) ==
  /\ cli[c] \in {"handshake", "online"} /\ conn[c] = "ended"
  /\ cli' = [cli EXCEPT ![c] = "offline"]
  /\ FailPending(c)
  /\ down' = [down EXCEPT ![c] = <<>>]
  /\ UNCHANGED <<contractVars, host, supervisorSide, hostSide, heard, told, up>>

ChildCalls(c, kind, to) ==
  /\ cli[c] = "online" /\ Len(calls) < MaxCalls
  /\ kind = "read" => grant[c] # "none"
  /\ calls' = Append(calls, [by |-> c, kind |-> kind, to |-> to, state |-> "pending"])
  /\ relay' = Append(relay, 0)
  /\ Send(c, <<Frame("call", Len(calls) + 1, TRUE)>>)
  /\ UNCHANGED <<contractVars, host, supervisorSide, mailbox, conn, serving,
                 cli, heard, told, down>>

\* Its signal fires or its timer does: the host is told of a question or a
\* read that is off, never of a note.
\* Wrong: the question is off and the host is not told.
CancelNobody(k) == <<>>
Cancels(k) == IF calls[k].kind \in {"ask", "read"} THEN <<Frame("cancel", k, TRUE)>> ELSE <<>>

ChildGivesUp(k) ==
  /\ calls[k].state = "pending"
  /\ calls' = [calls EXCEPT ![k].state = "failed"]
  /\ Send(calls[k].by, Cancels(k))
  /\ UNCHANGED <<contractVars, host, supervisorSide, hostSide, cli, heard, told, down>>

\* A frame is handled; an answer to a call that is over is ignored.
ChildReads(c) ==
  /\ cli[c] \in {"handshake", "online"} /\ down[c] # <<>>
  /\ LET f == Head(down[c]) IN
     /\ cli' = [cli EXCEPT ![c] = IF f.t = "registered" THEN "online" ELSE @]
     /\ calls' = IF f.t = "answer" /\ calls[f.n].state = "pending"
                 THEN [calls EXCEPT ![f.n].state = IF f.ok THEN "answered" ELSE "failed"]
                 ELSE calls
     /\ heard' = [heard EXCEPT ![c] = IF f.t = "deliver" THEN Append(@, f.n) ELSE @]
     /\ told' = [told EXCEPT ![c] = IF f.t = "steer" THEN Append(@, f.n) ELSE @]
  /\ down' = [down EXCEPT ![c] = Tail(@)]
  /\ UNCHANGED <<contractVars, host, supervisorSide, hostSide, up>>
----
RelayNext ==
  \/ Ensure \/ HostUp \/ HostFails \/ BrokerClose
  \/ \E c \in Children :
       \/ (\E reader \in BOOLEAN : SpawnChild(c, reader))
       \/ RevokeReader(c) \/ LegSettles(c) \/ Steer(c) \/ SupervisorWrites(c)
       \/ HostReads(c) \/ HostSeesClose(c)
       \/ Connects(c) \/ ChildSeesClose(c) \/ ChildReads(c)
       \/ (\E bye \in BOOLEAN : ChildGoes(c, bye))
       \/ ChildCalls(c, "ask", Supervisor) \/ ChildCalls(c, "read", Supervisor)
       \/ (\E to \in Names \ {c} : ChildCalls(c, "note", to))
  \/ \E i \in DOMAIN asks, reason \in {"replied", "timeout"} : Settles(i, reason)
  \/ \E k \in DOMAIN calls : ChildGivesUp(k) \/ (\E ok \in BOOLEAN : HostAnswersRead(k, ok))

RelaySpec == RelayInit /\ [][RelayNext]_relayVars

\* Sockets deliver what was written or close, timers fire, a read ends by its
\* deadline, and a process whose leg settled has been killed.  Nothing is
\* assumed of the child's own timers, of the supervisor or of the host's start.
RelayFairness ==
  /\ \A c \in Children :
       /\ WF_relayVars(HostReads(c) \/ HostSeesClose(c))
       /\ WF_relayVars(ChildReads(c) \/ ChildSeesClose(c))
       /\ WF_relayVars(leg[c] = "settled" /\ ChildGoes(c, FALSE))
  /\ WF_relayVars(\E i \in DOMAIN asks : Settles(i, "timeout"))
  /\ WF_relayVars(\E k \in serving : HostAnswersRead(k, FALSE))

RelayFairSpec == RelaySpec /\ RelayFairness
----
Frames == [t : {"registered", "deliver", "steer", "answer"}, n : Nat, ok : BOOLEAN]
Requests == [t : {"register", "call", "cancel", "bye"}, n : Nat, ok : {TRUE}]
Calls == [by : Children, kind : CallKinds, to : Names,
          state : {"pending", "answered", "failed"}]

\* Types; a call the host took names a message of the bus.
RelayTypeOK ==
  /\ peers \subseteq Names /\ asks \in Seq(Questions)
  /\ host \in {"idle", "starting", "up", "failed", "retrying", "closed"}
  /\ leg \in [Children -> {"none", "running", "settled"}]
  /\ grant \in [Children -> {"none", "active", "bound", "revoked"}]
  /\ expected \subseteq Children
  /\ held \in [Children -> Seq(Nat)] /\ steered \in [Children -> Nat]
  /\ mailbox \in [Children -> Seq(Nat)]
  /\ conn \in [Children -> {"none", "open", "bound", "ended"}]
  /\ calls \in Seq(Calls)
  /\ relay \in Seq(Nat) /\ DOMAIN relay = DOMAIN calls
  /\ \A k \in DOMAIN relay : relay[k] \in {0} \cup DOMAIN asks
  /\ serving \subseteq DOMAIN calls
  /\ cli \in [Children -> {"off", "dialing", "handshake", "online", "offline"}]
  /\ heard \in [Children -> Seq(Nat)] /\ told \in [Children -> Seq(Nat)]
  /\ up \in [Children -> Seq(Requests)] /\ down \in [Children -> Seq(Frames)]

(* The two ends agree about every call.                                    *)
Asked(k) == Frame("call", k, TRUE) \in ToSet(up[calls[k].by])
Cancelled(k) == Frame("cancel", k, TRUE) \in ToSet(up[calls[k].by])
Answered(k) == \E f \in ToSet(down[calls[k].by]) : f.t = "answer" /\ f.n = k
OpenAtHost(k) == k \in serving \/ OpenQuestion(k)

\* A call a child waits for is on its way to the host, open there, or
\* answered on the wire, unless the connection is gone and the child about
\* to see it; and what is open at the host is waited for by a connected
\* child, or its cancellation or the end of the connection is on the way.
CallsAgree ==
  \A k \in DOMAIN calls :
    LET c == calls[k].by IN
    /\ calls[k].state = "pending" =>
         /\ cli[c] = "online"
         /\ Asked(k) \/ OpenAtHost(k) \/ Answered(k) \/ conn[c] = "ended"
    /\ OpenAtHost(k) =>
         /\ conn[c] = "bound"
         /\ k \in serving => grant[c] = "bound"
         /\ calls[k].state = "pending" \/ Cancelled(k) \/ cli[c] = "offline"

\* What a child is told about a call is what happened to it: an answer means
\* the supervisor replied to that question, a positive receipt that the bus
\* holds the note, and a question the supervisor replied to is not failed
\* by the host.
Reported(k, ok) ==
  \/ calls[k].state = IF ok THEN "answered" ELSE "failed"
  \/ Answer(k, ok) \in ToSet(down[calls[k].by])

OutcomesAreTrue ==
  \A k \in DOMAIN calls :
    /\ Reported(k, TRUE) =>
         /\ calls[k].kind = "ask" => relay[k] # 0 /\ asks[relay[k]].phase = "replied"
         /\ calls[k].kind = "note" => relay[k] # 0
    /\ Answer(k, FALSE) \in ToSet(down[calls[k].by]) =>
         relay[k] = 0 \/ asks[relay[k]].phase \notin {"note", "replied"}

(* What was accepted for a child and it has not lost: what it was shown,   *)
(* what is on the wire to it, what is kept for it.                         *)
Increasing(s) == \A i, j \in DOMAIN s : i < j => s[i] < s[j]
OnWire(t, c) == {f \in ToSet(down[c]) : f.t = t}
Numbers(F) == {f.n : f \in F}
Mail(c) == ToSet(heard[c]) \cup Numbers(OnWire("deliver", c)) \cup ToSet(mailbox[c])
Steers(c) == ToSet(told[c]) \cup Numbers(OnWire("steer", c)) \cup ToSet(held[c])

AllBefore(S, T) == \A m \in S, n \in T : m < n

\* What was shown, then what frames of type t carry, then what is kept.
InOrder(t, shown, c, kept) ==
  /\ Increasing(shown) /\ Increasing(kept)
  /\ \A i, j \in DOMAIN down[c] :
       i < j /\ down[c][i].t = t /\ down[c][j].t = t => down[c][i].n < down[c][j].n
  /\ AllBefore(ToSet(shown), Numbers(OnWire(t, c)) \cup ToSet(kept))
  /\ AllBefore(Numbers(OnWire(t, c)), ToSet(kept))

\* A child hears its mail and its steers once and in the order they were
\* accepted, across the connection that interrupts them; a connected child
\* has nothing left behind at the host.
HeardInOrder ==
  \A c \in Children :
    /\ InOrder("deliver", heard[c], c, mailbox[c])
    /\ InOrder("steer", told[c], c, held[c])
    /\ conn[c] = "bound" => mailbox[c] = <<>> /\ held[c] = <<>>

\* A message or a steer that was accepted is not dropped while the child may
\* still get it, and a later one does not come before it: only its leg's end,
\* its grant's, its own, the host's, or a host that could not start, loses one.
Gone(c) ==
  \/ leg'[c] = "settled" \/ grant'[c] = "revoked" \/ conn'[c] = "ended"
  \/ cli'[c] = "offline" \/ (host' # host /\ host' \in {"failed", "closed"})

GrowsTo(S, T) == S \subseteq T /\ AllBefore(S, T \ S)

NothingDropped ==
  [][\A c \in Children :
       Gone(c) \/ /\ GrowsTo(Mail(c), Mail(c)')
                  /\ GrowsTo(Steers(c), Steers(c)')]_relayVars

\* A settled leg leaves nothing behind: its handle, its connection, its
\* questions, its queued steers are gone for good, whatever its child was
\* doing, connecting late included.
LeftNothing(c) ==
  /\ c \notin peers /\ c \notin expected /\ held[c] = <<>>
  /\ conn[c] \in {"none", "ended"}
  /\ \A i \in DOMAIN asks : IsWaiting(i) => c \notin {asks[i].from, asks[i].to}

LegLeavesNothing == \A c \in Children : leg[c] = "settled" ~> []LeftNothing(c)

\* Every call of a child is settled without any timer of the child's.
CallsSettle ==
  \A k \in 1..MaxCalls :
    (k \in DOMAIN calls /\ calls[k].state = "pending")
      ~> (k \in DOMAIN calls /\ calls[k].state # "pending")
====
