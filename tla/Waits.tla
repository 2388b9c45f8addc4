---- MODULE Waits ----
(***************************************************************************)
(* exocom_wait: src/exocom/install.ts, one session and an ask it has sent. *)
(* The tool call reads the ledger, arms a waiter and a timer, reads the    *)
(* ledger again and returns; the answer comes back through the ledger, and *)
(* a frame on the wire may wake the waiter sooner.                         *)
(*                                                                         *)
(* A call runs to its end in one turn of the event loop, so no callback of *)
(* this session runs within it; other sessions commit between its steps.   *)
(***************************************************************************)
EXTENDS Integers, Sequences

CONSTANTS Waits   \* the calls of exocom_wait for the ask

VARIABLES
  ask,      \* the ask in the ledger: "pending", "answered", or "gone"
  inPool,   \* the registry lists the peer
  wait,     \* [wait -> at; since: the ask at its registration; timer; listed; ends]
  wake,     \* the answer's frame: "none", "sent", "over"
  notices,  \* queued for the model, about this ask
  up        \* the plane runs

waitVars == <<ask, inPool, wait, wake, notices, up>>

NoWait == [at |-> "free", since |-> "pending", timer |-> FALSE, listed |-> FALSE, ends |-> <<>>]

WaitsStart(open) ==
  /\ ask = "pending" /\ inPool = TRUE /\ wait = [w \in Waits |-> NoWait]
  /\ wake = "none" /\ notices = {} /\ up = open

WaitsInit == WaitsStart(TRUE)

Between == \A w \in Waits : wait[w].at \notin {"read", "registered"}
Waiters == {w \in Waits : wait[w].listed}

\* Wrong: the timer of the waiter is left running.
EndedTicking(r, how) == [r EXCEPT !.at = "over", !.listed = FALSE, !.ends = Append(@, how)]

\* However a waiter ends, disarm or its own callback stops its timer.
Ended(r, how) == [r EXCEPT !.at = "over", !.timer = FALSE, !.listed = FALSE, !.ends = Append(@, how)]

\* expireWaiters: reading the ledger drops an ask whose peer is not in the pool,
\* unless the registry cannot be read just then.
Leavers(sees) == IF ask = "pending" /\ ~inPool /\ sees THEN Waiters ELSE {}
Expiring(gone, ws) == [w \in Waits |-> IF w \in gone THEN Ended(ws[w], "left") ELSE ws[w]]
LeftNotice(gone) == IF gone = {} THEN {} ELSE {"left"}
Pending(sees) == ask = "pending" /\ (inPool \/ ~sees)

\* Wrong: the notices about an ask that was answered stay queued.
NothingStale == {}

\* An answer returned by the call makes the queued notices about the ask stale.
Stale == notices

FirstRead(w) ==
  /\ up /\ Between /\ wait[w].at = "free"
  /\ \/ /\ ask = "answered"
        /\ wait' = [wait EXCEPT ![w] = Ended(@, "returned")] /\ notices' = notices \ Stale
     \/ \E sees \in BOOLEAN :
          /\ ask # "answered"
          /\ wait' = Expiring(Leavers(sees), [wait EXCEPT ![w] =
                        IF Pending(sees) THEN [@ EXCEPT !.at = "read"] ELSE Ended(@, "threw")])
          /\ notices' = notices \union LeftNotice(Leavers(sees))
     \/ wait' = [wait EXCEPT ![w] = Ended(@, "threw")] /\ UNCHANGED notices
  /\ UNCHANGED <<ask, inPool, wake, up>>

Register(w) ==
  /\ wait[w].at = "read"
  /\ wait' = [wait EXCEPT ![w] = [@ EXCEPT !.at = "registered", !.since = ask, !.timer = TRUE, !.listed = TRUE]]
  /\ UNCHANGED <<ask, inPool, wake, notices, up>>

\* Wrong: no second read.
SeesNothing == FALSE

SeesAnswer == ask = "answered"

\* The second read, and the return of the call.  A read that fails disarms.
SecondRead(w) ==
  /\ wait[w].at = "registered"
  /\ \/ /\ SeesAnswer
        /\ wait' = [wait EXCEPT ![w] = Ended(@, "returned")] /\ notices' = notices \ Stale
     \/ \E sees \in BOOLEAN :
          /\ ~SeesAnswer
          /\ wait' = Expiring(Leavers(sees), [wait EXCEPT ![w].at = "armed"])
          /\ notices' = notices \union LeftNotice(Leavers(sees))
     \/ wait' = [wait EXCEPT ![w] = Ended(@, "threw")] /\ UNCHANGED notices
  /\ UNCHANGED <<ask, inPool, wake, up>>

\* Wrong: the timer does not look at the ledger.
TimerSays == "timed out"

TimerFinds == IF ask = "answered" THEN "answer" ELSE "timed out"

\* The timer's callback: the ledger is read once more.
WaitTimesOut(w) ==
  /\ up /\ Between /\ wait[w].timer
  /\ \/ \E sees \in BOOLEAN : LET others == Leavers(sees) \ {w} IN
          /\ wait' = Expiring(others, [wait EXCEPT ![w] = Ended(@, TimerFinds)])
          /\ notices' = notices \union LeftNotice(others) \union {TimerFinds}
     \/ wait' = [wait EXCEPT ![w] = Ended(@, "unreadable")] /\ notices' = notices \union {"unreadable"}
  /\ UNCHANGED <<ask, inPool, wake, up>>

\* exocomHeartbeatTick, with waiters to look after; any tool reads the same way.
Upkeep ==
  /\ up /\ Between /\ \E sees \in BOOLEAN :
       /\ Leavers(sees) # {}
       /\ wait' = Expiring(Leavers(sees), wait) /\ notices' = notices \union LeftNotice(Leavers(sees))
  /\ UNCHANGED <<ask, inPool, wake, up>>

\* The peer commits its answer, then looks for the asker and writes the frame.
PeerAnswers(wakes) ==
  /\ ask = "pending" /\ ask' = "answered"
  /\ wake' = IF wakes THEN "sent" ELSE "over"
  /\ UNCHANGED <<inPool, wait, notices, up>>

\* onSemantic.  It is refused over budget, or when the ledger cannot be read:
\* the answer's wake is deferred for good.
WakeArrives(taken) ==
  /\ wake = "sent" /\ wake' = "over" /\ (taken => up /\ Between)
  /\ wait' = IF taken THEN [w \in Waits |-> IF w \in Waiters THEN Ended(wait[w], "answer") ELSE wait[w]]
             ELSE wait
  /\ notices' = IF taken THEN notices \union {"answer"} ELSE notices
  /\ UNCHANGED <<ask, inPool, up>>

\* Another session's commit writes the ledger without the ask.
Pruned == ask = "pending" /\ ~inPool /\ ask' = "gone" /\ UNCHANGED <<inPool, wait, wake, notices, up>>

PoolChanges == inPool' = ~inPool /\ UNCHANGED <<ask, wait, wake, notices, up>>

\* The notifier hands its queue to the model.
Told == up /\ Between /\ notices # {} /\ notices' = {} /\ UNCHANGED <<ask, inPool, wait, wake, up>>

\* stopExocom: the timers and the queue go, and the session lets go of its asks.
StopExocom ==
  /\ up /\ Between /\ up' = FALSE /\ notices' = {}
  /\ wait' = [w \in Waits |-> IF w \in Waiters THEN Ended(wait[w], "cancelled") ELSE wait[w]]
  /\ ask' \in {ask, IF ask = "pending" THEN "gone" ELSE ask}
  /\ UNCHANGED <<inPool, wake>>

WaitsNext ==
  \/ \E w \in Waits : FirstRead(w) \/ Register(w) \/ SecondRead(w) \/ WaitTimesOut(w)
  \/ \E b \in BOOLEAN : PeerAnswers(b) \/ WakeArrives(b)
  \/ Upkeep \/ Pruned \/ PoolChanges \/ Told \/ StopExocom

\* The wire is not fair; a call ends, and a timer that was armed rings.  Each
\* call ends once, so fairness to all of them together is fairness to each.
WaitsFairness ==
  /\ WF_waitVars(\E w \in Waits : Register(w) \/ SecondRead(w))
  /\ SF_waitVars(\E w \in Waits : WaitTimesOut(w))

---------------------------------------------------------------------------
\* install.ts:497: a wait ends one way and once, and until then both a waiter
\* and a timer look after it.  It never says "waiting" for an answer the ledger
\* already held when it registered, never ends with a timeout the ledger
\* contradicts, and leaves no notice an answer it returned made false.
WaitsAreTrue == \A w \in Waits :
  LET r == wait[w]  ends == {r.ends[i] : i \in DOMAIN r.ends} IN
  /\ Len(r.ends) <= 1 /\ (r.listed <=> r.timer) /\ (r.at = "armed" => r.listed)
  /\ r.at = "armed" => r.since # "answered"
  /\ "returned" \in ends => notices \cap {"timed out", "left"} = {}

\* install.ts:494: every wait that was armed ends, and with the answer if the
\* ledger has it by then: a wake that was lost costs time only.
WaitsEnd ==
  /\ <>[](\A w \in Waits : ~wait[w].listed)
  /\ [][\A w \in Waits : wait[w].listed /\ ~wait'[w].listed /\ ask = "answered" =>
          wait'[w].ends \in {<<"answer">>, <<"returned">>, <<"threw">>, <<"unreadable">>, <<"cancelled">>}]_waitVars
====
