---- MODULE IdleNotifier ----
(***************************************************************************)
(* IdleCoalescingNotifier (src/engine/async.ts): buffers items and hands   *)
(* them over as one message, only while the supervisor is idle.  A timer   *)
(* is armed only while something is ready; one delivery is in flight at a  *)
(* time; a refused one goes back to the queue.                             *)
(*                                                                         *)
(* Which items are ready, and whether a delivery may go out now (isIdle,   *)
(* and the rate limits that re-arm exactly as a busy supervisor does), are *)
(* parameters of the operators.  A batch takes all that is ready (no       *)
(* maxBatchItems), so the order of the buffer decides nothing and it is a  *)
(* set.  An empty render is a renderer's bug and left out.                 *)
(***************************************************************************)

VARIABLES
  pending,   \* buffered items
  armed,     \* a flush timer is set
  flight     \* the delivery the host has not acknowledged: flushing,
             \* activeBatch and whether its generation is still current

notifierVars == <<pending, armed, flight>>

NoFlight == [open |-> FALSE, live |-> FALSE, batch |-> {}]
Flying(batch) == [open |-> TRUE, live |-> TRUE, batch |-> batch]

NotifierInit == pending = {} /\ armed = FALSE /\ flight = NoFlight

\* arm: nothing to do when a timer is set or nothing is ready.
Armable(queue, ready) == queue \cap ready # {}
Armed(queue, ready) == armed \/ Armable(queue, ready)

\* Wrong: a notification counts on a timer being set already.
EnqueueQuietly(x, ready) == pending' = pending \cup {x} /\ UNCHANGED <<armed, flight>>
Enqueue(x, ready) ==
  /\ pending' = pending \cup {x}
  /\ armed' = Armed(pending', ready)
  /\ UNCHANGED flight

\* What a flush that may deliver hands over.
\* Wrong: everything buffered, ready or not.
BatchOfAll(ready) == pending
BatchOf(ready) == pending \cap ready

\* flushIfIdle joins a flight that is under way (the timer that called it is
\* spent); otherwise it clears the timer first, and sets it again when
\* something ready has to wait.
FlushJoinsFlight(byTimer) ==
  /\ flight.open
  /\ armed' = (armed /\ ~byTimer)
  /\ UNCHANGED <<pending, flight>>

FlushHolds(ready, open) ==
  /\ ~flight.open
  /\ ~open \/ ~Armable(pending, ready)
  /\ armed' = Armable(pending, ready)
  /\ UNCHANGED <<pending, flight>>

Handing(ready, open) == ~flight.open /\ open /\ Armable(pending, ready)

\* The host took the message before returning.
FlushDelivers(ready, open) ==
  /\ Handing(ready, open)
  /\ pending' = pending \ BatchOf(ready)
  /\ armed' = FALSE
  /\ UNCHANGED flight

\* Wrong: a batch the host refused is gone.
RefusedBatchIsLost(batch, queue) == queue
Requeued(batch, queue) == batch \cup queue

\* The host threw.
FlushThrows(ready, open) ==
  /\ Handing(ready, open)
  /\ pending' = Requeued(BatchOf(ready), pending \ BatchOf(ready))
  /\ armed' = Armable(pending', ready)
  /\ UNCHANGED flight

\* The host returned a promise.
FlushTakesOff(ready, open) ==
  /\ Handing(ready, open)
  /\ pending' = pending \ BatchOf(ready)
  /\ flight' = Flying(BatchOf(ready))
  /\ armed' = FALSE

\* The promise settles; whatever is ready by then gets a timer.  A batch whose
\* generation was cancelled is not put back.
Land(ready) ==
  /\ flight.open
  /\ flight' = NoFlight
  /\ armed' = Armed(pending, ready)
  /\ UNCHANGED pending

\* Wrong: the generation is not compared.
BatchOfAnyGeneration == flight.batch
ReturnedBatch == IF flight.live THEN flight.batch ELSE {}

Bounce(ready) ==
  /\ flight.open
  /\ flight' = NoFlight
  /\ pending' = Requeued(ReturnedBatch, pending)
  /\ armed' = Armed(pending', ready)

\* discard: items somebody fetched leave the queue and any retry.
Discard(S) ==
  /\ pending' = pending \ S
  /\ flight' = [flight EXCEPT !.batch = @ \ S]
  /\ armed' = (armed /\ pending' # {})

Cancel ==
  /\ pending' = {}
  /\ armed' = FALSE
  /\ flight' = [flight EXCEPT !.live = FALSE]
====
