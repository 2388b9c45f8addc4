---- MODULE AsyncRuns ----
(***************************************************************************)
(* The tracker of background runs (src/engine/async.ts, AsyncRunTracker):  *)
(* a run is launched, gets a status from its own result or from a forced   *)
(* stop, settles once, and is retained within a bound until somebody reads *)
(* its payload.                                                            *)
(*                                                                         *)
(* The run's own result sets its status two microtasks before it settles   *)
(* (then ... finally), so Finish and Settle are two steps.  A thunk that   *)
(* throws inside launch does both at once.  Clocks, labels and the queue   *)
(* for slots are left out.                                                 *)
(***************************************************************************)
EXTENDS Naturals, Sequences, SequencesExt

CONSTANTS Runs,         \* the runs of a session
          MaxRetained,  \* settled runs retained (PI_PERSONA_ASYNC_RETAIN)
          MaxDropped    \* drops remembered (MAX_DROPPED_IDS)

ASSUME RetentionAssumption == MaxRetained \in Nat \ {0} /\ MaxDropped \in Nat \ {0}

VARIABLES
  status,        \* "unborn" until launched, then AsyncRun.status
  runs,          \* keys of the runs map: what can still be fetched
  settled,       \* runs whose completion listeners have fired
  settledOrder,  \* the eviction queue: retained settled runs by settle time
  dropped,       \* droppedIds, oldest first: evicted although nobody had read them
  lost,          \* history: every run evicted so, in order
  collected      \* runs whose full payload the supervisor has read

trackerVars == <<status, runs, settled, settledOrder, dropped, lost, collected>>

Ended == {"done", "stopped"}   \* done stands for failed too: nothing here tells them apart
Statuses == {"unborn", "running"} \cup Ended
Running == {r \in Runs : status[r] = "running"}

TrackerInit ==
  /\ status = [r \in Runs |-> "unborn"]
  /\ runs = {} /\ settled = {} /\ collected = {}
  /\ settledOrder = <<>> /\ dropped = <<>> /\ lost = <<>>

TrackLaunch(R) ==
  /\ \A r \in R : status[r] = "unborn"
  /\ status' = [r \in Runs |-> IF r \in R THEN "running" ELSE status[r]]
  /\ runs' = runs \cup R
  /\ UNCHANGED <<settled, settledOrder, dropped, lost, collected>>

\* The thunk's promise settles; a run that was forced to stop ignores it.
Finish(r, how) ==
  /\ status[r] = "running" /\ r \notin settled
  /\ how \in Ended
  /\ status' = [status EXCEPT ![r] = how]
  /\ UNCHANGED <<runs, settled, settledOrder, dropped, lost, collected>>

\* prune: over the bound, the first run somebody has read goes, else the one
\* that settled longest ago; an unread loss is remembered.
\* Wrong: one too many.
FitsOneMore(order) == Len(order) <= MaxRetained + 1
Fits(order) == Len(order) <= MaxRetained

Evictable(order, at) ==
  IF \E i \in DOMAIN order : order[i] \in collected
  THEN order[at] \in collected /\ \A i \in 1..(at - 1) : order[i] \notin collected
  ELSE at = 1

\* recordDrop: the oldest drop is forgotten for a new one when there are too many.
\* Wrong: once there are enough of them no other is taken in.
KeepsOldest(victim) == IF Len(dropped) >= MaxDropped THEN dropped ELSE Append(dropped, victim)
RecordDrop(victim) == IF Len(dropped) >= MaxDropped THEN Append(Tail(dropped), victim) ELSE Append(dropped, victim)

Evict(order) ==
  \E at \in DOMAIN order :
    /\ Evictable(order, at)
    /\ settledOrder' = RemoveAt(order, at)
    /\ runs' = runs \ {order[at]}
    /\ IF order[at] \in collected
       THEN UNCHANGED <<dropped, lost>>
       ELSE dropped' = RecordDrop(order[at]) /\ lost' = Append(lost, order[at])

Prune(order) ==
  IF Fits(order)
  THEN settledOrder' = order /\ UNCHANGED <<runs, dropped, lost>>
  ELSE Evict(order)

\* settleOnce, up to its listeners.
SettleOnce(r) ==
  /\ r \notin settled
  /\ settled' = settled \cup {r}
  /\ Prune(Append(settledOrder, r))
  /\ UNCHANGED collected

TrackSettle(r) == status[r] \in Ended /\ SettleOnce(r) /\ UNCHANGED status

\* forceSettle: a run still shown as running is stopped and settled at once.
TrackForceSettle(r) ==
  /\ status[r] = "running"
  /\ status' = [status EXCEPT ![r] = "stopped"]
  /\ SettleOnce(r)

MarkCollected(r) ==
  /\ collected' = IF r \in runs THEN collected \cup {r} ELSE collected
  /\ UNCHANGED <<status, runs, settled, settledOrder, dropped, lost>>
====
