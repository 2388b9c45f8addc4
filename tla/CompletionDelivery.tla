---- MODULE CompletionDelivery ----
(***************************************************************************)
(* How the result of a background run reaches the supervisor: the tracker  *)
(* and the notifier as src/extension.ts wires them, with the tools that    *)
(* launch, stop, read and join runs (delegate, council and flow through    *)
(* background-run.ts, intercom).                                           *)
(*                                                                         *)
(* A fan-out's legs form a batch and are reported once none of them is     *)
(* running.  A run is told through exactly one of three doors: a follow-up *)
(* message, an explicit read (intercom result), or the return of a call    *)
(* that joined it (headless sessions).                                     *)
(***************************************************************************)
EXTENDS AsyncRuns, IdleNotifier, FiniteSets

CONSTANT Batches   \* the calls: a partition of Runs

ASSUME BatchAssumption ==
  /\ UNION Batches = Runs
  /\ \A B, C \in Batches : B # C => B \cap C = {}

VARIABLES
  owned,      \* runs of a companion (delivery "companion"): never told here
  headless,   \* no operator: calls join the runs they launch
  idle,       \* canDeliverPersonaNotification: a follow-up may start a turn
  joining,    \* calls waiting for all their runs to settle
  stopAsked,  \* live runs whose abort was requested (stopRequested)
  disposed,   \* session_shutdown ran
  letter,     \* the runs named by the message in flight
  sent,       \* [run -> accepted messages that name it]
  read,       \* settled runs whose payload was read explicitly
  returned    \* runs whose report was the return of the joining call

sessionVars == <<owned, headless, idle, joining, stopAsked, disposed>>
toldVars == <<letter, sent, read, returned>>
vars == <<trackerVars, notifierVars, sessionVars, toldVars>>

Siblings(r) == UNION {B \in Batches : r \in B}

\* batchSettled, asked of the live tracker.
Ready(st) == {r \in Runs : \A s \in Siblings(r) : st[s] # "running"}

Init ==
  /\ TrackerInit /\ NotifierInit
  /\ headless \in BOOLEAN /\ owned = {}
  /\ idle = FALSE /\ disposed = FALSE
  /\ joining = {} /\ stopAsked = {}
  /\ letter = {} /\ sent = [r \in Runs |-> 0] /\ read = {} /\ returned = {}

\* A tool call of the running turn launches all its legs at once.
Launch(B) ==
  /\ ~idle /\ ~disposed
  /\ TrackLaunch(B)
  /\ joining' = IF headless THEN joining \cup {B} ELSE joining
  /\ UNCHANGED <<notifierVars, owned, headless, idle, stopAsked, disposed, toldVars>>

\* A companion launches its own run at any time and joins nothing.
LaunchOwned(B) ==
  /\ ~disposed /\ \E r \in B : B = {r}
  /\ TrackLaunch(B)
  /\ owned' = owned \cup B
  /\ UNCHANGED <<notifierVars, headless, idle, joining, stopAsked, disposed, toldVars>>

\* Only an abort makes a run's own result "stopped".
End(r) ==
  /\ \E how \in Ended : (how = "stopped" => r \in stopAsked) /\ Finish(r, how)
  /\ UNCHANGED <<notifierVars, sessionVars, toldVars>>

\* Wrong: teardown does not silence late completions.
NotifyAlways(r) == r \notin owned
Notifies(r) == r \notin owned /\ ~disposed

\* The completion listener of extension.ts.
Completed(r) ==
  /\ IF Notifies(r) THEN Enqueue(r, Ready(status')) ELSE UNCHANGED notifierVars
  /\ stopAsked' = stopAsked \ {r}
  /\ UNCHANGED <<owned, headless, idle, joining, disposed, toldVars>>

Settle(r) == TrackSettle(r) /\ Completed(r)

\* intercom stop: the first use aborts, a repeated one clears a run that is
\* still shown as running.
Stop(r) ==
  /\ ~disposed /\ status[r] = "running" /\ r \notin stopAsked
  /\ stopAsked' = stopAsked \cup {r}
  /\ UNCHANGED <<trackerVars, notifierVars, owned, headless, idle, joining, disposed, toldVars>>

StopAgain(r) == ~disposed /\ r \in stopAsked /\ ~idle /\ TrackForceSettle(r) /\ Completed(r)

\* intercom result, a page that ends the report.
Collect(r) ==
  /\ ~idle /\ ~disposed
  /\ r \in runs /\ status[r] # "running"
  /\ Discard({r})
  /\ MarkCollected(r)
  /\ read' = IF r \in settled THEN read \cup {r} ELSE read
  /\ UNCHANGED <<sessionVars, letter, sent, returned>>

\* settle: "this return IS the delivery".
JoinReturn(B) ==
  /\ B \in joining /\ B \subseteq settled
  /\ joining' = joining \ {B}
  /\ Discard(B)
  /\ returned' = returned \cup B
  /\ UNCHANGED <<trackerVars, owned, headless, idle, stopAsked, disposed, letter, sent, read>>

TurnStarts ==
  /\ idle /\ idle' = FALSE
  /\ UNCHANGED <<trackerVars, notifierVars, owned, headless, joining, stopAsked, disposed>>
  /\ UNCHANGED toldVars

\* isIdle turns true with no hook that kicks the notifier (an orchestration or
\* an idle compaction ended, or agent_settled returned early).
BusyEnds ==
  /\ ~idle /\ joining = {} /\ idle' = TRUE
  /\ UNCHANGED <<trackerVars, notifierVars, owned, headless, joining, stopAsked, disposed>>
  /\ UNCHANGED toldVars

\* One call of flushIfIdle, the supervisor's idleness being open.
Told(S) == sent' = [r \in Runs |-> IF r \in S THEN sent[r] + 1 ELSE sent[r]]

Delivers(open) ==
  /\ FlushDelivers(Ready(status), open)
  /\ Told(BatchOf(Ready(status)))
  /\ UNCHANGED letter

Departs(open) ==
  /\ FlushTakesOff(Ready(status), open)
  /\ letter' = BatchOf(Ready(status))
  /\ UNCHANGED sent

Waits(open, byTimer) ==
  /\ \/ FlushJoinsFlight(byTimer)
     \/ FlushHolds(Ready(status), open)
     \/ FlushThrows(Ready(status), open)
  /\ UNCHANGED <<letter, sent>>

Rest == UNCHANGED <<trackerVars, owned, headless, joining, stopAsked, disposed, read, returned>>

OnTimer == armed /\ UNCHANGED idle /\ Rest
TimerDelivers == OnTimer /\ Delivers(idle)
TimerDeparts == OnTimer /\ Departs(idle)
TimerWaits == OnTimer /\ Waits(idle, TRUE)

\* The agent_settled hook.
OnSettled == ~idle /\ ~disposed /\ joining = {} /\ idle' = TRUE /\ Rest
SettledDelivers == OnSettled /\ Delivers(TRUE)
SettledDeparts == OnSettled /\ Departs(TRUE)
SettledWaits == OnSettled /\ Waits(TRUE, FALSE)

Arrives ==
  /\ Land(Ready(status))
  /\ Told(letter) /\ letter' = {}
  /\ UNCHANGED <<trackerVars, sessionVars, read, returned>>

IsRefused ==
  /\ Bounce(Ready(status))
  /\ letter' = {}
  /\ UNCHANGED <<trackerVars, sessionVars, sent, read, returned>>

\* session_shutdown: every live run is aborted.
Dispose ==
  /\ ~disposed /\ disposed' = TRUE
  /\ Cancel
  /\ stopAsked' = Running
  /\ UNCHANGED <<trackerVars, owned, headless, idle, joining, toldVars>>

RunSteps == \E r \in Runs : End(r) \/ Settle(r) \/ Stop(r) \/ StopAgain(r) \/ Collect(r)
CallSteps == \E B \in Batches : Launch(B) \/ LaunchOwned(B) \/ JoinReturn(B)
HostSteps == TurnStarts \/ BusyEnds \/ Arrives \/ IsRefused \/ Dispose
Flushes ==
  \/ TimerDelivers \/ TimerDeparts \/ TimerWaits
  \/ SettledDelivers \/ SettledDeparts \/ SettledWaits

Next == RunSteps \/ CallSteps \/ HostSteps \/ Flushes

(***************************************************************************)
(* Runs end (the engine's deadlines), promise reactions and timers run,    *)
(* turns end, a promise of the host settles, and a host that is offered a  *)
(* message again and again takes it in the end.                            *)
(***************************************************************************)
Fairness ==
  /\ \A r \in Runs : WF_vars(End(r)) /\ WF_vars(Settle(r))
  /\ \A B \in Batches : WF_vars(JoinReturn(B))
  /\ WF_vars(TimerDelivers \/ TimerDeparts \/ TimerWaits)
  /\ WF_vars(SettledDelivers \/ SettledDeparts \/ SettledWaits)
  /\ WF_vars(Arrives \/ IsRefused)
  /\ SF_vars(TimerDelivers \/ SettledDelivers)

Spec == Init /\ [][Next]_vars
FairSpec == Spec /\ Fairness

----
\* Every variable has its type; a run is retained until it settles, and the
\* settled ones retained are those in the eviction queue, within the bound
\* (AsyncRunTracker.prune never evicts a running run).
DeliveryTypeOK ==
  /\ status \in [Runs -> Statuses]
  /\ settled \subseteq Runs /\ collected \subseteq Runs
  /\ ToSet(dropped) \subseteq ToSet(lost) /\ Len(dropped) <= MaxDropped /\ ToSet(lost) \subseteq settled
  /\ Len(settledOrder) <= MaxRetained
  /\ Cardinality(ToSet(settledOrder)) = Len(settledOrder)
  /\ runs = {r \in Runs : status[r] # "unborn" /\ r \notin settled} \cup ToSet(settledOrder)
  /\ pending \subseteq Runs /\ armed \in BOOLEAN
  /\ flight \in [open : BOOLEAN, live : BOOLEAN, batch : SUBSET Runs]
  /\ owned \subseteq Runs /\ headless \in BOOLEAN /\ idle \in BOOLEAN /\ disposed \in BOOLEAN
  /\ joining \subseteq Batches /\ stopAsked \subseteq Runs
  /\ letter \subseteq Runs /\ sent \in [Runs -> Nat]
  /\ read \subseteq Runs /\ returned \subseteq Runs

\* A payload nobody read is not lost without a word: a settled run can still be
\* fetched, or was read, or is remembered as dropped, so that the tool explains
\* the miss; only what MaxDropped younger losses followed is forgotten.  And
\* nothing is called dropped that was read or can be fetched (async.ts:108-110
\* and 292-296; prune, recordDrop, wasDropped).
Forgotten == {lost[i] : i \in {k \in DOMAIN lost : k + MaxDropped <= Len(lost)}}
NoSilentLoss ==
  /\ settled \subseteq runs \cup collected \cup ToSet(dropped) \cup Forgotten
  /\ ToSet(dropped) \cap (runs \cup collected) = {}

\* Until teardown, a settled run is waiting to be told or has been told, and
\* never both: what was accepted, read or returned is not queued for another
\* message, and at most one accepted message names a run, none if its report
\* was returned (settleOnce, discard and the retry of flushIfIdle together).
Waiting == pending \cup flight.batch
ToldSet == {r \in Runs : sent[r] > 0} \cup read \cup returned
ToldExactlyOnce ==
  ~disposed =>
    /\ settled \ owned \subseteq Waiting \cup ToldSet
    /\ Waiting \cap ToldSet = {}
    /\ \A r \in Runs : sent[r] <= IF r \in returned THEN 0 ELSE 1

\* Something ready never waits without a timer or a flight to move it, unless
\* a run of its batch has its result and is about to settle: the tracker does
\* not poll, so a missed arm would strand a report (arm, notify).
NoLostWake ==
  \A r \in pending \cap Ready(status) :
    armed \/ flight.open \/ \E s \in Siblings(r) : status[s] \in Ended /\ s \notin settled

\* After teardown nothing is buffered and no timer is set, whatever settles or
\* bounces later: a session's reports never wake the next one (cancel, the
\* generation check and the disposed check of the completion listener).
QuietAfterDispose == disposed => pending = {} /\ ~armed

\* The two together: the idle timer stands for a report, and for a live session.
TimerServesReports == NoLostWake /\ QuietAfterDispose

\* A message carries its batches whole: when it leaves, no leg of a batch it
\* names is running, and none that settled stays behind in the buffer
\* (batchSettled as isReady; readyItems).
Leaving == pending \ (pending' \cup read' \cup returned')
TravelsTogether ==
  \A r \in Leaving : ~disposed' =>
    \A s \in Siblings(r) : status[s] # "running" /\ s \notin pending'
BatchTravelsTogether == [][Flushes => TravelsTogether]_vars

\* Every run that settles is told in the end, unless the session is torn down.
EverySettledRunIsTold ==
  \A r \in Runs : r \in settled \ owned ~> (r \in ToldSet \/ disposed)
====
