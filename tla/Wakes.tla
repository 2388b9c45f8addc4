---- MODULE Wakes ----
(***************************************************************************)
(* What wakes an idle supervisor besides its agents: alarms               *)
(* (src/core/timer.ts) and command watches, as src/extension.ts and        *)
(* src/monitor/session.ts wire them to their notifiers, their rows in the  *)
(* agent tree, the persona's permissions and session_shutdown.             *)
(*                                                                         *)
(* Every handler is synchronous and so one step.  The gate of a delivery   *)
(* (isIdle, and the floor between two deliveries, which re-arms as a busy  *)
(* supervisor does) is idle; the host may refuse a message by throwing.    *)
(*                                                                         *)
(* Command watches have the lifecycle of src/core/monitor.ts               *)
(* (MonitorManager), the process adapter of src/monitor/process.ts under   *)
(* it, and the log outcome src/monitor/archive.ts keeps of each.  A watch  *)
(* ends either with a terminal event (enough lines, exit, error, deadline) *)
(* or without one (cancelled, permission lost, shutdown, failed start).    *)
(* Ending it forgets it, clears its deadline and stops its process tree,   *)
(* in that order and in one synchronous call.                              *)
(*                                                                         *)
(* A chunk of stdout is handled line by line, so one line is one step;     *)
(* blank and repeated lines, partial lines and stderr start no event and   *)
(* are left out, with texts, tails and validation.  Node never calls back  *)
(* before spawn returns, so a watch that ends while starting is one whose  *)
(* spawn threw.                                                            *)
(***************************************************************************)
EXTENDS Naturals, FiniteSets, Sequences, SequencesExt

CONSTANTS Watches,    \* the watches of a session, one admission each
          Mode,       \* "output" or "exit"
          MaxEvents,  \* output events that end a watch
          Lines,      \* distinct lines a program prints
          MaxActive   \* MONITOR_MAX_ACTIVE

ASSUME WatchAssumption ==
  /\ Mode \in [Watches -> {"output", "exit"}]
  /\ MaxEvents \in [Watches -> Nat \ {0}]
  /\ MaxActive \in Nat \ {0}

VARIABLES
  watch,   \* "unborn", "active" while in the manager's map, then "ended"
  seen,    \* seenLines; eventsSeen is its size
  timed,   \* watches whose deadline timer is set
  proc,    \* the adapter: "none", "live", "pidless" (spawn failed, its error
           \* event is due), then stopped or ended
  killed,  \* watches whose process tree was killed
  log      \* MonitorLogRecord.outcome, "none" before the watch is announced

managerVars == <<watch, seen, timed, proc, killed, log>>

Outcomes == {"exit", "error", "timeout", "cancelled", "ended"}
Open == {"live", "pidless"}   \* active(): neither stopped nor ended

Active == {w \in Watches : watch[w] = "active"}

MonitorsInit ==
  /\ watch = [w \in Watches |-> "unborn"]
  /\ seen = [w \in Watches |-> {}]
  /\ timed = {} /\ killed = {}
  /\ proc = [w \in Watches |-> "none"]
  /\ log = [w \in Watches |-> "none"]

Admissible(w) == watch[w] = "unborn" /\ Cardinality(Active) < MaxActive

Start(w, how) ==
  /\ Admissible(w) /\ how \in Open
  /\ watch' = [watch EXCEPT ![w] = "active"]
  /\ proc' = [proc EXCEPT ![w] = how]
  /\ timed' = timed \cup {w}
  /\ log' = [log EXCEPT ![w] = "running"]
  /\ UNCHANGED <<seen, killed>>

\* spawn threw: announced, then removed without an event.
StartFails(w) ==
  /\ Admissible(w)
  /\ watch' = [watch EXCEPT ![w] = "ended"]
  /\ log' = [log EXCEPT ![w] = "cancelled"]
  /\ UNCHANGED <<seen, timed, proc, killed>>

\* stopOwned: only a process that has not ended is killed.
Stopped(p, S) == [w \in Watches |-> IF w \in S /\ p[w] \in Open THEN "stopped" ELSE p[w]]
KilledBy(p, S) == killed \cup {w \in S : p[w] = "live"}

\* finish and removeWithoutEvent: G ends with an event of this kind, C without
\* one.  p is the adapter's state when it calls.
\* Wrong: the deadline stays set.
LeaveTimed(G, C, kind, p) ==
  /\ watch' = [w \in Watches |-> IF w \in G \cup C THEN "ended" ELSE watch[w]]
  /\ timed' = timed
  /\ proc' = Stopped(p, G \cup C)
  /\ killed' = KilledBy(p, G \cup C)
  /\ log' = [w \in Watches |-> IF w \in G THEN kind ELSE IF w \in C THEN "cancelled" ELSE log[w]]

Leave(G, C, kind, p) ==
  /\ watch' = [w \in Watches |-> IF w \in G \cup C THEN "ended" ELSE watch[w]]
  /\ timed' = timed \ (G \cup C)
  /\ proc' = Stopped(p, G \cup C)
  /\ killed' = KilledBy(p, G \cup C)
  /\ log' = [w \in Watches |-> IF w \in G THEN kind ELSE IF w \in C THEN "cancelled" ELSE log[w]]

\* What makes a watch speak.
Prints(w, l) ==
  /\ proc[w] = "live" /\ watch[w] = "active"
  /\ Mode[w] = "output"
  /\ l \in Lines \ seen[w]
  /\ seen' = [seen EXCEPT ![w] = @ \cup {l}]

LastLine(w) == Cardinality(seen[w]) + 1 >= MaxEvents[w]

Fails(w) == proc[w] \in Open /\ watch[w] = "active" /\ UNCHANGED seen
Expires(w) == w \in timed /\ watch[w] = "active" /\ UNCHANGED seen
Closes(w) == proc[w] = "live" /\ watch[w] = "active" /\ UNCHANGED seen

\* The adapter is ended before it reports the exit.
\* Wrong: it reports first.
ReportedFirst(w) == proc
EndedFirst(w) == [proc EXCEPT ![w] = "ended"]

---------------------------------------------------------------------------
(* The session around them *)

CONSTANTS Alarms,      \* alarms, one admission each
          MaxArmed,    \* DEFAULT_MAX_ARMED
          Backlog,     \* queued monitor events at most (64)
          BatchLimit   \* events per message (maxBatchItems)

Ends == {"exit", "error", "timeout"}   \* what ends a watch, as its event says

ASSUME WakeAssumption ==
  /\ {MaxArmed, Backlog, BatchLimit} \subseteq Nat \ {0}
  /\ Alarms \cap Watches = {}
  /\ Lines \cap Ends = {}

VARIABLES
  alarm,      \* "unarmed", "armed", then "rung" or "cancelled"
  ringing,    \* the timer notifier: fired alarms waiting to be told
  ringTimer,  \* its flush timer is set
  queue,      \* the monitor notifier: events waiting to be told
  tellTimer,  \* its flush timer is set
  omitted,    \* queued events pushed out since the last accepted message
  rows,       \* rows of the agent tree with a stop handle
  idle,       \* a follow-up may start a turn
  permitted,  \* monitor and bash are both active and allowed
  disposed,   \* session_shutdown ran
  issued,     \* history: every event handed to the notifier
  told,       \* history: the events of accepted messages
  accounted,  \* history: events reported as omitted, or withdrawn
  withdrawn,  \* history: watches cancelled, or stopped with the permission
  heard       \* history: alarms named by an accepted message

alarmVars == <<alarm, ringing, ringTimer, heard>>
queueVars == <<queue, tellTimer, omitted, issued, told, accounted, withdrawn>>
modeVars == <<idle, permitted, disposed>>
vars == <<managerVars, alarmVars, queueVars, modeVars, rows>>

Ringer == INSTANCE IdleNotifier
  WITH pending <- ringing, armed <- ringTimer,
       flight <- [open |-> FALSE, live |-> FALSE, batch |-> {}]

WakesStart(over) ==
  /\ MonitorsInit
  /\ alarm = [t \in Alarms |-> "unarmed"] /\ ringing = {} /\ ringTimer = FALSE
  /\ queue = <<>> /\ tellTimer = FALSE /\ omitted = 0 /\ rows = {}
  /\ idle = FALSE /\ permitted \in BOOLEAN /\ disposed = over
  /\ issued = <<>> /\ told = <<>> /\ accounted = 0 /\ withdrawn = {} /\ heard = {}

Init == WakesStart(FALSE)

CanRun == permitted /\ ~disposed

\* settleWakeRow; shutdown clears the tree itself.
Settled(S) == IF disposed THEN rows ELSE rows \ S

---------------------------------------------------------------------------
\* Monitors: arming, events, cancelling.

ArmMonitor(w) ==
  /\ ~idle /\ CanRun
  /\ \/ (\E how \in Open : Start(w, how)) /\ rows' = rows \cup {w}
     \/ StartFails(w) /\ rows' = rows
  /\ UNCHANGED <<alarmVars, queueVars, modeVars>>

\* notifier.cancel and the count with it.
EmptyQueue ==
  /\ queue' = <<>> /\ tellTimer' = FALSE /\ omitted' = 0
  /\ accounted' = accounted + Len(queue) + omitted
  /\ withdrawn' = withdrawn \cup {w \in Watches : watch[w] # "unborn"}
  /\ UNCHANGED <<issued, told>>

\* cancelAll, called when G has just ended with an event of this kind.
CancelAll(G, kind, p) == Leave(G, Active \ G, kind, p) /\ EmptyQueue

\* The oldest event makes room.
\* Wrong: the limit is not looked at.
PushBeyond(e) == queue' = Append(queue, e) /\ UNCHANGED omitted

\* Wrong: nobody counts the event that made room.
PushSilently(e) ==
  /\ queue' = Append(IF Len(queue) >= Backlog THEN Tail(queue) ELSE queue, e)
  /\ UNCHANGED omitted

Push(e) ==
  IF Len(queue) >= Backlog
  THEN queue' = Append(Tail(queue), e) /\ omitted' = omitted + 1
  ELSE queue' = Append(queue, e) /\ UNCHANGED omitted

Notify(e) ==
  /\ Push(e)
  /\ tellTimer' = TRUE
  /\ issued' = Append(issued, e)
  /\ UNCHANGED <<told, accounted, withdrawn>>

\* onEvent of the session: the row first, then the permission, then the queue.
OnEvent(w, what, kind, terminal, p) ==
  LET G == IF terminal THEN {w} ELSE {} IN
  /\ IF CanRun
     THEN Leave(G, {}, kind, p) /\ Notify(<<w, what>>)
     ELSE CancelAll(G, kind, p)
  /\ rows' = Settled(G \cup (IF CanRun THEN {} ELSE Active))
  /\ UNCHANGED <<alarmVars, modeVars>>

Line(w, l) == Prints(w, l) /\ OnEvent(w, l, "ended", LastLine(w), proc)
Error(w) == Fails(w) /\ OnEvent(w, "error", "error", TRUE, proc)
Timeout(w) == Expires(w) /\ OnEvent(w, "timeout", "timeout", TRUE, proc)
Exit(w) == Closes(w) /\ OnEvent(w, "exit", "exit", TRUE, EndedFirst(w))

\* The queue without the events of w.
Others(w) == {i \in DOMAIN queue : queue[i][1] # w}
Nth(S, n) == CHOOSE i \in S : Cardinality({j \in S : j < i}) = n - 1
OfOthers(w) == [n \in 1..Cardinality(Others(w)) |-> queue[Nth(Others(w), n)]]

\* The tool, or x on the row of a watch that is still active.
\* Wrong: what it already said is still told.
DiscardNothing(w) == queue' = queue /\ UNCHANGED <<tellTimer, accounted>>

Discarding(w) ==
  /\ queue' = OfOthers(w)
  /\ tellTimer' = (tellTimer /\ queue' # <<>>)
  /\ accounted' = accounted + Len(queue) - Len(queue')

CancelMonitor(w) ==
  /\ ~disposed /\ watch[w] # "unborn"
  /\ watch[w] = "active" \/ ~idle
  /\ watch[w] = "active" \/ OfOthers(w) # queue
  /\ Discarding(w)
  /\ Leave({}, {w} \cap Active, "cancelled", proc)
  /\ rows' = Settled({w})
  /\ withdrawn' = withdrawn \cup {w}
  /\ UNCHANGED <<seen, omitted, issued, told, alarmVars, modeVars>>

\* A persona's tools go through setActiveTools, which reconciles at once; the
\* host's own tool switch does not.
PersonaChanges ==
  /\ ~disposed /\ permitted' = ~permitted
  /\ IF permitted
     THEN CancelAll({}, "cancelled", proc) /\ rows' = Settled(Active) /\ UNCHANGED seen
     ELSE UNCHANGED <<managerVars, queueVars, rows>>
  /\ UNCHANGED <<idle, disposed, alarmVars>>

ToolsSwitched ==
  /\ ~disposed /\ permitted' = ~permitted
  /\ UNCHANGED <<managerVars, queueVars, rows, idle, disposed, alarmVars>>

---------------------------------------------------------------------------
\* Alarms.

ArmAlarm(t) ==
  /\ ~idle /\ ~disposed
  /\ alarm[t] = "unarmed"
  /\ Cardinality({u \in Alarms : alarm[u] = "armed"}) < MaxArmed
  /\ alarm' = [alarm EXCEPT ![t] = "armed"]
  /\ rows' = rows \cup {t}
  /\ UNCHANGED <<ringing, ringTimer, heard, managerVars, queueVars, modeVars>>

CancelAlarm(t) ==
  /\ ~disposed /\ alarm[t] = "armed"
  /\ alarm' = [alarm EXCEPT ![t] = "cancelled"]
  /\ rows' = Settled({t})
  /\ UNCHANGED <<ringing, ringTimer, heard, managerVars, queueVars, modeVars>>

\* fire: the entry leaves the map, the row settles, the notifier hears.
Fire(t) ==
  /\ alarm[t] = "armed"
  /\ alarm' = [alarm EXCEPT ![t] = "rung"]
  /\ rows' = Settled({t})
  /\ Ringer!Enqueue(t, Alarms)
  /\ UNCHANGED <<heard, managerVars, queueVars, modeVars>>

---------------------------------------------------------------------------
\* Deliveries.  open says whether the supervisor is idle when the flush asks.

RingerDelivers(open) ==
  /\ Ringer!FlushDelivers(Alarms, open)
  /\ heard' = heard \cup ringing

RingerWaits(open) ==
  /\ Ringer!FlushHolds(Alarms, open) \/ Ringer!FlushThrows(Alarms, open)
  /\ UNCHANGED heard

Batch == SubSeq(queue, 1, IF Len(queue) < BatchLimit THEN Len(queue) ELSE BatchLimit)
AfterBatch == SubSeq(queue, Len(Batch) + 1, Len(queue))

\* isIdle asks for the permission first, and withdraws everything without it.
\* Wrong: it only asks whether the supervisor is idle.
MayTellAnything == TRUE
MayTell == CanRun

TellerDelivers(open) ==
  /\ open /\ MayTell /\ queue # <<>>
  /\ told' = told \o Batch
  /\ queue' = AfterBatch
  /\ tellTimer' = (AfterBatch # <<>>)
  /\ omitted' = 0 /\ accounted' = accounted + omitted
  /\ UNCHANGED <<issued, withdrawn, managerVars, rows>>

\* What a message the host refused, or a busy supervisor, leaves: everything,
\* and a timer.
\* Wrong: the count of omitted events is reset by the attempt.
CountIsSpent == 0
CountIsKept == omitted

TellerWaits ==
  /\ MayTell \/ queue = <<>>
  /\ tellTimer' = (queue # <<>>)
  /\ omitted' = CountIsKept
  /\ UNCHANGED <<queue, issued, told, accounted, withdrawn, managerVars, rows>>

TellerWithdraws ==
  /\ ~MayTell /\ queue # <<>>
  /\ CancelAll({}, "cancelled", proc)
  /\ rows' = Settled(Active)
  /\ UNCHANGED seen

RingTimer == ringTimer /\ UNCHANGED <<alarm, managerVars, queueVars, modeVars, rows>>
RingTimerDelivers == RingTimer /\ RingerDelivers(idle)
RingTimerWaits == RingTimer /\ RingerWaits(idle)

TellTimer == tellTimer /\ UNCHANGED <<alarmVars, modeVars>>
TellTimerDelivers == TellTimer /\ TellerDelivers(idle)
TellTimerWaits == TellTimer /\ (TellerWaits \/ TellerWithdraws)

\* agent_settled kicks both; a message of the first may already have started
\* the next turn.
Settles ==
  /\ ~idle /\ ~disposed /\ idle' = TRUE
  /\ \/ RingerDelivers(TRUE) /\ \E open \in BOOLEAN : TellerDelivers(open) \/ TellerWaits
     \/ RingerDelivers(TRUE) /\ TellerWithdraws
     \/ RingerWaits(TRUE) /\ (TellerDelivers(TRUE) \/ TellerWaits \/ TellerWithdraws)
  /\ UNCHANGED <<alarm, permitted, disposed>>

TurnStarts ==
  /\ idle /\ idle' = FALSE
  /\ UNCHANGED <<managerVars, alarmVars, queueVars, permitted, disposed, rows>>

\* session_shutdown, up to its first await.
Shutdown ==
  /\ ~disposed /\ disposed' = TRUE
  /\ alarm' = [t \in Alarms |-> IF alarm[t] = "armed" THEN "cancelled" ELSE alarm[t]]
  /\ Ringer!Cancel
  /\ CancelAll({}, "cancelled", proc)
  /\ rows' = {}
  /\ UNCHANGED <<seen, heard, idle, permitted>>

Next ==
  \/ \E w \in Watches :
       \/ ArmMonitor(w) \/ CancelMonitor(w)
       \/ Error(w) \/ Timeout(w) \/ Exit(w)
       \/ \E l \in Lines : Line(w, l)
  \/ \E t \in Alarms : ArmAlarm(t) \/ CancelAlarm(t) \/ Fire(t)
  \/ RingTimerDelivers \/ RingTimerWaits \/ TellTimerDelivers \/ TellTimerWaits
  \/ Settles \/ TurnStarts \/ PersonaChanges \/ ToolsSwitched \/ Shutdown

Spec == Init /\ [][Next]_vars

\* Timers fire, turns end, and a supervisor that is idle again and again
\* accepts a message in the end.
Fairness ==
  /\ \A t \in Alarms : WF_vars(Fire(t))
  /\ \A w \in Watches : WF_vars(Timeout(w))
  /\ WF_vars(Settles)
  /\ WF_vars(TellTimerWaits)
  /\ SF_vars(RingTimerDelivers)
  /\ SF_vars(TellTimerDelivers)

FairSpec == Spec /\ Fairness

---------------------------------------------------------------------------
Told == Watches \X (Lines \cup Ends)

\* Every variable stays in its type, and the two admission limits hold.
WakesTypeOK ==
  /\ watch \in [Watches -> {"unborn", "active", "ended"}]
  /\ seen \in [Watches -> SUBSET Lines]
  /\ timed \subseteq Watches /\ killed \subseteq Watches
  /\ proc \in [Watches -> {"none", "stopped", "ended"} \cup Open]
  /\ log \in [Watches -> {"none", "running"} \cup Outcomes]
  /\ alarm \in [Alarms -> {"unarmed", "armed", "rung", "cancelled"}]
  /\ ringing \subseteq Alarms /\ ringTimer \in BOOLEAN /\ heard \subseteq Alarms
  /\ queue \in Seq(Told) /\ Len(queue) <= Backlog /\ tellTimer \in BOOLEAN
  /\ omitted \in Nat /\ accounted \in Nat
  /\ issued \in Seq(Told) /\ told \in Seq(Told) /\ withdrawn \subseteq Watches
  /\ rows \subseteq Watches \cup Alarms
  /\ {idle, permitted, disposed} \subseteq BOOLEAN
  /\ Cardinality(Active) <= MaxActive

\* core/monitor.ts:70 and session.ts:9 promise one end for each announced
\* watch.  A watch is active exactly while its deadline is set, its process is
\* not stopped, its log is running and its row is shown; an alarm is armed
\* exactly while its row is shown; nothing outlives the session; and a process
\* that closed by itself is not killed afterwards (its pid may be another's).
WakesAgree ==
  /\ \A w \in Watches :
       /\ watch[w] = "active" <=> w \in timed
       /\ watch[w] = "active" <=> proc[w] \in Open
       /\ watch[w] = "active" <=> log[w] = "running"
       /\ watch[w] = "active" <=> w \in rows
       /\ log[w] = "exit" => w \notin killed
  /\ \A t \in Alarms : alarm[t] = "armed" <=> t \in rows
  /\ disposed => rows = {} /\ ringing = {} /\ queue = <<>> /\ ~ringTimer /\ ~tellTimer

Before(a, b) == \E k, l \in DOMAIN issued : k < l /\ issued[k] = a /\ issued[l] = b

\* MONITORS.md:115: what a busy supervisor could not take is reported.  Every
\* event is told, queued, withdrawn or counted in the next message's note, the
\* supervisor hears them in the order they happened, and a fired alarm is
\* waiting or heard.
NothingUnaccounted ==
  /\ Len(issued) = Len(told) + Len(queue) + omitted + accounted
  /\ \A k, l \in DOMAIN issued : issued[k] = issued[l] => k = l
  /\ ToSet(told \o queue) \subseteq ToSet(issued)
  /\ \A i, j \in DOMAIN (told \o queue) : i < j => Before((told \o queue)[i], (told \o queue)[j])
  /\ ~disposed => \A t \in Alarms : alarm[t] = "rung" => t \in ringing \cup heard

\* MONITORS.md:100,123: nothing of a watch that was cancelled, or that a lost
\* permission stopped, is told afterwards, not even once the permission is
\* back; and nothing is told without the permission.
SilentWhenWithdrawn ==
  [][\A i \in (Len(told) + 1)..Len(told') : CanRun /\ told'[i][1] \notin withdrawn]_vars

\* Every alarm rings and is heard, every watch ends and its events are told,
\* unless somebody cancels or the session ends.
EveryWakeLands ==
  /\ \A t \in Alarms :
       (alarm[t] = "armed" \/ t \in ringing) ~> (alarm[t] # "armed" /\ t \notin ringing)
  /\ \A w \in Watches : watch[w] = "active" ~> watch[w] = "ended"
  /\ queue # <<>> ~> queue = <<>>
====
