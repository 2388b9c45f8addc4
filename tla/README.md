# pi-persona: a TLA+ verification development

pi-persona turns a Pi session into a supervisor that delegates work to sub-agents,
talks to them while they run, shares a workspace with other sessions, and wakes
itself when something it waits for has happened.  This directory holds TLA+ models
of the parts of it that are hard to test, the TLC configurations that check them on
small instances, and TLAPS proofs of the results that matter for any instance.

Paths below are relative to the repository; line numbers are of `src/...`.

## 1. Components

| Component | State it keeps | Operations | What makes it correct |
|---|---|---|---|
| **Coordination bus** `bus/inproc.ts` | mailboxes per handle, pending asks with timer and abort listener, a window of drained messages | `register`, `unregister`, `send`, `ask`, `reply`, `take`, `takeWhere` | a blocked asker is never stranded; one outcome per ask; the shared envelope tells the truth |
| **Contact tools, broker** `bus/contact.ts`, `bus/peers.ts`, `bus/broker/*`, `bridge.ts`, `extension/broker-host.ts` | connections, asks in flight on both ends, receipts, steers held for a child that has not connected, reader grants | register, send, ask, cancel, list, read, steer, close | both ends agree on what is open; no mail lost or reordered; a leg leaves nothing behind |
| **Work ledger** `exocom/ledger.ts`, `exocom/collaboration.ts` | one JSONL journal per workspace, its sidecar lock | lock, recover, prune, commit, compact | transactions are serial; acknowledged facts survive crashes; the file always loads; task and claim go together |
| **Background runs** `engine/async.ts` (`AsyncRunTracker`) | status, retained payloads, settle order, remembered drops | launch, finish, force-settle, collect, prune | each run settles once; a payload nobody read does not go without a record, of which a bounded number is kept |
| **Idle delivery** `engine/async.ts` (`IdleCoalescingNotifier`), wired in `extension.ts`, `tools/background-run.ts`, `tools/intercom-tool.ts` | buffer, flush timer, flight, generation | notify, flush, retry, discard, cancel | every report is told exactly once, a fan-out as one, nothing after teardown |
| **Timers and monitors** `core/timer.ts`, `core/monitor.ts`, `monitor/*` | armed alarms, watched processes, queued events | arm, fire, cancel, exit, timeout | each source ends exactly once |
| **Engines** `engine/inproc.ts`, `engine/child.ts`, `engine/adapter.ts`, `engine/fallback.ts` | a leg's session or process, its deadlines, the recursion guard | run, steer, abort, time out, fall back | a leg settles once and releases what it took; a leg waiting for an answer is not killed for being idle |
| **Worktrees, change reports** `engine/worktree.ts`, `engine/change-report.ts`, `extension/engine.ts` | a checkout per isolated leg, snapshots of `git status` | create, run, diff, remove, prune; snapshot, compare | what a leg made is handed over; no checkout is left registered; a report says what changed |
| **Orchestration** `orchestration/*` | slots, limits, attempts, waves of legs | fan out, retry, recover, stop, vote, reduce | slots come back; limits hold; verdicts are earned and billed |
| **Flows** `orchestration/flow*.ts`, `tools/flow.ts` | a journal per flow, results it refers to, checkpoints | run, resume, stop, approve | a resumed flow repeats nothing; only what was approved releases dependents |
| **Delegation** `tools/delegate*.ts`, `tools/background-run.ts`, `tools/intercom-tool.ts` | slots of the call and of the session, strikes, rows, stalls, a poll guard | launch, refuse, stop, watch, peek | verifiers and writers are kept apart; what failed twice is vetoed; rows and stalls are true |
| **Turns and calls of the supervisor** `extension/hooks.ts`, `core/nudge.ts`, `core/session-runs.ts` | the deferred orchestrations, the ruling of a prompt, open calls, reminders, the entry of runs | input, tool_call, tool_result, settle, start, shut down | each ruling reaches its turn, each call ends once in the record, lost work is reported once |
| **Screen** `ui/agent-tree.ts`, `extension.ts` | rows, stop and steer handles | add, update, clear, stop, steer | rows and handles match the runs that live |
| **Persona** `persona/*`, `extension/memory-owner.ts`, `extension/persona-*.ts` | the active persona, what it overrode, the line of pickers | switch, restore, pick, edit | what was overridden comes back; nobody is asked twice; companions hear of the persona in force |
| **Exocom plane** `exocom/plane.ts`, `registry.ts`, `inbound.ts`, `guards.ts`, `install.ts` | registry of heartbeats, sockets between sessions, spilled files, guards, the inbox, waiters | join, beat, prune, send, receive, wake, wait | a live session is not forgotten; a sender is told the truth; what is accepted is told; a wait sees the answer that raced it |
| **Files of all sessions** `persona/settings-store.ts`, `core/seed.ts`, `core/data-root.ts`, `telemetry/*`, `results/*`, `monitor/archive.ts` | settings, seeded defaults, the data directory, logs, reports | save, import, upgrade, move, append, compact, prune, archive | what the user or a session left is kept, whatever crashes |

The components meet in `extension.ts`: one bus, one tracker and a handful of notifiers
per session, all torn down by `session_shutdown` (`extension/hooks.ts:291`).  Everything
in one session runs on one JavaScript thread, so the interleavings that matter are those
of callbacks: timers, promise reactions, socket and process events, hooks of the host,
and tool calls of the supervisor's turn.  True concurrency is between processes: sessions
that share a ledger, and a child process on its socket.

## 2. What is hard to test here

`PROJECT.json` lists each hazard at the line where it bites.  In short: settlements that
race (reply, timeout, abort, departure; forced stop and natural end), bounded stores that
must choose what to drop (mailboxes, retained payloads), crash points inside file writes,
a lock whose owner may be dead, state read before a lock and used under it, batches that
must stay together, and callbacks that come after teardown; calls of git that fail between
two others; switches of persona that overlap; and queues, lines and windows at their limit.

## 3. Plan

Order of work, most important behaviour first.  Modules marked + exist.

1. + `InProcBus`, with `AskContract` as the abstract promise it implements; `NoticeProofs`.
2. + `LedgerLock`, `LedgerRules`, `LedgerStore`: the lock alone, the pure rules, and the file under both; `LedgerProofs`.
3. + `AsyncRuns`, `IdleNotifier` composed by `CompletionDelivery`; `DeliveryProofs`.
4. + `BrokerRelay`: child, socket and host, over `AskContract` as the bus; proofs in `DeliveryProofs`.
5. + `Wakes`: alarms and command watches over their notifiers; proofs in `NoticeProofs`.
6. + `InProcLegs`, `ChildLeg` composed by `EngineRuns`, over `LegContract`: deadlines, cancellation, fallback.
7. + `Slots`, `StrategyPrograms`, `StrategyRuns`, `Flows`: the SDK, every strategy, flows and their journals.
8. + `Turns`, `CallRecords`, `Delegations`, `Checkouts`, `Personas`, composed with 7 by `Orchestration`, with
   `DelegationProofs`, `PersonaProofs` and `OrchestrationProofs`.
9. + `Registry`, `Mail`, `Waits` composed by `Sessions`, with `SessionsProofs`.
10. + `SettingsFile`, `SeededFiles`, `Telemetry`, `ResultArchive`, composed with `LedgerStore` by `SharedFiles`.
11. Next, proofs: `FilesAreKept`, file by file (the settings lock first); what a council's verdict
    bills and rests on; the turns and the records of calls.

Bounds: two or three actors, two or three messages each, and the limits that decide what is kept,
refused or retried set to one or two so that they are reached.  Theorems after each module: its inductive invariant,
the safety properties that follow from it, and refinement where there is an abstract
specification.

## 4. Modules and how they correspond to the code

`InProcBus`.  One action per method of `InProcessBus`, one more per outcome of `ask`
(waiting, refused, closed inside delivery), and the timer and abort callbacks.  `msgs` is
every envelope ever made, so an id is a position and `expectsReply` is the one flag all
copies share, as the object is shared in the code.  A mailbox is the set of its unread
ids (arrival order is id order).  `outcome`, `drains` and `drainedAt` are history.

`AskContract`.  The bus without mailboxes, timers and drains: present peers, questions,
and one way to close each.  `InProcBus` implements it under the mapping `AskView`.

`LedgerLock`.  The stages of `acquireLedgerLock` (`contend`, `created`, `held`, `judged`)
with each system call a step of its own.  `LedgerRules`: `applyLedgerEvent`, `pruneLedger`
and the readers as operators.  Open claims, open questions and tasks are sets there, because nothing
depends on their order (the parser adds them by msg_id); receipts are a sequence, because the oldest
is dropped; reading a journal or a snapshot is a recursive function.  `LedgerStore`: `commitLedgerEvent` on the file: recovery,
prune, append or snapshot, acknowledgement; a write may fail, or its process die, with a
part, all, or none of a record in the file.

`AsyncRuns` and `IdleNotifier` are state machines of the two classes as operators;
`CompletionDelivery` is the session: it joins them with the tools that launch, stop, read
and join runs, the hooks that flush, and shutdown.  `dropped` is the tracker's bounded memory of the
payloads it gave up unread (`MaxDropped`, 256 in the code), `lost` the history of all of them; what the
memory had to forget (`Forgotten`) is what the tool then calls unknown.  A run's status changes before it
settles (`then` before `finally`), so `End` and `Settle` are two steps.

`BrokerRelay`.  A leg's child and the supervisor over a socket.  `up` and `down` are the
frames in flight; a step that closes a question writes the answer of the promise the host
holds (`Write`), because the promise reaction runs before any other callback.  `host` is
`SupervisorBroker.state()` with a name of its own for a start after a failure; `held` is
`preHostSteers` before the host is up and `pendingSteer` after; `relay` links a child's
call to the message the bus accepted for it.  The bus is `AskContract`, so what is proved
of `InProcBus` is what this module assumes of it, plus the unread mail of a child that has
not connected.  A full mailbox is a choice of the bus to refuse.  A steer accepted for a
child whose connection already ended stays queued until its leg settles: the host still
expects the handle, and the client never dials again.

`Wakes` has `MonitorManager` with the process adapter and the log outcome of each watch
as operators, and then the session around it: alarms over `IdleNotifier`, the queue of
monitor events with its backlog and batches, permissions, rows and `session_shutdown`.
Ending a watch (`Leave`) and withdrawing all of them (`CancelAll`) are one synchronous call
wherever they occur, also from inside a flush or an event that finds the permission gone.
A persona's change of tools reconciles at once (`PersonaChanges`), the host's own switch
does not (`ToolsSwitched`), so queued events may wait under a permission that is lost.
`issued`, `told`, `accounted`, `withdrawn` and `heard` are history.

`InProcLegs` and `ChildLeg` are the two engines, `EngineRuns` the decorated engine the
session calls: `withModelFallback` around whichever of them it was built with, a choice of
`Init` because the two share no state (a child gets its environment explicitly, not through
the guard).  A leg is a record.  `run()` of the in-process engine awaits twice, so it is
`BeginLeg`, then `BuildGivesUp` or `SessionOpens`, then `LegSettles`; the host's session, its
timers, the signal and the bus step in between.  The checks that refuse a leg before it
starts are one choice.  `signal` names which of the two combined signals fired, since the
fallback loop looks at the caller's alone.  The child is the root process and one tool
process of its own; a signal never ends a process by itself, it only lets `RootExits` and
`KidEnds` happen, which may also happen at any time.  Output is read as long as the pipe is
open, so a child that the last resort gave up on may still report calls after its leg is
settled.  The routes of `EngineRuns` are
those of `providerFallbacks`, with a provider in place of a `provider/id`.
A leg's questions are its one `ask`: what the bus does with it is `InProcBus`.  `LegContract`
is what both engines promise: one settlement, the first cause of death named, no call left
open by a leg that failed.

Four modules are sums.  `SharedFiles`, `Sessions`, `Orchestration` and, for checking, `MCNotices`
(the bus and the wakes) each hold parts that share no variable (they touch different files, or live in different objects of the session)
and whose interleaving would show nothing more than each of them alone.  Their variable `part`
says which part a behaviour runs; the others are at rest, in a state their own `Init` names.
A property of the sum is the conjunction of what its parts promise.

`SharedFiles` (variables renamed where two parts use a name):
`SettingsFile` has the lock, read, import, backup and rename of `settings-store.ts` as steps of
their own and a death at any of them; `SeededFiles` the upgrade of a default that a user edits
meanwhile, through claim, comparison and restoration, and the addition its new text needs, and in
its second half one file of an old data directory, carried over by several sessions, by link or by
copy, and its undo;
`Telemetry` the writer's appends and compaction, leases and the sweeps of other sessions;
`ResultArchive` reservations, quota, replays of an origin and the session file that owns a
report, and in its last section the budget of monitor logs, which is kept over restarts.

`Sessions` extends its parts:
`Registry` is one slot per session in which planes come and go: a plane's start and
stop, the queue of transitions, heartbeats, staleness, and a removal in its three steps
(claim, compare, delete or restore); a process that dies in one leaves the claimed file aside.  `Mail` is a sender, its peers, the file that a large
message travels in, signatures, receipts and retries; in its last section the receiver: the
guards (hops, repeats, a budget per sender and window), the queue and the wakes that tell it,
between turns, not too often, and at most so many a minute.  `Waits` is `exocom_wait`: two
reads of the ledger around the registration of a waiter, its timer, the frame that may wake it
early, and the notices of a wait that was left.

`Orchestration`:
* `StrategyPrograms` gives each built-in strategy as a function from the waves of legs that
  have settled to what it does next: another wave, its verdict, an error.  The reducers, the
  vote and the judge's pick are its first section.  `StrategyRuns` runs such a program: the
  slots (`Slots`), the limits, the model recovery, stops.
* `Flows` is `runFlow`: waves of ready phases, gates, the stop and its grace, the journal line
  by line, and a later run that resumes from it while an attempt of the earlier one may live on
  (`late`); `count.stale` counts such attempts that succeeded under a later run.
* `Turns` is the hooks of a turn around a mandated orchestration: what is deferred, what is
  folded into which prompt, what shutdown and restart take along, the notice of lost work.
* `CallRecords` follows each tool call through `tool_call`, `tool_result` and `agent_settled`,
  with nested calls and late or missing results, the records of a broadcast, and the
  reminders; its last section is the screen: rows, stop and steer handles of the runs of
  strategies, as `extension.ts` writes them on the notifications of the SDK, and what
  telemetry is told of them.
* `Delegations` is a background delegation from call to settlement: refusals, the two levels
  of slots, strikes, rows, the watch for stalls, the guard against polls.
* `Checkouts` has every call of `git` of an isolated leg, each of which may fail, the shared
  checkout with its snapshots, and writers nobody reports: the operator, and processes a leg
  left running.
* `Personas` is the controller with switches that overlap, the line of pickers, what they file,
  and the owner companions are told of.

`MC*` modules give the constants values.  `*Proofs` modules hold theorems: `NoticeProofs` of the bus and
the wakes, `DeliveryProofs` of completion delivery and the broker, `LedgerProofs`, `SessionsProofs`,
`EngineProofs`, and of `Orchestration` `DelegationProofs` (runs, checkouts), `PersonaProofs` (personas,
councils) and `OrchestrationProofs` (flows, stops, and what holds of every part).  In the map of
`PROJECT.json` an operator of a line or two whose source lies within the lines of another
definition of its module is not listed on its own.

## 5. Runs

| Run | Instance | Shows |
|---|---|---|
| `notices` | one part at a time. Bus: 2 handles, 3 messages, mailboxes of 2, window of 2 messages and 2 characters, texts of 1 and 3. Wakes: a watch of 2 lines, a watch on an exit, an alarm, a backlog of 2, messages of 1 event | eviction, refusal, retention, departure and every settlement race occur; no blocked sender is stranded, and the bus implements `AskContract`; every watch and alarm ends once and is heard, nothing withdrawn is told, what did not fit is counted |
| `ledger_store` | ledger: 2 sessions, one may die, 3 kinds of earlier history and 2 more events of 7 kinds, 1 retained answer; settings: 2 sessions, 2 keys, one save each; seeds: 2 sessions, 2 edits; data root: 3 sessions; telemetry: 2 writers, 2 sweepers, 2 records; reports: 2, in 2 session files, quota 1; logs: 3 monitors, 2 records, 3 bytes | facts told to a session stay; the file loads; task and claim agree; what the user or a session left in the other files is kept |
| `sessions` | pool: 2 sessions, one with 2 planes, an end and 2 changes of persona; mail: 1 message, 2 peers, one restarts; inbox: 4 letters, a queue of 2, a window of 1 message and 2 bytes, 1 wake a minute, 3 acceptances, 2 lapses (a forgotten letter, a stop, a failed wake); waits: 2 for one ask | what a sender or a waiter is told is so, no entry is taken from a live session, what was accepted is told once, everyone is found again |
| `orchestration` | council: 32 plans, every strategy with rosters of 0 to 3, limits that fit, that leave one child, that do not fit; flow: 5 flows of 2 or 3 phases, 2 runs, 6 attempts, 1 crash, attempts that outlive their run; turns: 2 inputs, 1 deferred, 2 restarts, 1 refusal; calls: 6 scripts of 2 to 4 calls; runs: 8 books of 1 to 6 calls, a pool of 2; checkouts: 6 jobs; persona: 6 scenes; rows: 2 runs of one strategy, one of 2 legs | limits hold, verdicts are earned and billed, stops are final, nothing unapproved is built on and nothing readable is paid for twice (until a late success), what was made is handed over, what was overridden comes back, the supervisor is told what happened, and everything ends |
| `flow_gate_bypass` | the flows of `orchestration`, 3 runs | *violation*: after a late success dependents get an output nobody approved |
| `ledger_lock_race` | 3 processes | *violation*: two contenders that both saw a dead owner can both get in |
| `ledger_lease_race` | 2 sessions, 2 events | *violation*: a claim made between the listing of live sessions and the lock is pruned |
| `completion_delivery` | 3 runs, calls {a,b} and {c}, 1 payload retained, 1 loss remembered | each report told once, a fan-out as one, nothing after shutdown, every report told in the end, and no payload lost without a record while the record fits |
| `broker_relay` | 1 child, 2 calls, 2 messages of the bus, 1 steer | the ends of the socket agree on every call, nothing accepted is dropped while it can arrive, a settled leg leaves nothing, every call settles |
| `engine_runs` | 2 in-process legs (one talks and reads results, one calls a tool and is pinned) or 1 child leg, 1 tool call, 3 providers | a leg settles once with a true verdict and leaves nothing; the guard covers every build; no forbidden route; every run ends |
| `engine_orphan_tool` | as above | *violation*: a tool process deaf to SIGTERM outlives its killed leg |
| `stranded_reader` | as above | *violation*: a leg whose signal is aborted when its preflight ends leaves its result reader granted |

Why these bounds are enough to be interesting: each limit that is a constant of a module is set so low
that its run exceeds it (a full mailbox needs two messages, retention of one payload evicts with two
runs, the memory of one loss forgets with three, a lock race needs one dead owner and two contenders;
section 8 names the limits that are not modelled), and each property has a mutant of the
code, listed in `PROJECT.json`, that breaks it within the same bounds.

Limits on the world bound the state space and nothing else: edits, restarts, refusals, faults of
`git`, crashes, arrivals and ticks are spent from counters in the guards of the steps that
use them, each large enough that a case and its repair both happen.  Two bounds leave a case
out: `settings` has two sessions, so a lock of a dead owner has one contender and never two (the
race of `ledger_lock_race` would be in that lock, too); and a registry has one session that
ends and one that sends.

A run of a flow may start while attempts that a stopped run gave up go on.  Once one of them succeeds,
its line is in the journal of another run, and `flow_gate_bypass` shows what that does to
`WorksOnApproved`.  So three properties of flows in `orchestration` speak of the behaviours, or of the
part of one, in which no such attempt has succeeded yet (`NoLateSuccess`; one that fails or goes on is
no exception): `ApprovedUnlessLate`, `PaidOnce`, and the flows' part of `OutcomesAreTrue`.

In `ledger_store` the lock serializes although it does not in `ledger_lock_race`: with two
sessions and one death there are never two contenders for a dead owner's file.  So that
run says what the store does on top of a lock that works.

### Fairness

`InProcBus`: an armed `setTimeout` fires.  `CompletionDelivery`: a run ends (the engine's
deadlines bound it), promise reactions and armed timers run, a joining call returns once
its runs settled, a promise of the host settles, and (strong fairness) a host that is
offered a message again and again while idle takes it in the end.  Nothing is assumed of
the supervisor's turns beyond their end, of reads, stops, or shutdown.  `BrokerRelay`: a
socket delivers or closes, the bus's timeouts and the deadline of a read fire, and a process
whose leg settled has been killed (`engine/child.ts` kills the tree before it settles for
dead); nothing is assumed of the child's own timers, so every call settles without them.  `Wakes`:
timers fire, turns end, and a host that is idle again and again accepts a message in the end.
`EngineRuns`: the loop of a run goes on once it may, an idle window nobody interrupts fires, a
question gets its outcome (the bus's timeout), a reader's preparation or a prompt file is done or
fails, and grace and last resort fire.  Nothing is assumed of a session, a factory, a provider or a
process: that every run ends although all of them may hang is what the deadlines are for.  The idle
window is taken to be set, as it is by default; the other two deadlines only make a run end sooner.

`Registry`: a beat that is due again and again comes (strong fairness, since a queued transition
holds it up for a while), so does the head of the queue; a removal that was begun goes on, and a
beat that stopped is seen to be stale.  `Waits`: a call that runs is finished, and the timer of a
wait fires in the end although the frames of other sessions come before it (strong fairness).
The inbox: its timer fires, a turn ends, a minute passes.  `StrategyRuns` and `Flows`: an engine
returns, which is what `EngineRuns` shows of them; the grace of a stopped flow ends; an operator
whose question was withdrawn is taken to have declined; nothing is assumed of one who is still asked.
`Turns`, `Delegations` and `Checkouts`: the event loop, the engines and `git` go on (one condition on
`Moves`, because each of their steps is finite in number).  `RunsEnd` is one formula
`<>[]` over all parts: in a part the steps are bounded, so to end is to stay ended.  Nothing is
assumed of `SettingsFile`, `SeededFiles`, `Telemetry`, `Mail`, `Personas`, `CallRecords`:
what is said of them is safety.

## 6. Proofs

All proofs are for arbitrary constants under the named assumptions of the modules.

* `NoticeProofs`, of the bus: `BusInv` (types, truth of the flags, reachability of live asks,
  nothing armed for a settled one) is inductive.  Reachability needs the flags: only
  because an envelope that asks is one somebody waits for does eviction spare live asks.
  Refinement of `AskContract` uses it step by step.  A text is the set of its characters, so that
  what the window of drained messages holds is the size of a set: `RetentionAccounted` follows from
  the additivity of that count and from the oldest member the window keeps.  That a mailbox never
  holds more than `MaxInbox` gives `OnlyOldNotesLost`, which no run checks.
* `LedgerProofs`.  Of the lock: until a process dies it serializes any number of sessions;
  the invariant ties the owner in the file to the stage of that process.  Of the ledger: a state is `Good` if open claims neither overlap nor share a msg_id, open questions
  and kept receipts have ask ids of their own and stay within their limits, and a task that was taken
  and the claim it was taken with come and go together.  Every event the rules accept, and every prune,
  leaves a good state good (`ApplyKeeps`, `PruneKeeps`), and `parseSnapshot` rebuilds a good state from its
  snapshot exactly (`GoodIsRestored`).  So a journal reads as a good state if it holds nothing but
  events with msg_ids of their own, or a snapshot of a good state and such events (`Sound`), and that is what
  every step leaves in the file: also a torn append, a failed write, a death, or two commits at once
  behind a stolen lock.  `LedgerReadable` and `TakenIffClaimed` follow, without any assumption about
  the lock.  `AckedFactsDurable` needs more: `Link` ties a fact to what shows under its msg_id (its
  author, its key, whom it asked), so that an event can end it only if the fact was owed to that event; and
  a fact that is about to be acknowledged is in the file while its process holds the lock.  It is proved
  from `[]OneTransactionAtATime`, and without that assumption as long as no process has died (`Calm`), where
  the lock is proved to serialize; beyond that the lock does not (`ledger_lock_race`).  A
  fact of the history the file starts with is traced to the record that made it.
* `DeliveryProofs`, of completion delivery: `DeliveryInv` adds to the checked invariants that only settled runs
  wait or have been told, that a companion's runs are apart, that the message in flight
  is what the flight holds, and that a run whose call is joining has not been told.
  Exactly-once telling, no lost wake, quiet after teardown and whole batches follow, and
  `NoSilentLoss`: what was settled is retained, or was read, or is called dropped, or is one of the
  losses that `MaxDropped` younger ones pushed out of the tracker's memory; and nothing is called dropped that
  was read or is still there.  For this the memory is shown to be exactly the end of the history of losses
  (`MemoryCounts`), whatever is evicted.
* `DeliveryProofs`, of the broker: `RelayInv` says of each call of a child where it may be: on its way, and then
  nowhere else and before its own cancellation; open at the host, and then of that kind and that
  child's; answered on the wire, and then truly and for good.  It also says how a leg, its child
  and their connection stand (nothing is written to a connection before it is bound, nothing is read
  from one that ended).  `CallsAgree` and `OutcomesAreTrue` follow.  `MailInv` sees mail and steers
  as streams: what the child was shown, what is on the wire, what is kept for it, one rising
  sequence below the last number given out.  A stream can only be sent to, drained, read from or
  cut; a lemma about each does for mail and steers alike, and `HeardInOrder` and the action property
  `NothingDropped` follow, for any children, calls, messages and steers.
* `SessionsProofs`: one inductive invariant per part, each kept also by the steps of the other parts,
  for any sessions, peers, messages, letters and waits.
  `QueueInv`: the stop that a shutdown queued stays last in the queue until the plane is off, and a
  transition under way is at its head; `ShutdownLeavesNoPlane` follows.
  `EntriesInv`: the entry of a running plane is in its file or in a claim, unless it was judged, left
  aside, or displaced; every removal under way is of an entry somebody judged, so the comparison can
  only delete a judged one, and what it puts back is lost only to an entry in its place.  With two
  sessions more is so: a claimed entry has left its file empty and no session removes
  its own, so that nothing is displaced.  `RegistryIsTrue` is these two facts together.
  `MailInv` says for each stage of a message which copies of its file there are, who may have accepted
  it, and what the answer on its way says; `SendersHearTrue` and
  `FilesMatchMessages` follow.  `InboxInv`: the letters told and then the queue are those accepted,
  in order, each remembered or forgotten since, and only a forgotten one was accepted twice; that a batch fits its room is shown
  from the greatest prefix that does (by well-foundedness of `<`, since a maximum is a `CHOOSE`).
  `WaitsInv`: the stage of a call agrees with its timer and its place among the waiters, and an answer
  seen at the registration or returned is in the ledger, where answers stay.  `ToldTheTruth` is the
  last three together.
* `NoticeProofs`, of the wakes: `WakeInv` says the rows are the active watches and armed alarms, and that
  deadline, process and log of each watch follow its place in the manager's map.  One lemma
  about `Leave` carries every way a watch can end.  `NoteInv` is about the events: those told and
  those waiting follow each other in the order they were issued in, every other one was discarded
  by its watch's cancellation, by the session's end or by a full backlog, which counts it.  The queue that
  `cancel` filters is stated by positions (`Nth`), so that what a filter keeps, and its order, can be
  proved from the cardinality of the positions before one; `NothingUnaccounted` and
  `SilentWhenWithdrawn` follow.
* `EngineProofs`: `EngineInv` says how far each leg has come and what it holds there.  The
  guard's depth is the number of factories that have not come back; a retry never starts
  over a build still in progress, because a leg cut from its build does not fail for its
  provider, and that is what makes the count exact.  For the child, a kill leaves the grace
  timer armed or the force kill sent, so the last resort never gives up on a process that
  was only asked.  The refinement of `LegContract` (`RunsKeepContract`) goes run by run: `Permitted`
  lists what the contract lets one leg do in a step, one lemma shows that a step in which one run
  does what is permitted is a step of the contract, and the others that every step of either engine
  is permitted.  The invariant it needs says that what a leg was cut by is a cause its engine
  has, that a killed child has a cause and an aborted one a signal that fired, and that
  nothing is shown or cut before there is a session or a process.  `RouteInv` remembers where a run
  has turned; `RoutesRespected`, which no run checks, follows.

* `OrchestrationProofs`, of the flows.  A journal is read by the last success of a phase after its last
  failure, with any approval among the successes since; lemmas about what one more line, a line of
  another phase, a failure, a torn line or a set of failures makes of that reading carry every step that writes.
  `FlowInv` ties the journal to the run: what has no result yet has no approval in it, an approval in it is of an
  output the operator saw, a phase it has a success of had the checkpoints before it approved, and what a resume could
  use it finds again.  A torn line stays last, and no wave or checkpoint writes over one after the first
  line.  An attempt given up by an earlier run is apart (`LateIsApart`): as long as it has not succeeded, its
  failure takes away nothing the present run rests on, so no assumption about when it ends is needed.
  `ApprovedUnlessLate` and `PaidOnce` follow.  `OutcomeIsTrue` of a flow needs that what did not
  run was held up: among the phases that did not succeed one needs none of the others, by the order `FlowsAreGraphs`
  gives, and it waits for a declined checkpoint.
* `OrchestrationProofs`, of stops: each program that deliberates, asked for its next step after a stop, opens a wave
  (which starts no engine), throws, or ends without a ruling; no step of a stopped run starts an engine.
* `DelegationProofs`, of the background runs.  `RunsInvariant`: in every call and in the pool, lines, slots and legs
  agree (`SlotsFit`), the stage of a leg agrees with what the tracker has of it (`StagesFit`), no call was launched that
  had to be refused or vetoed, and the rivals of a verifier are legs of its own call (`CallsFit`), and the strikes are the
  failures that happened (`PastFits`).  A line is a sequence that holds each of its members once, so leaving it and
  handing a slot on are lemmas about positions.  The assumption `BooksAreCalls` says what a call is: its legs, and that
  only a delegation has several.
* `DelegationProofs`, of the checkouts.  `CheckoutsInvariant`: where a leg is in the calls of `git` decides whether its
  directory and its registration are there, and what a capture has read and can still miss (`TreeFits`); a leg in the
  shared checkout whose snapshot was taken is watched until its report lists or counts what changed (`ShotFits`).
* `PersonaProofs`, of a persona.  `PersonaInvariant`: what is put aside is the operator's, whether a switch rests
  (`Rests`) or is on its way to the host (`Flies`), as long as no two overlap (`SettingsFit`); and the pickers in line ask,
  one after the other, what is neither answered nor filed (`PicksFit`).
* `PersonaProofs`, of a council.  `CouncilInv`: the children begun, those the wave has still to begin and those it keeps
  for later waves fit the limit (`WaveFits`), and the waves are those that the strategy opens (`Shape`), so that what the
  program still foresees is bounded by what was reserved: one lemma for each strategy, with `magi`'s second ballot as the
  one whose later wave depends on the answers.  `PlansAreCounted` says what a plan is.
* `LimitsHold` then is proved for every part (`LimitsAlwaysHold`), `OutcomesAreTrue` for all but councils.

Only model-checked: liveness, which is out of the provers' reach; what a council's verdict bills and rests on (its
part of `OutcomesAreTrue`, a count over all legs of all waves); `SupervisorIsTold` but for personas; `FilesAreKept`, the
parts of `SharedFiles` other than the ledger and its lock; the bound of the eviction queue of completion delivery; and
`AckedFactsDurable` in runs where a process dies.

## 7. Findings

Five statements of comments do not hold: two of `exocom/ledger.ts` (the lock serializes, a
lease protects a claim), one of `engine/child.ts` (a killed child's tools die with it), one of
`engine/inproc.ts` (every way out from line 366 on revokes the result reader: the return at 402-404,
of a leg that is already cancelled, does not) and one of
`extension.ts` (only an approval releases dependents).  See the five violation runs and their
entries in `PROJECT.json`.  `NothingStranded` makes an exception for the reader of such a leg, and for
that only.

Smaller things met while modelling.  The properties make an exception for them, or they lie
outside the bounds.

*Runs.*  Once more unread payloads were dropped than the tracker remembers, the oldest of them is an
unknown run to the tool (`Forgotten`); the comment at `async.ts:108-110` promises recent drops only.

*Flows.*  The late success that lets an unapproved output through may also come after a later run was done
and its journal was cleared: the next run resumes from that one line, and may be done although the operator
then declined the checkpoint in front of that phase.

*Files.*  A crash between the link and the removal of the temporary name leaves a settings file with
two links, which is unreadable from then on.  What a session of an older release writes to the retired
store after its import was confirmed, or a file that comes just before a claimed default is put
back over it, is lost (`late`, `overrun`).  When one session undoes a placement as
another removes the source, bytes may be lost (`astray`).  The first copy of a default is not
atomic: torn by a crash, it later counts as an edit.

*Sessions.*  With three processes, an entry that a removal set aside and puts back may fill the place of
a newer one that a second removal has claimed; that one finds the place taken and drops the newer entry,
although `registry.ts:258` takes what is there for a writer's replacement.  The next heartbeat writes
it again, so a running session is missing for that long (`displaced`; it takes a session that starts
three planes, and is proved not to happen between two sessions).  A retry after the receiver restarted meets a plane with a new key, so a message that was
accepted is reported as unauthenticated.  An ask that another session's commit pruned is expired for
its waiter by the timeout only.  The check for a full inbox comes before the one for repeats, so the
repeat of an accepted message is refused while it waits.  After the reset of a minute the floor
between wakes is not asked of the next one.  A stop of the plane drops accepted messages nobody was
told of.  A fixed window admits up to twice its budget in an interval of its length.

*Turns and calls.*  Another extension that starts a turn during the orchestration of an input can have
its ruling overwritten by a deferred one.  A replay put back after a refusal of the host may be
overtaken, and waits for another turn.  A notice for the next turn counts as delivered when it is
queued.  A crash records nothing, so ids of runs may repeat; a fork restarts them.  A peer listed when a
broadcast was called and gone when it is sent is in neither list of the result, and is recorded as
delivered (`hooks.ts:751`).

*Screen.*  A leg retried on the main model gets no stop handle of its own again (its run's stop
reaches it).  A run that ends for a breached limit while a leg goes on leaves a row that comes back
when that leg ends (`lost`), and no stop reaches the leg.  A leg stopped while it waited is still
"waiting" to telemetry until it ends.

*Delegations.*  A run settled by force is no longer counted as a writer while its engine may still
write (`forced`).  A writer launched after a verifier is not held up.  A run that waits and resumes, or
is launched, settled and read, between two checks looks unchanged (`swayed`).

*Checkouts.*  A process a leg left running may commit between `git diff` and `git ls-files`: its file
is in neither (`raced`).  The snapshots are taken per attempt, so what a failed first attempt changed is
not in the final report; the artifact of a failed attempt is dropped when the retry succeeds; a file
with the same code before and after is not reported.

*Personas.*  Two switches while the host still applies a model may leave settings of both (`mixed`).  A
refused restoration loses what was to be restored.  A new instance forgets it.  After a failed save
the next save or reread drops the picks of this session while they stay "prompted".  A pick discarded
because the persona changed keeps its marks.

## 8. Not modelled

Rendering and wording, prompts, discovery and parsing of files, and the tools' parameter
checks.  In the ledger: offers, progress and evidence, `task_abandon`, limits that refuse
an event, reuse of pids, and clocks (an empty lock file is taken for abandoned after two
minutes; no live creator is assumed to take that long).  In delivery: batches cut by
`maxBatchItems` and renderers that return nothing.
In the broker: the roster lookup, malformed
frames and the sockets they close, the caps on pending calls, and framing.  In the wakes:
validation, texts and tails, and a `start` that calls back before
it returns (Node's `spawn` does not).
In the engines: runs that name no model at all (nothing to fall back from), a signal refused by the
operating system, a process that a
failed attempt left behind when the next attempt starts, more messages than one waiting for a
session (`MaxMail`), and tools started by a root that was told to end.

In the shared files: an owner of the settings lock that is suspended for five minutes, a third process
that takes the same old lock away, an editor that keeps a default open after it was moved aside,
telemetry records near the size of the cap, and more than one failing step of a compaction.
In the sessions: the codec of envelopes, profiles and names, messages older than the age at which
files are swept, and deliveries that are promises.
In the turns: a failing append of the runs entry.  In the calls: `controller.gate`, which refuses as
`Barred` does, and single sends.  On the screen: roots of tracked runs, rows of wakes, and the second
press of a stop.  In the delegations: joins of inline calls (they are in `CompletionDelivery`), routine
check-ins, Mind's second attempt at a format, validation of models and contracts, and a peek that names
runs.  In the checkouts: ignored files, patches that are too large, and a `worktree add` that
fails and leaves a registration.  In the personas: `/persona seed` and `restore`, and an operator's own
choice of a model while a switch is on its way.

Idle compaction is not modelled because the code switches it off
(`extension/idle-compaction.ts`, `qualified: false`).
Components without a module are listed with the reason in `PROJECT.json`.
