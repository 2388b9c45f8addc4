---- MODULE CallRecords ----
(***************************************************************************)
(* The tool calls of a supervisor as src/extension/hooks.ts sees them:     *)
(* which it refuses, what telemetry is told of each, and the reminders     *)
(* appended to their results.  The host may prepare several calls before   *)
(* any runs, nest calls in a script's, give some no result, or a late one. *)
(*                                                                         *)
(* At the end, what is shown of the runs of strategies (src/extension.ts,  *)
(* src/ui/agent-tree.ts): their rows, the handles that stop or steer them, *)
(* and what telemetry is told.  It shares no variable with the rest.       *)
(***************************************************************************)
EXTENDS Integers, Sequences, SequencesExt, FiniteSets, FiniteSetsExt

CONSTANTS
  Scripts,     \* the calls of a session: [kind, of: the script's call or "model", size: call -> output in steps,
               \* changes: bound: changes of the claims, questions and runs of others]
  Peers,       \* 1..n: who exocom_send's "*" reaches, in the registry's order
  Sample,      \* MAX_BROADCAST_DETAIL_ITEMS
  MaxWarnings, \* WriteWarnings.maxEntries
  MaxRelays,   \* the surrenders remembered for the outer call
  RunLength, BurnFloor, Fat,  \* the thresholds of the reminder
  Backoff,     \* failedHandoffBackoff
  MaxSettles,  \* bound: turns
  Rosters,     \* the runs of one strategy: [run -> the keys of its legs]
  Steerable    \* those whose engine takes messages

VARIABLES
  script, call,      \* call -> new, runs, refused, ended, dropped: the turn ended first, late
  inTurn,
  open, launching,   \* telemetryToolStartedAt, the launches under way
  ends, mail,        \* history: terminal records of a call; [call -> [peer -> what was recorded]]
  truth,             \* history: [call -> [peer -> sent, failed, left]]
  world,             \* [claim: of a peer on the path, ask: pending, ledger: readable, runs: background runs, changes]
  warned, warnings,  \* the warnings remembered; history: [claim -> how often it was shown], and "unwarned" writes
  relays,            \* calls whose nested calls surrendered
  marked, noted,     \* history: results that carry a surrender, visible results with the reminder
  nudge,             \* DelegationNudge: [run, burn, last, nudges, key, repeats]
  since,             \* history: the visible calls since the last hand-off that landed
  settles,
  screen,  \* [rows: id -> [status, model], stops: id -> what it aborts, steers: ids, asks: ids that wait for an answer,
           \* heard: what telemetry was told of each row, roots: issued, down: the session]
  visible  \* run -> [at, root, aborted, legs: key -> [st, model, aborted, steered, lost: it outlived its run]]

recordVars == <<open, launching, ends, mail, truth>>
noteVars == <<relays, marked, noted, nudge, since>>
vars == <<script, call, inTurn, recordVars, world, warned, warnings, noteVars, settles>>

Calls == DOMAIN script.kind
Kind(c) == script.kind[c]
IsVisible(c) == script.of[c] = "model"
Claims == {"none", "k1", "k2"}

\* Who the records of a message are about.
Recipients(c) == IF Kind(c) = "send" THEN Peers ELSE IF Kind(c) = "intercom" THEN {1} ELSE {}

Rested == [run |-> 0, burn |-> 0, last |-> 0, nudges |-> 0, key |-> -1, repeats |-> 0]

RecordsStart(s, turns) ==
  /\ script = s /\ call = [c \in DOMAIN s.kind |-> "new"] /\ inTurn = (turns = 0) /\ settles = turns
  /\ open = {} /\ launching = {} /\ ends = [c \in DOMAIN s.kind |-> 0]
  /\ mail = [c \in DOMAIN s.kind |-> [p \in Peers |-> <<>>]] /\ truth = [c \in DOMAIN s.kind |-> [p \in Peers |-> "left"]]
  /\ world = [claim |-> "none", ask |-> FALSE, ledger |-> TRUE, runs |-> 0, changes |-> IF turns = 0 THEN 0 ELSE s.changes]
  /\ warned = <<>> /\ warnings = [k \in Claims \union {"unwarned"} |-> 0]
  /\ relays = <<>> /\ marked = {} /\ noted = {} /\ nudge = Rested /\ since = {}

RecordsInit == \E s \in Scripts : RecordsStart(s, 0)

\* Peers claim and ask, the ledger fails, background runs come and go.
Changes ==
  /\ world.changes < script.changes
  /\ \E w \in [claim : Claims, ask : BOOLEAN, ledger : BOOLEAN, runs : 0..1, changes : {world.changes + 1}] :
       /\ Cardinality({f \in {"claim", "ask", "ledger", "runs"} : w[f] # world[f]}) = 1
       /\ world' = w
  /\ UNCHANGED <<script, call, inTurn, recordVars, warned, warnings, noteVars, settles>>

---------------------------------------------------------------------------
(* tool_call *)

\* A question waits for this session, or nobody can tell.
Barred(c) == (world.ask \/ ~world.ledger) /\ Kind(c) # "read"

Warns(c) == Kind(c) = "write" /\ world.claim # "none" /\ world.claim \notin ToSet(warned)

\* A long sleep would hold the turn the runs' reports wait for.
MustNotWait(c) == Kind(c) = "sleep" /\ IsVisible(c) /\ (world.runs > 0 \/ launching # {})

Comes(c) == call[c] = "new" /\ inTurn /\ (~IsVisible(c) => call[script.of[c]] = "runs")

Bounded(q, max) == IF Len(q) > max THEN Tail(q) ELSE q

\* Wrong: the warning is shown and not remembered.
ShownOnly(k) == warned

Remembered(k) == Bounded(Append(warned, k), MaxWarnings)

\* A refused call has no result: its record is closed at once.
Refuses(c) ==
  /\ Comes(c) /\ (Barred(c) \/ Warns(c) \/ MustNotWait(c))
  /\ call' = [call EXCEPT ![c] = "refused"] /\ ends' = [ends EXCEPT ![c] = @ + 1]
  /\ IF ~Barred(c) /\ Warns(c)
     THEN warned' = Remembered(world.claim) /\ warnings' = [warnings EXCEPT ![world.claim] = @ + 1]
     ELSE UNCHANGED <<warned, warnings>>
  /\ UNCHANGED <<script, inTurn, open, launching, mail, truth, world, noteVars, settles>>

Passes(c) ==
  /\ Comes(c) /\ ~Barred(c) /\ ~Warns(c) /\ ~MustNotWait(c)
  /\ call' = [call EXCEPT ![c] = "runs"] /\ open' = open \union {c}
  /\ launching' = IF Kind(c) = "launch" THEN launching \union {c} ELSE launching
  /\ mail' = [mail EXCEPT ![c] = [p \in Peers |-> IF p \in Recipients(c) THEN <<"queued">> ELSE <<>>]]
  /\ warnings' = IF Kind(c) = "write" /\ world.claim # "none" /\ warnings[world.claim] = 0
                 THEN [warnings EXCEPT !["unwarned"] = @ + 1] ELSE warnings
  /\ UNCHANGED <<script, inTurn, ends, truth, world, warned, noteVars, settles>>

---------------------------------------------------------------------------
(* tool_result *)

FirstOf(set) == {p \in set : Cardinality({q \in set : q < p}) < Sample}

\* Wrong: what the sample of failures does not name was delivered.
Sampled(result, p, failed, ok) == IF result = "error" \/ p \in FirstOf(failed) THEN "failed" ELSE "delivered"

\* The receipts and the failures of a broadcast are samples; more failures than
\* the sample holds clear nobody who has no receipt.
Reported(result, p, failed, ok) ==
  IF result = "error" \/ p \in FirstOf(failed) THEN "failed"
  ELSE IF Cardinality(failed) > Sample /\ p \notin FirstOf(ok) THEN "unknown"
  ELSE "delivered"

\* What became of each message: the peers are listed anew when the tool runs.
Fates(c, result) ==
  IF Kind(c) = "send" /\ result = "ok" THEN [Peers -> {"sent", "failed", "left"}]
  ELSE {[p \in Peers |-> IF p \notin Recipients(c) THEN "left" ELSE IF result = "ok" THEN "sent" ELSE "failed"]}

\* Wrong: a result whose records the turn's end has closed closes them again.
Anyway(c) == TRUE

\* The open entry is the right to a terminal record.
IsOpen(c) == c \in open

Recorded(c, result, fate) ==
  LET failed == {p \in Peers : fate[p] = "failed"}
      ok == {p \in Peers : fate[p] = "sent"} IN
  /\ ends' = IF IsOpen(c) THEN [ends EXCEPT ![c] = @ + 1] ELSE ends
  /\ mail' = IF ~IsOpen(c) THEN mail
             ELSE [mail EXCEPT ![c] = [p \in Peers |-> IF p \in Recipients(c) THEN Append(@[p], Reported(result, p, failed, ok)) ELSE @[p]]]
  /\ truth' = [truth EXCEPT ![c] = fate]
  /\ open' = open \ {c} /\ launching' = launching \ {c}

\* Wrong: the window of the next reminder stays the same.
SameWindow(n) == RunLength

Window(n) == RunLength * (n + 1)

\* A result of the supervisor's own work.
Worked(c) ==
  LET run == nudge.run + IF Kind(c) = "write" \/ script.size[c] >= 1 THEN 1 ELSE 0
      burn == nudge.burn + script.size[c]
      dump == script.size[c] >= Fat /\ (nudge.nudges = 0 \/ run - nudge.last >= Window(nudge.nudges - 1))
      sweep == run - nudge.last >= Window(nudge.nudges) /\ burn >= BurnFloor IN
  [run |-> run, burn |-> burn, key |-> -1, repeats |-> 0,
   last |-> IF dump \/ sweep THEN run ELSE nudge.last, nudges |-> nudge.nudges + IF dump \/ sweep THEN 1 ELSE 0]

\* A hand-off that failed the way the last one did is not spoken of again at once.
FailedAgain(key) ==
  IF key # nudge.key THEN [nudge EXCEPT !.key = key, !.repeats = 0]
  ELSE [nudge EXCEPT !.repeats = IF @ + 1 <= Backoff THEN @ + 1 ELSE 0]

\* Wrong: any hand-off ends the run of direct work.
HandedOver(c, result) == Kind(c) = "launch"

Landed(c, result) == Kind(c) = "launch" /\ result = "ok"

Observed(c, result) ==
  IF Landed(c, result) THEN Rested
  ELSE IF ~IsVisible(c) \/ Kind(c) = "intercom" THEN nudge
  ELSE IF Kind(c) = "launch" THEN FailedAgain(script.size[c]) ELSE Worked(c)

\* Wrong: only a hand-off's own result is searched for a surrender.
OwnReport(c) == Kind(c) = "launch"

IsReport(c) == Kind(c) = "launch" \/ c \in ToSet(relays)

\* A script's text carries a surrender only if one of its calls did.
MayCarry(c) == Kind(c) = "launch" \/ \E d \in marked : script.of[d] = c

Results(c) ==
  /\ call[c] \in {"runs", "dropped"} /\ \A d \in Calls : script.of[d] = c => call[d] # "runs"
  /\ call' = [call EXCEPT ![c] = IF @ = "runs" THEN "ended" ELSE "late"]
  /\ \E result \in IF Kind(c) \in {"launch", "send", "intercom"} THEN {"ok", "error"} ELSE {"ok"} : \E fate \in Fates(c, result), carries \in {MayCarry(c), FALSE} :
       /\ Recorded(c, result, fate) /\ nudge' = Observed(c, result)
       /\ since' = IF result = "ok" /\ Kind(c) = "launch" THEN {} ELSE IF IsVisible(c) THEN since \union {c} ELSE since
       /\ marked' = IF carries THEN marked \union {c} ELSE marked
       /\ LET surrender == carries /\ IsReport(c)
              rest == Remove(relays, c) IN
          /\ relays' = IF surrender /\ ~IsVisible(c) /\ script.of[c] \notin ToSet(rest)
                       THEN Append(IF Len(rest) >= MaxRelays THEN Tail(rest) ELSE rest, script.of[c]) ELSE rest
          /\ noted' = IF surrender /\ IsVisible(c) THEN noted \union {c} ELSE noted
  /\ UNCHANGED <<script, inTurn, world, warned, warnings, settles>>

---------------------------------------------------------------------------
\* Wrong: a launch that never got its result stays.
Kept == launching

ClearInFlight == {}

\* agent_settled: what the host never ran is closed.
Settles ==
  /\ inTurn /\ inTurn' = FALSE
  /\ call' = [c \in Calls |-> IF call[c] = "runs" THEN "dropped" ELSE call[c]]
  /\ ends' = [c \in Calls |-> ends[c] + IF c \in open THEN 1 ELSE 0]
  /\ mail' = [c \in Calls |-> [p \in Peers |-> IF c \in open /\ p \in Recipients(c) THEN Append(mail[c][p], "failed") ELSE mail[c][p]]]
  /\ open' = {} /\ launching' = ClearInFlight /\ relays' = <<>>
  /\ UNCHANGED <<script, truth, world, warned, warnings, marked, noted, nudge, since, settles>>

NextTurn ==
  /\ ~inTurn /\ settles < MaxSettles /\ inTurn' = TRUE /\ settles' = settles + 1
  /\ UNCHANGED <<script, call, recordVars, world, warned, warnings, noteVars>>

RecordsNext ==
  \/ Changes \/ Settles \/ NextTurn
  \/ \E c \in Calls : Refuses(c) \/ Passes(c) \/ Results(c)

RecordsSpec == RecordsInit /\ [][RecordsNext]_vars

---------------------------------------------------------------------------
\* hooks.ts:363: a call ends in the records once, however it ends; a message is
\* not said to be delivered when it failed; only calls under way count as launches.
CallsAreRecorded ==
  /\ \A c \in Calls : ends[c] = IF call[c] \in {"new", "runs"} THEN 0 ELSE 1
  /\ \A c \in Calls, p \in Peers :
       LET told == mail[c][p] IN
       /\ Len(told) = IF p \notin Recipients(c) \/ call[c] \in {"new", "refused"} THEN 0 ELSE 1 + ends[c]
       /\ Len(told) = 2 /\ call[c] = "ended" =>
            /\ told[2] = "delivered" => truth[c][p] # "failed"
            /\ told[2] = "failed" => truth[c][p] = "failed"
  /\ launching \subseteq {c \in Calls : call[c] = "runs"}

\* write-guard.ts:46, hooks.ts:684: a write into a peer's claim is refused before
\* the first one goes through, and once while the warning is remembered; a surrender
\* the model can see is pointed out, if no turn ended and no relay was pushed out on
\* its way; direct work is counted until a hand-off lands, and each reminder of it
\* waits longer than the one before.
NotesAreFair ==
  /\ warnings["unwarned"] = 0
  /\ \A k \in Claims : warnings[k] > 1 => Cardinality({j \in Claims : warnings[j] > 0}) > MaxWarnings
  /\ \A c \in marked : IsVisible(c) /\ call[c] = "ended" /\ Cardinality({script.of[d] : d \in marked}) <= MaxRelays => c \in noted
  /\ nudge.run = Cardinality({c \in since : Kind(c) \in {"work", "write", "read", "sleep", "wrap", "send"} /\ (Kind(c) = "write" \/ script.size[c] >= 1)})
  /\ nudge.nudges > 0 => 2 * nudge.run >= 2 + RunLength * nudge.nudges * (nudge.nudges - 1)

---------------------------------------------------------------------------
(* Runs on the screen *)

rowVars == <<screen, visible>>

Queueing == [st |-> "line", model |-> "own", aborted |-> FALSE, steered |-> FALSE, lost |-> FALSE]
RowsStart(down) ==
  /\ screen = [rows |-> <<>>, stops |-> <<>>, steers |-> {}, asks |-> {}, heard |-> <<>>, roots |-> 0, down |-> down]
  /\ visible = [r \in DOMAIN Rosters |-> [at |-> "new", root |-> 0, aborted |-> FALSE, legs |-> [k \in Rosters[r] |-> Queueing]]]
RowsInit == RowsStart(FALSE)

RootId(r) == <<visible[r].root>>
LegId(r, k) == <<visible[r].root, k>>
Under(id, root) == id[1] = root[1]
Row(status, model) == [status |-> status, model |-> model]
Put(f, id, value) == [i \in DOMAIN f \union {id} |-> IF i = id THEN value ELSE f[i]]
Drop(f, ids) == [i \in DOMAIN f \ ids |-> f[i]]

\* telemetryStatus: a leg waits while its handle says that its question is open.
Seen(s, id) == [s.rows[id] EXCEPT !.status = IF @ = "running" /\ id \in s.steers \intersect s.asks THEN "waiting" ELSE @]

\* publishAgentTreeChange: every row that changes is told, as it then is.
Published(s) ==
  [i \in DOMAIN s.rows |->
     IF i \in DOMAIN screen.rows /\ s.rows[i] = screen.rows[i] THEN screen.heard[i] ELSE Seen(s, i)]
Redraws(s) == screen' = [s EXCEPT !.heard = Published(s)]

\* Wrong: a question that is asked or over changes no row.
Unrefreshed(s) == s

Refreshed(s) == [s EXCEPT !.heard = [i \in DOMAIN @ |-> IF i \in s.steers THEN Seen(s, i) ELSE @[i]]]

\* clearStops, clearSteers, AgentTree.remove.
Cleared(s, root) ==
  LET gone == {i \in DOMAIN s.rows \union DOMAIN s.stops \union s.steers : Under(i, root)} IN
  [s EXCEPT !.rows = Drop(@, gone), !.stops = Drop(@, gone), !.steers = @ \ gone]

\* Wrong: two runs of a strategy share their root.
SameRoot(n) == 1

NextRoot(n) == n + 1

BeginsRun(r) ==
  /\ visible[r].at = "new" /\ ~screen.down
  /\ LET root == NextRoot(screen.roots) IN
       /\ visible' = [visible EXCEPT ![r].at = "asks", ![r].root = root]
       /\ Redraws([screen EXCEPT !.roots = root, !.rows = Put(@, <<root>>, Row("running", "none")), !.stops = Put(@, <<root>>, <<r>>)])

Over(r) ==
  /\ visible' = [visible EXCEPT ![r] = [@ EXCEPT !.at = "over", !.aborted = FALSE]]
  /\ Redraws(Cleared(screen, RootId(r)))

\* ensurePersonaModels may fail, or the run be stopped while it asks.
ChoosesModels(r) ==
  /\ visible[r].at = "asks"
  /\ \/ Over(r)
     \/ /\ ~visible[r].aborted /\ visible' = [visible EXCEPT ![r].at = "legs"]
        /\ LET seeded == {LegId(r, k) : k \in Rosters[r]} IN
             Redraws([screen EXCEPT !.rows = [i \in DOMAIN @ \union seeded |-> IF i \in seeded THEN Row("queued", "own") ELSE @[i]]])

Live(r, k) == visible[r].legs[k].st = "live"
LegBecomes(r, k, leg) == visible' = [visible EXCEPT ![r].legs[k] = leg]

StartsLeg(r, k) ==
  /\ visible[r].at = "legs" /\ visible[r].legs[k].st = "line" /\ ~visible[r].aborted
  /\ LegBecomes(r, k, [visible[r].legs[k] EXCEPT !.st = "live"])
  /\ Redraws([screen EXCEPT !.stops = Put(@, LegId(r, k), <<r, k>>), !.rows = Put(@, LegId(r, k), Row("running", "own"))])

\* A limit is reached: the strategy throws at once, and a leg under way goes on.
ReachesLimit(r, k) ==
  /\ visible[r].at = "legs" /\ visible[r].legs[k].st = "line" /\ ~visible[r].aborted
  /\ \E j \in Rosters[r] : visible[r].legs[j].st # "line"
  /\ visible' = [visible EXCEPT ![r].at = "over",
                                ![r].aborted = FALSE,
                                ![r].legs = [j \in Rosters[r] |-> [@[j] EXCEPT !.lost = Live(r, j)]]]
  /\ Redraws(Cleared(screen, RootId(r)))

TakesSteer(r, k) ==
  /\ r \in Steerable /\ Live(r, k) /\ ~visible[r].legs[k].steered
  /\ LegBecomes(r, k, [visible[r].legs[k] EXCEPT !.steered = TRUE])
  /\ screen' = [screen EXCEPT !.steers = @ \union {LegId(r, k)}]

\* An engine hands the handle over before its agent can ask.
LegAsks(r, k) ==
  /\ Live(r, k) /\ visible[r].legs[k].steered /\ LegId(r, k) \notin screen.asks
  /\ screen' = Refreshed([screen EXCEPT !.asks = @ \union {LegId(r, k)}]) /\ UNCHANGED visible
AskEnds(r, k) ==
  /\ LegId(r, k) \in screen.asks
  /\ screen' = Refreshed([screen EXCEPT !.asks = @ \ {LegId(r, k)}]) /\ UNCHANGED visible

\* onAgentStatus: a terminal status drops the leg's handles, and its row is there again if it had gone.
Unhandled(id) == [screen EXCEPT !.stops = Drop(@, {id}), !.steers = @ \ {id}]
Attempted(r, k) == Live(r, k) /\ LegId(r, k) \notin screen.asks

\* Once more on the main model: the start was announced, so no stop handle is given again.
RunsAgain(r, k) ==
  /\ Attempted(r, k) /\ visible[r].legs[k].model = "own" /\ ~visible[r].aborted /\ ~visible[r].legs[k].aborted
  /\ LegBecomes(r, k, [visible[r].legs[k] EXCEPT !.model = "main", !.steered = FALSE])
  /\ Redraws([Unhandled(LegId(r, k)) EXCEPT !.rows = Put(@, LegId(r, k), Row("running", "main"))])
EndsLeg(r, k) ==
  /\ Attempted(r, k)
  /\ LegBecomes(r, k, [Queueing EXCEPT !.st = "over", !.lost = visible[r].legs[k].lost])
  /\ Redraws([Unhandled(LegId(r, k)) EXCEPT !.rows = Put(@, LegId(r, k), Row("ended", visible[r].legs[k].model))])

\* A leg in line when its run is stopped never starts.
EndsRun(r) ==
  /\ visible[r].at = "legs" /\ Over(r)
  /\ \A k \in Rosters[r] : visible[r].legs[k].st = "over" \/ (visible[r].legs[k].st = "line" /\ visible[r].aborted)

\* What the handles of these ids abort: a run aborts its legs.
Aborts(ids) ==
  LET aims == {screen.stops[i] : i \in ids} IN
  visible' = [r \in DOMAIN visible |->
    [visible[r] EXCEPT !.aborted = @ \/ <<r>> \in aims,
                       !.legs = [k \in Rosters[r] |-> [@[k] EXCEPT !.aborted = @ \/ {<<r>>, <<r, k>>} \intersect aims # {}]]]]

\* stopAgent: the row says so before the steer handle goes.
Presses(id) ==
  /\ Aborts({id})
  /\ screen' = [screen EXCEPT !.steers = @ \ {id}, !.heard = [i \in DOMAIN @ |-> IF i = id THEN Seen(screen, i) ELSE @[i]]]

\* session_shutdown: every handle is used, then all go.
TearsDown ==
  /\ ~screen.down /\ Aborts(DOMAIN screen.stops)
  /\ screen' = [screen EXCEPT !.rows = <<>>, !.stops = <<>>, !.steers = {}, !.heard = <<>>, !.down = TRUE]

RowsNext ==
  \/ \E r \in DOMAIN Rosters : BeginsRun(r) \/ ChoosesModels(r) \/ EndsRun(r)
  \/ \E r \in DOMAIN Rosters : \E k \in Rosters[r] :
       \/ StartsLeg(r, k) \/ ReachesLimit(r, k) \/ TakesSteer(r, k)
       \/ LegAsks(r, k) \/ AskEnds(r, k) \/ RunsAgain(r, k) \/ EndsLeg(r, k)
  \/ \E id \in DOMAIN screen.stops : Presses(id)
  \/ TearsDown

\* extension.ts:280, extension.ts:732: a run that is over leaves no row and no handle, but of a leg
\* that outlived it; a leg an engine runs can be stopped from its row, unless it is run again, and
\* from its run's; no handle outlives what it aborts; a shutdown stops every leg but those; and
\* telemetry was told what each row shows, but that a leg stopped while it waited waits no more.
ScreenIsTrue ==
  /\ \A r \in DOMAIN Rosters : visible[r].at = "over" =>
       \A i \in DOMAIN screen.rows \union DOMAIN screen.stops \union screen.steers :
         Under(i, RootId(r)) => \E k \in Rosters[r] : i = LegId(r, k) /\ visible[r].legs[k].lost
  /\ \A r \in DOMAIN Rosters : \A k \in Rosters[r] : Live(r, k) /\ ~visible[r].legs[k].lost =>
       IF screen.down THEN visible[r].legs[k].aborted
       ELSE /\ LegId(r, k) \in DOMAIN screen.rows
            /\ RootId(r) \in DOMAIN screen.stops /\ screen.stops[RootId(r)] = <<r>>
            /\ visible[r].legs[k].model = "own" => LegId(r, k) \in DOMAIN screen.stops /\ screen.stops[LegId(r, k)] = <<r, k>>
  /\ \A i \in DOMAIN screen.stops : LET aim == screen.stops[i] IN
       IF Len(aim) = 1 THEN visible[aim[1]].at # "over" ELSE Live(aim[1], aim[2])
  /\ \A i \in DOMAIN screen.rows : screen.heard[i] # Seen(screen, i) => i \notin screen.steers /\ screen.heard[i].status = "waiting"
====
