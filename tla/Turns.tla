---- MODULE Turns ----
(***************************************************************************)
(* The turns of a supervisor whose persona mandates an orchestration, and  *)
(* what a restart of its session takes with it: src/extension/hooks.ts and *)
(* src/core/session-runs.ts.                                               *)
(*                                                                         *)
(* An input of the user is orchestrated before its turn, or deferred until *)
(* the session settles; its ruling is folded into the prompt of a turn.    *)
(* An orchestration may take any time, and callbacks run meanwhile.  The   *)
(* host starts one turn at a time: from the end of an input's hook, or a   *)
(* follow-up sent while it is idle, to before_agent_start no other turn    *)
(* starts.                                                                 *)
(***************************************************************************)
EXTENDS Integers, Sequences, SequencesExt, FiniteSets

CONSTANTS
  Inputs,       \* what the user asks
  MaxDeferred,  \* MAX_DEFERRED_ORCHESTRATIONS
  MaxTurns,     \* bound: turns nobody asked for (wakes)
  MaxIssued,    \* bound: background runs of the history
  MaxRestarts,  \* bound: ends of an instance
  MaxRefusals   \* bound: follow-ups the host refuses

VARIABLES
  host,      \* "idle", "turn", "entering": a prompt on its way to its turn, "off", "gone"
  prompt,    \* the prompt of the turn, or on its way: an input, or "wake"
  work,      \* the orchestration that runs: [of, by: "hook" | "settled"], or Nothing
  orchestrating, processing,  \* the two flags
  deferred,  \* the inputs that wait
  pending,   \* the input whose ruling waits for before_agent_start, or "none"
  lot,       \* [input -> new, accepted, refused, told, dropped]
  order,     \* history: the inputs in the order they were accepted
  told,      \* history: <<turn's prompt, ruling>> in the order of the turns
  issued, restored, unreported, armed,   \* the run counter, its value at the start, the runs not told yet, a wake source
  entry,     \* the newest entry of the session: [issued, runs, wakes], or Nothing
  notice,    \* what the next turn hears of the last restart
  record,    \* history: [ids: all issued, heard: [id -> times], reused: an id came twice, crashed]
  tally      \* [turns, restarts, refusals]

handVars == <<work, orchestrating, processing, deferred, pending, lot, order>>
lossVars == <<issued, restored, unreported, armed, entry, notice, record>>
vars == <<host, prompt, handVars, told, lossVars, tally>>

Nothing == [of |-> "none", by |-> "none"]
NoEntry == [issued |-> 0, runs |-> {}, wakes |-> FALSE]
NothingLost == [runs |-> {}, wakes |-> FALSE]

TurnsStart(h) ==
  /\ host = h /\ prompt = "none" /\ work = Nothing /\ orchestrating = FALSE /\ processing = FALSE
  /\ deferred = <<>> /\ pending = "none" /\ lot = [i \in Inputs |-> "new"] /\ order = <<>> /\ told = <<>>
  /\ issued = 0 /\ restored = 0 /\ unreported = {} /\ armed = FALSE /\ entry = NoEntry /\ notice = NothingLost
  /\ record = [ids |-> {}, heard |-> [n \in 1..MaxIssued |-> 0], reused |-> FALSE, crashed |-> FALSE]
  /\ tally = [turns |-> 0, restarts |-> 0, refusals |-> 0]

TurnsInit == TurnsStart("idle")

Live == {"idle", "entering", "turn"}

Bumped(what) == tally' = [tally EXCEPT ![what] = @ + 1]

---------------------------------------------------------------------------
(* Mandatory orchestrations *)

\* Wrong: an orchestration that runs while the host is idle is overlooked.
HostBusy == host = "turn"

MustWait == host = "turn" \/ orchestrating

\* input, at once: the hook holds the prompt until the ruling is there.
AsksNow(i) ==
  /\ lot[i] = "new" /\ host \in {"idle", "turn"} /\ ~MustWait
  /\ orchestrating' = TRUE /\ work' = [of |-> i, by |-> "hook"]
  /\ lot' = [lot EXCEPT ![i] = "accepted"] /\ order' = Append(order, i)
  /\ UNCHANGED <<host, prompt, processing, deferred, pending, told, lossVars, tally>>

\* input, as a follow-up or while another one is orchestrated.
Defers(i) ==
  /\ lot[i] = "new" /\ host \in {"idle", "turn"} /\ MustWait
  /\ IF Len(deferred) >= MaxDeferred
     THEN lot' = [lot EXCEPT ![i] = "refused"] /\ UNCHANGED <<deferred, order>>
     ELSE lot' = [lot EXCEPT ![i] = "accepted"] /\ deferred' = Append(deferred, i) /\ order' = Append(order, i)
  /\ UNCHANGED <<host, prompt, work, orchestrating, processing, pending, told, lossVars, tally>>

\* The hook returns: the ruling, good or bad, waits for the input's own turn.
HookEnds ==
  /\ work.by = "hook" /\ host = "idle"
  /\ pending' = work.of /\ orchestrating' = FALSE /\ work' = Nothing
  /\ host' = "entering" /\ prompt' = work.of
  /\ UNCHANGED <<processing, deferred, lot, order, told, lossVars, tally>>

\* agent_settled: the next deferred input owns the idle window.
Takes(done) ==
  IF done = <<>> \/ processing THEN UNCHANGED <<work, orchestrating, processing, deferred>>
  ELSE /\ deferred' = Tail(done) /\ work' = [of |-> Head(done), by |-> "settled"]
       /\ processing' = TRUE /\ orchestrating' = TRUE

TurnSettles ==
  /\ host = "turn" /\ host' = "idle" /\ prompt' = "none"
  /\ Takes(deferred)
  /\ UNCHANGED <<pending, lot, order, told, lossVars, tally>>

\* Wrong: the input is not put back.
PutOff(i) == deferred

PutBack(i) == <<i>> \o deferred

\* Its replay is a follow-up; the host may refuse that.
ReplayEnds ==
  /\ work.by = "settled" /\ host = "idle"
  /\ work' = Nothing /\ orchestrating' = FALSE /\ processing' = FALSE
  /\ \/ /\ pending' = work.of /\ host' = "entering" /\ prompt' = work.of
        /\ UNCHANGED <<deferred, tally>>
     \/ /\ tally.refusals < MaxRefusals /\ Bumped("refusals")
        /\ pending' = "none" /\ deferred' = PutBack(work.of)
        /\ UNCHANGED <<host, prompt>>
  /\ UNCHANGED <<lot, order, told, lossVars>>

\* before_agent_start: the ruling goes into this turn's prompt, and the notice of
\* a restart is read.
TurnBegins ==
  /\ host = "entering" /\ host' = "turn"
  /\ told' = IF pending = "none" THEN told ELSE Append(told, <<prompt, pending>>)
  /\ lot' = IF pending = "none" THEN lot ELSE [lot EXCEPT ![pending] = "told"]
  /\ pending' = "none"
  /\ record' = [record EXCEPT !.heard = [n \in DOMAIN @ |-> @[n] + IF n \in notice.runs THEN 1 ELSE 0]]
  /\ notice' = NothingLost
  /\ UNCHANGED <<prompt, work, orchestrating, processing, deferred, order, issued, restored, unreported, armed, entry, tally>>

\* Wrong: only the host's own idleness is asked.
HostIdle == TRUE

MayDeliver == ~orchestrating /\ ~processing

\* A notifier tells an idle supervisor something.
Wakes ==
  /\ host = "idle" /\ MayDeliver /\ tally.turns < MaxTurns /\ Bumped("turns")
  /\ host' = "entering" /\ prompt' = "wake"
  /\ UNCHANGED <<handVars, told, lossVars>>

---------------------------------------------------------------------------
(* Background runs and restarts *)

Issues ==
  /\ host = "turn" /\ issued < MaxIssued
  /\ issued' = issued + 1 /\ unreported' = unreported \union {issued'}
  /\ record' = [record EXCEPT !.ids = @ \union {issued'}, !.reused = @ \/ (issued' \in record.ids /\ ~record.crashed)]
  /\ UNCHANGED <<host, prompt, handVars, told, restored, armed, entry, notice, tally>>

Reports(n) ==
  /\ n \in unreported /\ unreported' = unreported \ {n}
  /\ UNCHANGED <<host, prompt, handVars, told, issued, restored, armed, entry, notice, record, tally>>

Arms ==
  /\ host = "turn" /\ armed' = ~armed
  /\ UNCHANGED <<host, prompt, handVars, told, issued, restored, unreported, entry, notice, record, tally>>

\* Wrong: the counter is only written with a loss.
LossesOnly == unreported # {} \/ armed

WorthRecording == unreported # {} \/ armed \/ issued > restored

Recorded == [issued |-> issued, runs |-> unreported, wakes |-> armed]

\* session_shutdown.  What was still orchestrated ends with nobody to hear it.
ShutsDown ==
  /\ host \in Live /\ tally.restarts < MaxRestarts /\ Bumped("restarts")
  /\ host' = "off" /\ prompt' = "none"
  /\ entry' = IF WorthRecording THEN Recorded ELSE entry
  /\ work' = Nothing /\ orchestrating' = FALSE /\ processing' = FALSE /\ deferred' = <<>> /\ pending' = "none"
  /\ lot' = [i \in Inputs |-> IF lot[i] = "accepted" THEN "dropped" ELSE lot[i]]
  /\ notice' = NothingLost
  /\ UNCHANGED <<order, told, issued, restored, unreported, armed, record>>

\* The process dies: nothing is recorded.
Crashes ==
  /\ host \in Live /\ tally.restarts < MaxRestarts /\ Bumped("restarts")
  /\ host' = "off" /\ prompt' = "none"
  /\ work' = Nothing /\ orchestrating' = FALSE /\ processing' = FALSE /\ deferred' = <<>> /\ pending' = "none"
  /\ lot' = [i \in Inputs |-> IF lot[i] = "accepted" THEN "dropped" ELSE lot[i]]
  /\ notice' = NothingLost /\ record' = [record EXCEPT !.crashed = TRUE]
  /\ UNCHANGED <<order, told, issued, restored, unreported, armed, entry>>

\* Wrong: the loss stays the newest entry.
Unacknowledged == entry

\* The newest entry becomes an empty loss.
Acknowledged == [entry EXCEPT !.runs = {}, !.wakes = FALSE]

\* session_start of a fresh instance over the same history.
Starts ==
  /\ host = "off" /\ host' = "idle"
  /\ issued' = entry.issued /\ restored' = entry.issued
  /\ unreported' = {} /\ armed' = FALSE
  /\ IF entry.runs # {} \/ entry.wakes
     THEN notice' = [runs |-> entry.runs, wakes |-> entry.wakes] /\ entry' = Acknowledged
     ELSE UNCHANGED <<notice, entry>>
  /\ UNCHANGED <<prompt, handVars, told, record, tally>>

---------------------------------------------------------------------------
TurnsNext ==
  \/ \E i \in Inputs : AsksNow(i) \/ Defers(i)
  \/ HookEnds \/ TurnSettles \/ ReplayEnds \/ TurnBegins \/ Wakes
  \/ Issues \/ (\E n \in 1..MaxIssued : Reports(n)) \/ Arms
  \/ ShutsDown \/ Crashes \/ Starts

\* An orchestration ends, as its legs have deadlines, and so does a turn.
Moves == HookEnds \/ TurnSettles \/ ReplayEnds \/ TurnBegins

TurnsFairness == WF_vars(Moves)

TurnsSpec == TurnsInit /\ [][TurnsNext]_vars /\ TurnsFairness

---------------------------------------------------------------------------
\* hooks.ts:941: each accepted input gets its ruling in its own turn, and the
\* inputs theirs in the order they were accepted (until the host refuses a replay:
\* what was put back may be overtaken), whatever is typed or deferred while an
\* orchestration runs.
RulingsAreTold ==
  /\ \A n \in DOMAIN told : told[n][1] = told[n][2]
  /\ \A i \in Inputs : lot[i] = "told" <=> \E n \in DOMAIN told : told[n][2] = i
  /\ LET heard == [n \in DOMAIN told |-> told[n][2]] IN
     /\ IsInjective(heard)
     /\ tally.refusals = 0 => heard = SelectSeq(order, LAMBDA i : i \in ToSet(heard))
  /\ \A i \in Inputs : lot[i] = "accepted" =>
       Cardinality({x \in {"work", "waits", "pending"} :
         \/ x = "work" /\ work.of = i
         \/ x = "waits" /\ i \in ToSet(deferred)
         \/ x = "pending" /\ pending = i}) = 1

\* session-runs.ts:1: an id is never issued twice in one history, and a loss is
\* told at most once, however often the session restarts.  A crash records nothing.
LossesAreTold ==
  /\ ~record.reused
  /\ \A n \in 1..MaxIssued : record.heard[n] <= 1 \/ record.crashed
  /\ host \in Live => \A n \in unreported : n > restored

\* hooks.ts:349: no accepted input waits for ever: it is told or dropped with its
\* session, unless the host refused its replay and has no turn after that.
RulingsGiven == (\A i \in Inputs : lot[i] # "accepted") \/ tally.refusals > 0
RulingsCome == <>[]RulingsGiven
====
