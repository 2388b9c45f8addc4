---- MODULE ChildLeg ----
(***************************************************************************)
(* A leg run as a child process: the adapter that takes a reader grant and *)
(* a bus handle before it spawns and gives them back afterwards            *)
(* (src/engine/adapter.ts), and the process with its deadlines, its kill   *)
(* escalation and its single settlement (src/engine/child.ts).             *)
(*                                                                         *)
(* The process tree is the root and one tool process of its own, which may *)
(* be deaf to SIGTERM and may hold the root's stdout open.  A signal only  *)
(* makes a death possible: every process of the model may end at any time, *)
(* and none has to.                                                        *)
(***************************************************************************)
CONSTANTS ToolCalls,  \* bound: tool calls the child makes
          Brokers     \* bound: whether a leg that reads no results has a broker

VARIABLES child,     \* the state of the leg
          windows    \* process.platform = "win32"

childVars == <<child, windows>>

ChildDeadlines == {"idle", "hard", "startup"}
Timers == ChildDeadlines \cup {"grace", "lastResort"}
Cut == ChildDeadlines \cup {"abort", "flood"}
Ends == {"none", "ok", "contract", "provider", "agent", "threw", "refused", "abort", "timeout"}

Child == [life : {"idle", "preparing", "prompting", "running", "settled"},
          cause : {"none"} \cup Cut,
          verdict : Ends,
          signal : {"live", "call", "run"}, listening : BOOLEAN,
          armed : SUBSET Timers, progressed : BOOLEAN,
          grant : BOOLEAN, handle : BOOLEAN, promptFile : BOOLEAN,
          ask : {"none", "pending", "settled"},
          killing : BOOLEAN, forced : BOOLEAN, flooded : BOOLEAN,
          root : {"none", "alive", "dead"}, exit : {"none", "zero", "nonzero", "signal"},
          exited : BOOLEAN,
          kid : {"none", "tame", "deaf"}, pipe : BOOLEAN,
          calls : [ToolCalls -> {"new", "open", "ended"}]]

FreshChild(signal) ==
  [life |-> "idle", cause |-> "none", verdict |-> "none",
   signal |-> signal, listening |-> FALSE, armed |-> {}, progressed |-> FALSE,
   grant |-> FALSE, handle |-> FALSE, promptFile |-> FALSE, ask |-> "none",
   killing |-> FALSE, forced |-> FALSE, flooded |-> FALSE,
   root |-> "none", exit |-> "none", exited |-> FALSE,
   kid |-> "none", pipe |-> FALSE, calls |-> [c \in ToolCalls |-> "new"]]

ChildInit == child = FreshChild("live") /\ windows \in BOOLEAN

ChildBecomes(x) == child' = x /\ UNCHANGED windows

---------------------------------------------------------------------------
\* adapter run: the checks, the broker's reader, the handle, then the prompt
\* file that runChildAgent writes before it spawns.

BeginChild ==
  LET x == FreshChild(child.signal) IN
  \/ ChildBecomes([x EXCEPT !.life = "settled", !.verdict = "refused"])
  \/ \E broker \in Brokers : ChildBecomes([x EXCEPT !.life = "prompting", !.handle = broker])
  \/ ChildBecomes([x EXCEPT !.life = "preparing"])

Prepares ==
  /\ child.life = "preparing"
  /\ \/ ChildBecomes([child EXCEPT !.life = "prompting", !.grant = TRUE, !.handle = TRUE])
     \/ ChildBecomes([child EXCEPT !.life = "settled", !.verdict = "contract"])

\* The adapter's finally and runChildAgent's.
\* Wrong: a run that throws skips them.
Forgotten(x) == x

GivenBack(x) ==
  [x EXCEPT !.grant = FALSE, !.handle = FALSE, !.promptFile = FALSE,
            !.ask = "none"]

---------------------------------------------------------------------------
\* kill: once; the deadlines go, the last resort and, where a group can be
\* asked politely, the grace timer are set.  Windows goes straight to the
\* force kill.

\* Wrong: nothing settles the leg if the process never closes.
KilledPolitely(x) ==
  IF x.killing THEN x
  ELSE [x EXCEPT !.killing = TRUE, !.forced = windows /\ x.root # "none",
                 !.armed = (@ \ ChildDeadlines) \cup (IF windows THEN {} ELSE {"grace"})]

Killed(x) ==
  IF x.killing THEN x
  ELSE [x EXCEPT !.killing = TRUE, !.forced = windows /\ x.root # "none",
                 !.armed = (@ \ ChildDeadlines) \cup {"lastResort"}
                             \cup (IF windows THEN {} ELSE {"grace"})]

Stopped(x, c) == Killed([x EXCEPT !.cause = IF @ = "none" THEN c ELSE @])

Spawned(x) ==
  [x EXCEPT !.life = "running", !.promptFile = TRUE, !.armed = ChildDeadlines,
            !.listening = (x.signal = "live")]

Spawns ==
  /\ child.life = "prompting"
  /\ \E root \in {"none", "alive"} :
       LET x == [Spawned(child) EXCEPT !.root = root] IN
       ChildBecomes(IF x.signal = "live" THEN x ELSE Stopped(x, "abort"))

PromptFails ==
  /\ child.life = "prompting"
  /\ ChildBecomes([GivenBack(child) EXCEPT !.life = "settled", !.verdict = "threw"])

---------------------------------------------------------------------------
\* Output.  It is read until the pipe closes, also after the leg is settled;
\* a flood ends the reading.

Reads == child.root # "none" /\ ~child.exited /\ ~child.flooded

Heard(x) ==
  [x EXCEPT !.progressed = TRUE,
            !.armed = IF x.life = "settled" \/ x.killing THEN @ ELSE (@ \ {"startup"}) \cup {"idle"}]

ChildSpeaks ==
  /\ Reads /\ ~child.progressed
  /\ ChildBecomes(Heard(child))

ChildCalls(c) ==
  /\ Reads
  /\ \/ child.calls[c] = "new" /\ ChildBecomes(Heard([child EXCEPT !.calls[c] = "open"]))
     \/ child.calls[c] = "open" /\ ChildBecomes(Heard([child EXCEPT !.calls[c] = "ended"]))

\* An unterminated line over the limit: loud, never a silent drop.
FloodStops(x) == Stopped([x EXCEPT !.flooded = TRUE], "flood")

ChildFloods ==
  /\ Reads
  /\ ChildBecomes(FloodStops(child))

ChildAsks ==
  /\ child.root = "alive" /\ child.handle /\ child.ask = "none"
  /\ ChildBecomes([child EXCEPT !.ask = "pending"])

ChildAnswered ==
  /\ child.ask = "pending"
  /\ ChildBecomes([child EXCEPT !.ask = "settled"])

---------------------------------------------------------------------------
\* Deadlines and the signal.

ChildTimesOut(d) ==
  /\ d \in child.armed
  /\ d # "hard" => child.ask # "pending"
  /\ ChildBecomes(Stopped([child EXCEPT !.armed = @ \ {d}], d))

AbortChild(s) ==
  LET x == [child EXCEPT !.signal = s, !.listening = FALSE] IN
  /\ child.signal = "live"
  /\ ChildBecomes(IF child.listening THEN Stopped(x, "abort") ELSE x)

---------------------------------------------------------------------------
\* The processes.

\* A death without a status counts as code 1.
RootExits(status) ==
  /\ child.root = "alive"
  /\ ChildBecomes([child EXCEPT !.root = "dead", !.exit = status])

\* bound: a root that was told to end starts no more tools.
KidStarts ==
  /\ child.root = "alive" /\ child.kid = "none" /\ ~child.killing
  /\ \E k \in {"tame", "deaf"}, p \in BOOLEAN : ChildBecomes([child EXCEPT !.kid = k, !.pipe = p])

KidEnds ==
  /\ child.kid # "none"
  /\ ChildBecomes([child EXCEPT !.kid = "none", !.pipe = FALSE])

---------------------------------------------------------------------------
\* finish, then the result and the two finally blocks: nothing else can run
\* in between.

ChildVerdicts(x) ==
  IF x.cause \in ChildDeadlines THEN {"timeout"}
  ELSE IF x.cause # "none" /\ x.signal # "live" THEN {"abort"}
  ELSE IF x.cause = "none" /\ x.exit = "zero" THEN {"ok", "contract", "provider", "agent"}
  ELSE {"provider", "agent"}

Finished(x, v) ==
  [GivenBack(x) EXCEPT !.life = "settled", !.verdict = v, !.armed = {}, !.listening = FALSE,
     !.progressed = FALSE,
     !.calls = [c \in ToolCalls |-> IF x.calls[c] = "open" THEN "ended" ELSE x.calls[c]]]

FinishChild(x) == \E v \in ChildVerdicts(x) : ChildBecomes(Finished(x, v))

\* "close": the root is gone and nobody holds its pipes.
ChildCloses ==
  LET x == [child EXCEPT !.exited = TRUE] IN
  /\ child.root = "dead" /\ ~child.exited
  /\ ~(child.kid # "none" /\ child.pipe)
  /\ IF child.life = "running" THEN FinishChild(x) ELSE ChildBecomes(x)

\* "error": it could not be spawned.
SpawnErrors ==
  /\ child.life = "running" /\ child.root = "none"
  /\ FinishChild(child)

GraceEnds ==
  /\ "grace" \in child.armed
  /\ ChildBecomes([child EXCEPT !.armed = @ \ {"grace"},
                                !.forced = @ \/ (~child.exited /\ child.root # "none")])

\* Five seconds longer than the grace.
LastResort ==
  /\ "lastResort" \in child.armed /\ "grace" \notin child.armed
  /\ FinishChild(child)

ChildStep ==
  \/ Prepares \/ Spawns \/ PromptFails \/ SpawnErrors
  \/ ChildSpeaks \/ ChildFloods \/ ChildAsks \/ ChildAnswered
  \/ \E c \in ToolCalls : ChildCalls(c)
  \/ \E d \in ChildDeadlines : ChildTimesOut(d)
  \/ \E status \in {"zero", "nonzero", "signal"} : RootExits(status)
  \/ KidStarts \/ KidEnds \/ ChildCloses \/ GraceEnds \/ LastResort
====
