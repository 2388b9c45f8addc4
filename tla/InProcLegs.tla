---- MODULE InProcLegs ----
(***************************************************************************)
(* Legs run inside the supervisor's process (src/engine/inproc.ts): the    *)
(* session factory that cannot be interrupted, the ref-counted guard that  *)
(* keeps a session under construction from becoming a supervisor, the      *)
(* three deadlines, cancellation, the delivery bridge and the teardown.    *)
(*                                                                         *)
(* A leg is a record; run() has two awaits, the race for the session and   *)
(* the race for its end, so it resumes twice.  Everything between two      *)
(* awaits is one step, and the host, the timers and the signal step        *)
(* whenever they like.  signal is the caller's and the whole run's signal  *)
(* combined: "call" or "run" names the one that fired.                     *)
(***************************************************************************)
EXTENDS Naturals, FiniteSets

CONSTANTS Legs,     \* the runs of the in-process engine
          Readers,  \* those handed results of earlier legs to read
          Talkers,  \* those on the bus (coaching, or peers)
          Callers,  \* bound: those that call tools
          Calls,    \* bound: tool calls one leg makes
          MaxMail   \* bound: messages waiting for a session that is being built

ASSUME LegAssumption ==
  IsFiniteSet(Legs) /\ Readers \cup Talkers \cup Callers \subseteq Legs /\ MaxMail \in Nat

VARIABLES leg,      \* the state of each run's leg
          depth,    \* disableDepth
          disable,  \* PI_PERSONA_DISABLE: what the user set, or "on"
          saved     \* savedDisable

guard == <<depth, disable, saved>>
legVars == <<leg, guard>>

Deadlines == {"idle", "hard", "startup"}
Cuts == Deadlines \cup {"abort", "flood"}
Outcomes == {"none", "ok", "contract", "provider", "agent", "threw", "refused", "abort", "timeout"}
Signals == {"live", "call", "run"}

Leg == [life : {"idle", "building", "running", "settled"},
        cause : {"none"} \cup Cuts,
        verdict : Outcomes,
        signal : Signals, listening : BOOLEAN,
        armed : SUBSET Deadlines, progressed : BOOLEAN,
        factory : {"none", "building", "made", "failed"},
        session : {"none", "live", "disposed"},
        host : {"working", "clean", "error", "stopped", "threw"},
        grant : BOOLEAN, handle : BOOLEAN,
        ask : {"none", "pending", "settled"}, mail : 0..MaxMail,
        calls : [Calls -> {"new", "open", "ended"}]]

FreshLeg(signal) ==
  [life |-> "idle", cause |-> "none", verdict |-> "none",
   signal |-> signal, listening |-> FALSE, armed |-> {}, progressed |-> FALSE,
   factory |-> "none", session |-> "none", host |-> "working",
   grant |-> FALSE, handle |-> FALSE, ask |-> "none", mail |-> 0,
   calls |-> [c \in Calls |-> "new"]]

LegsInit ==
  /\ leg = [l \in Legs |-> FreshLeg("live")]
  /\ depth = 0 /\ disable = "user" /\ saved = "none"

Becomes(l, x) == leg' = [leg EXCEPT ![l] = x]

---------------------------------------------------------------------------
\* pushDisableGuard, popDisableGuard.

\* Wrong: every build saves what it finds, nested or not.
PushAndSave == depth' = depth + 1 /\ disable' = "on" /\ saved' = disable

Push ==
  /\ depth' = depth + 1 /\ disable' = "on"
  /\ saved' = IF depth = 0 THEN disable ELSE saved

Pop ==
  /\ depth' = depth - 1
  /\ disable' = IF depth = 1 THEN saved ELSE disable
  /\ UNCHANGED saved

---------------------------------------------------------------------------
\* run, up to its first await.

Turned(x, v) == [x EXCEPT !.life = "settled", !.verdict = v]

BeginLeg(l) ==
  LET x == FreshLeg(leg[l].signal) IN
  \/ Becomes(l, Turned(x, "refused")) /\ UNCHANGED guard
  \/ /\ x.signal # "live"
     /\ Becomes(l, [Turned(x, "abort") EXCEPT !.grant = (l \in Readers)])
     /\ UNCHANGED guard
  \/ /\ x.signal = "live"
     /\ Becomes(l, [x EXCEPT !.life = "building", !.listening = TRUE, !.armed = Deadlines,
                             !.factory = "building",
                             !.grant = (l \in Readers), !.handle = (l \in Talkers)])
     /\ Push

\* releaseHandle: the reader's grant, then the bus settles the handle's asks.
Released(x) ==
  [x EXCEPT !.grant = FALSE, !.handle = FALSE, !.mail = 0, !.ask = "none"]

\* What the three ways out of a leg have in common; its locals go with it.
TornDown(x) ==
  [Released(x) EXCEPT !.life = "settled", !.armed = {}, !.listening = FALSE,
                      !.session = IF @ = "live" THEN "disposed" ELSE @,
                      !.progressed = FALSE, !.host = "working"]

---------------------------------------------------------------------------
\* requestCancellation, and what calls it.  The host hears of the abort, and
\* the gate lets run() resume.

\* Wrong: a later cause replaces the first.
CutAgain(x, c) == [x EXCEPT !.cause = c]

CutLeg(x, c) == [x EXCEPT !.cause = IF @ = "none" THEN c ELSE @]

AbortLeg(l, s) ==
  LET x == [leg[l] EXCEPT !.signal = s, !.listening = FALSE] IN
  /\ leg[l].signal = "live"
  /\ Becomes(l, IF leg[l].listening THEN CutLeg(x, "abort") ELSE x)
  /\ UNCHANGED guard

\* A leg with a question in flight is given another window.  After a cut, a
\* timer changes nothing; and none fires once the host is done, since run()
\* resumes before the next timer may.
LegTimesOut(l, d) ==
  /\ d \in leg[l].armed /\ leg[l].cause = "none" /\ leg[l].host = "working"
  /\ d # "hard" => leg[l].ask # "pending"
  /\ Becomes(l, CutLeg(leg[l], d))
  /\ UNCHANGED guard

---------------------------------------------------------------------------
\* The session factory.

\* Wrong: a session that comes too late is kept.
KeptLate(x) == [x EXCEPT !.factory = "made", !.session = "live"]

MadeSession(x) ==
  [x EXCEPT !.factory = "made",
            !.session = IF x.cause = "none" THEN "live" ELSE "disposed"]

FactoryMakes(l) ==
  /\ leg[l].factory = "building"
  /\ Becomes(l, MadeSession(leg[l]))
  /\ Pop

FactoryFails(l) ==
  /\ leg[l].factory = "building"
  /\ Becomes(l, [leg[l] EXCEPT !.factory = "failed"])
  /\ Pop

\* What a cut names; otherwise the host's last word decides.
CutVerdict(x) == IF x.cause = "abort" THEN "abort" ELSE "timeout"

\* The race for the session is over: cut or rejected.  A factory that is still
\* building keeps its guard.
\* Wrong: the guard goes with the leg.
BuildGoesWithGuard(l) ==
  /\ leg[l].life = "building"
  /\ leg[l].cause # "none" \/ leg[l].factory = "failed"
  /\ Becomes(l, [TornDown(leg[l]) EXCEPT
       !.verdict = IF leg[l].cause = "none" THEN "threw" ELSE CutVerdict(leg[l])])
  /\ IF leg[l].factory = "building" THEN Pop ELSE UNCHANGED guard

BuildGivesUp(l) ==
  /\ leg[l].life = "building"
  /\ leg[l].cause # "none" \/ leg[l].factory = "failed"
  /\ Becomes(l, [TornDown(leg[l]) EXCEPT
       !.verdict = IF leg[l].cause = "none" THEN "threw" ELSE CutVerdict(leg[l])])
  /\ UNCHANGED guard

\* The session is there: subscribe, hand out the steer, open the bridge and
\* flush what raced the registration.  Any of them may throw.
\* Wrong: the bridge only sees what comes after it.
OpenedUnflushed(x) == [x EXCEPT !.life = "running"]
Opened(x) == [x EXCEPT !.life = "running", !.mail = 0]

SessionOpens(l) ==
  /\ leg[l].life = "building" /\ leg[l].cause = "none" /\ leg[l].factory = "made"
  /\ \/ Becomes(l, Opened(leg[l]))
     \/ Becomes(l, [TornDown(leg[l]) EXCEPT !.verdict = "threw"])
  /\ UNCHANGED guard

---------------------------------------------------------------------------
\* What the session and the bus do while the leg runs.  Every event re-arms
\* the idle window; the leg's own output ends the startup window.

Live(l) == leg[l].life = "running" /\ leg[l].session = "live"

Active(x) ==
  [x EXCEPT !.progressed = TRUE,
            !.armed = (@ \ {"startup"}) \ (IF x.cause = "none" THEN {} ELSE {"idle"})]

LegSpeaks(l) ==
  /\ Live(l) /\ ~leg[l].progressed /\ leg[l].host = "working"
  /\ Becomes(l, Active(leg[l]))
  /\ UNCHANGED guard

\* applyEvent knows a call once.
LegCalls(l, c) ==
  /\ Live(l) /\ l \in Callers
  /\ \/ leg[l].calls[c] = "new" /\ Becomes(l, Active([leg[l] EXCEPT !.calls[c] = "open"]))
     \/ leg[l].calls[c] = "open" /\ Becomes(l, Active([leg[l] EXCEPT !.calls[c] = "ended"]))
  /\ UNCHANGED guard

LegAsks(l) ==
  /\ Live(l) /\ leg[l].handle /\ leg[l].host = "working" /\ leg[l].ask = "none"
  /\ Becomes(l, [leg[l] EXCEPT !.ask = "pending"])
  /\ UNCHANGED guard

LegAnswered(l) ==
  /\ leg[l].ask = "pending"
  /\ Becomes(l, [leg[l] EXCEPT !.ask = "settled"])
  /\ UNCHANGED guard

\* A message for the leg's handle: it waits for the session, or the bridge
\* steers it in at once.
MailArrives(l) ==
  /\ leg[l].handle /\ leg[l].life = "building" /\ leg[l].mail < MaxMail
  /\ Becomes(l, [leg[l] EXCEPT !.mail = @ + 1])
  /\ UNCHANGED guard

\* prompt() and waitForIdle() come back.  After a cut nobody looks.
HostEnds(l) ==
  /\ Live(l) /\ leg[l].host = "working" /\ leg[l].cause = "none"
  /\ \E how \in {"clean", "error", "stopped", "threw"} : Becomes(l, [leg[l] EXCEPT !.host = how])
  /\ UNCHANGED guard

---------------------------------------------------------------------------
\* The race for the end is over: the finally, then the result.

HostVerdicts(x) ==
  CASE x.host = "clean" -> {"ok", "contract"}
    [] x.host = "stopped" -> {"agent"}
    [] OTHER -> {"provider", "agent"}

\* Calls nobody will end are closed, unless the leg ended well.
\* Wrong: only a cut leg has calls to close.
ClosedIfCut(x) ==
  IF x.cause = "none" THEN x.calls
  ELSE [c \in Calls |-> IF x.calls[c] = "open" THEN "ended" ELSE x.calls[c]]

ClosedCalls(x) ==
  IF x.cause = "none" /\ x.host = "clean" THEN x.calls
  ELSE [c \in Calls |-> IF x.calls[c] = "open" THEN "ended" ELSE x.calls[c]]

LegSettles(l) ==
  LET x == leg[l] IN
  /\ x.life = "running" /\ (x.cause # "none" \/ x.host # "working")
  /\ \E v \in (IF x.cause = "none" THEN HostVerdicts(x) ELSE {CutVerdict(x)}) :
       Becomes(l, [TornDown(x) EXCEPT !.verdict = v, !.calls = ClosedCalls(x)])
  /\ UNCHANGED guard

LegStep(l) ==
  \/ \E d \in Deadlines : LegTimesOut(l, d)
  \/ FactoryMakes(l) \/ FactoryFails(l) \/ BuildGivesUp(l) \/ SessionOpens(l)
  \/ LegSpeaks(l) \/ LegAsks(l) \/ LegAnswered(l) \/ MailArrives(l)
  \/ \E c \in Calls : LegCalls(l, c)
  \/ HostEnds(l) \/ LegSettles(l)
====
