---- MODULE Orchestration ----
(***************************************************************************)
(* What a supervisor sets to work and hears of it, one part at a time: a   *)
(* council (StrategyRuns) or a flow (Flows), the inputs its persona        *)
(* orchestrates and the restarts of its session (Turns), its tool calls    *)
(* and its screen (CallRecords), its background runs (Delegations), the    *)
(* checkouts legs work in (Checkouts), its persona (Personas).  It is a    *)
(* behaviour of one part; the others stay in a state of rest.              *)
(***************************************************************************)
EXTENDS Integers, Sequences, FiniteSets

CONSTANTS
  Plans, None, Specs, MaxRuns, MaxAttempts, MaxCrashes,
  Inputs, MaxDeferred, MaxTurns, MaxIssued, MaxRestarts, MaxRefusals,
  Scripts, Peers, Sample, MaxWarnings, MaxRelays, RunLength, BurnFloor, Fat, Backoff, MaxSettles, Rosters, Steerable,
  Books, PoolSize, MaxChildren, MaxFailures, Quiet,
  Jobs, MaxReported,
  Scenes, Keys

\* A flow has phases that need one another without a cycle, and checkpoints after some of them
\* (validateFlow, topoSort); "torn" names no phase.
ASSUME FlowsAreGraphs ==
  \A s \in Specs :
    /\ IsFiniteSet(s.phases) /\ "torn" \notin s.phases
    /\ s.needs \in [s.phases -> SUBSET s.phases]
    /\ \E rank \in [s.phases -> 1..Cardinality(s.phases)] :
         \A p \in s.phases : \A n \in s.needs[p] : rank[n] < rank[p]

\* The calls of a session: how many legs each has, what they are for; any run but a
\* delegation is one leg, and no fresh verifier.
ASSUME BooksAreCalls ==
  /\ PoolSize \in Nat /\ MaxChildren \in Nat
  /\ \A b \in Books : IsFiniteSet(DOMAIN b.calls) /\ \A c \in DOMAIN b.calls :
       LET call_ == b.calls[c] IN
       /\ call_.conc \in Nat /\ Len(call_.legs) \in Nat /\ DOMAIN call_.legs = 1..Len(call_.legs)
       /\ \A n \in 1..Len(call_.legs) : call_.legs[n].role \in {"reader", "writer", "verifier"}
       /\ call_.kind # "delegate" => Len(call_.legs) = 1 /\ call_.legs[1].role # "verifier"

\* The legs of a job, the files of its repository (paths have an order), some of them tracked.
ASSUME JobsAreLegs ==
  /\ MaxReported \in Nat
  /\ \A j \in Jobs : IsFiniteSet(j.files) /\ j.files \subseteq Int /\ j.tracked \subseteq j.files

\* The personas of a session have names, of which a reload keeps some; the participants a
\* setup asks about are different ones.
ASSUME ScenesAreTyped ==
  \A s \in Scenes :
    /\ None \notin DOMAIN s.defs /\ DOMAIN s.edited \subseteq DOMAIN s.defs /\ Len(s.cycle) \in Nat /\ DOMAIN s.cycle = 1..Len(s.cycle)
    /\ \A defs \in {s.defs, s.edited} : \A n \in DOMAIN defs :
         /\ defs[n] = [model |-> defs[n].model, thinking |-> defs[n].thinking, tools |-> defs[n].tools]
         /\ defs[n].tools \in BOOLEAN
    /\ \A what \in {"gestures", "refusals", "choices", "faults"} : s.budget[what] \in Nat
    /\ \A r \in DOMAIN s.setups :
         LET setup == s.setups[r] IN
         /\ setup.kind \in {"auto", "edit", "draft"} /\ Len(setup.keys) \in Nat /\ DOMAIN setup.keys = 1..Len(setup.keys)
         /\ \A i, j \in DOMAIN setup.keys : setup.keys[i] \in Keys /\ (setup.keys[i] = setup.keys[j] => i = j)

\* A call names a strategy; a roster has a size, a run its limits, a deliberation at least
\* a round (positiveInteger); the engines give the answers of StrategyPrograms.
ASSUME PlansAreCounted ==
  \A p \in Plans :
    /\ p.name \in {"fanout", "custom", "pair", "pipeline", "critic-loop", "debate", "council-rounds", "magi",
                   "judge", "compete", "synthesize", "map"}
    /\ p.n \in Nat /\ p.max \in Nat /\ p.items \in Nat /\ p.bestOf \in Nat /\ p.rounds \in Nat \ {0}
    /\ p.says \in [{"worker", "voter", "critic", "arbiter", "splitter"} ->
                    SUBSET {"yes", "no", "prose", "blank", "contract", "denied", "provider", "broken", "abort"}]

VARIABLES
  part,     \* the part that lives
  plan, waves, slots, kids, tokens, stopped, verdict,      \* StrategyRuns
  spec, ui, journal, archived, life, done, gate, wave, got, aborted, late, count, seen, paid,  \* Flows
  host, prompt, work, orchestrating, processing, deferred, pending, lot, order, told,  \* Turns
  issued, restored, unreported, armed, entry, notice, record, tally,
  script, call, inTurn, open, launching, ends, mail, truth, world, warned, warnings,  \* CallRecords
  relays, marked, noted, nudge, since, settles, screen, visible,
  book, called, stage, status, signal, pool, lanes, strikes, tree, timer, closed,  \* Delegations
  guard, reported, looks, clock, quiet, waits, alarm, story, past,
  job, repo, at, copy, shot, out, left,  \* Checkouts
  scene, shelf, session, active, ctl, flights, remembered, owner, own, mixed,  \* Personas
  models, prompted, queue, picks, filed, asks, budget

S == INSTANCE StrategyRuns
F == INSTANCE Flows
T == INSTANCE Turns
R == INSTANCE CallRecords
D == INSTANCE Delegations WITH told <- reported
C == INSTANCE Checkouts
P == INSTANCE Personas

councilVars == <<plan, waves, slots, kids, tokens, stopped, verdict>>
flowVars == <<spec, ui, journal, archived, life, done, gate, wave, got, aborted, late, count, seen, paid>>
turnVars ==
  <<host, prompt, work, orchestrating, processing, deferred, pending, lot, order, told,
    issued, restored, unreported, armed, entry, notice, record, tally>>
callVars ==
  <<script, call, inTurn, open, launching, ends, mail, truth, world, warned, warnings,
    relays, marked, noted, nudge, since, settles>>
runVars ==
  <<book, called, stage, status, signal, pool, lanes, strikes, tree, timer, closed, guard, reported, looks,
    clock, quiet, waits, alarm, story, past>>
checkoutVars == <<job, repo, at, copy, shot, out, left>>
personaVars ==
  <<scene, shelf, session, active, ctl, flights, remembered, owner, own, mixed,
    models, prompted, queue, picks, filed, asks, budget>>
rowVars == <<screen, visible>>
restVars == <<checkoutVars, personaVars, rowVars>>
vars == <<part, councilVars, flowVars, turnVars, callVars, runVars, restVars>>

NoCouncil ==
  /\ plan = CHOOSE p \in Plans : TRUE
  /\ waves = <<>> /\ slots = S!Fresh(plan.conc)
  /\ kids = 0 /\ tokens = 0 /\ stopped = FALSE /\ verdict = S!Failure

NoFlow ==
  /\ spec = CHOOSE s \in Specs : TRUE
  /\ ui = FALSE /\ journal = <<>> /\ archived = {}
  /\ life = "over" /\ done = [p \in spec.phases |-> F!NotRun] /\ gate = [p \in spec.phases |-> "open"]
  /\ wave = {} /\ got = <<>> /\ aborted = FALSE /\ late = {}
  /\ count = [runs |-> MaxRuns, attempts |-> 0, crashes |-> 0, stale |-> 0]
  /\ seen = {} /\ paid = {}

\* The host is gone, no turn is left, the session is shut down.
NoTurns == T!TurnsStart("gone")
NoCalls == R!RecordsStart(CHOOSE s \in Scripts : TRUE, MaxSettles)
NoDelegations == D!DelegationsStart(CHOOSE b \in Books : TRUE, TRUE)
NoCheckouts == C!CheckoutsStart(CHOOSE j \in Jobs : TRUE, "over")
NoPersona == P!PersonasStart(CHOOSE s \in Scenes : TRUE, "down")
NoRows == R!RowsStart(TRUE)
AtRest == NoCheckouts /\ NoPersona /\ NoRows

Init ==
  \/ part = "council" /\ S!Init /\ NoFlow /\ NoTurns /\ NoCalls /\ NoDelegations /\ AtRest
  \/ part = "flow" /\ F!Init /\ NoCouncil /\ NoTurns /\ NoCalls /\ NoDelegations /\ AtRest
  \/ part = "turns" /\ T!TurnsInit /\ NoCouncil /\ NoFlow /\ NoCalls /\ NoDelegations /\ AtRest
  \/ part = "calls" /\ R!RecordsInit /\ NoCouncil /\ NoFlow /\ NoTurns /\ NoDelegations /\ AtRest
  \/ part = "runs" /\ D!DelegationsInit /\ NoCouncil /\ NoFlow /\ NoTurns /\ NoCalls /\ AtRest
  \/ part = "checkouts" /\ C!CheckoutsInit /\ NoCouncil /\ NoFlow /\ NoTurns /\ NoCalls /\ NoDelegations /\ NoPersona /\ NoRows
  \/ part = "persona" /\ P!PersonasInit /\ NoCouncil /\ NoFlow /\ NoTurns /\ NoCalls /\ NoDelegations /\ NoCheckouts /\ NoRows
  \/ part = "rows" /\ R!RowsInit /\ NoCouncil /\ NoFlow /\ NoTurns /\ NoCalls /\ NoDelegations /\ NoCheckouts /\ NoPersona

InCouncil(A) == part = "council" /\ A /\ UNCHANGED <<part, flowVars, turnVars, callVars, runVars, restVars>>
InFlow(A) == part = "flow" /\ A /\ UNCHANGED <<part, councilVars, turnVars, callVars, runVars, restVars>>
InTurns(A) == part = "turns" /\ A /\ UNCHANGED <<part, councilVars, flowVars, callVars, runVars, restVars>>
InCalls(A) == part = "calls" /\ A /\ UNCHANGED <<part, councilVars, flowVars, turnVars, runVars, restVars>>
InRuns(A) == part = "runs" /\ A /\ UNCHANGED <<part, councilVars, flowVars, turnVars, callVars, restVars>>
others == <<part, councilVars, flowVars, turnVars, callVars, runVars>>
InCheckouts(A) == part = "checkouts" /\ A /\ UNCHANGED <<others, personaVars, rowVars>>
InPersona(A) == part = "persona" /\ A /\ UNCHANGED <<others, checkoutVars, rowVars>>
InRows(A) == part = "rows" /\ A /\ UNCHANGED <<others, checkoutVars, personaVars>>

Next ==
  \/ InCouncil(S!Next) \/ InFlow(F!Next) \/ InTurns(T!TurnsNext) \/ InCalls(R!RecordsNext)
  \/ InRuns(D!DelegationsNext) \/ InCheckouts(C!CheckoutsNext) \/ InPersona(P!PersonasNext) \/ InRows(R!RowsNext)

Spec == Init /\ [][Next]_vars

\* The fairness of each part (Fairness of StrategyRuns and Flows, TurnsFairness,
\* DelegationsFairness); one part lives, so an action of one shares a condition with
\* an action of another.
FairSpec ==
  /\ Spec
  /\ WF_vars(InCouncil(S!Continue) \/ InFlow(F!Pass) \/ InTurns(T!Moves) \/ InRuns(D!Moves) \/ InCheckouts(C!Moves))
  /\ \A i \in 1..S!Most :
       WF_<<councilVars, flowVars>>(InCouncil(S!LegStep(i)) \/ (i = 1 /\ InFlow(F!WaveEnds)) \/ (i = 2 /\ InFlow(F!GraceEnds)))
  /\ WF_flowVars(InFlow(F!GatesDone))
  /\ WF_flowVars(InFlow(aborted /\ F!Decides(FALSE)))

---------------------------------------------------------------------------
\* sdk.ts:277: optional recovery never takes a child a planned leg needs; parallel.ts:60,
\* delegate-tool.ts:630: the slots of a call and of the pool are kept, a verifier and parallel
\* writers are not worked against, and what failed twice is vetoed; worktree.ts:147, extension.ts:1617:
\* no checkout stays listed without its directory, no model is asked for twice or filed elsewhere.
LimitsHold ==
  /\ part = "council" => S!PlannedLegsFit
  /\ part = "runs" => D!SlotsAreKept /\ D!WorkIsApart /\ D!StrikesAreFair
  /\ part = "checkouts" => C!NoGhosts
  /\ part = "persona" => P!PicksAreKept

\* reducers.ts:41, flow-run.ts:101: a verdict bills what its engines reported, each once,
\* and says "ok" only with the answers its strategy asks for; a flow without a late
\* success says "declined" for a declined checkpoint and nothing else; engine.ts:239: an isolated leg hands over what it
\* made, and a report what changed; controller.ts:6: a persona gives back what it overrode.
OutcomesAreTrue ==
  /\ part = "council" => S!VerdictIsTrue
  /\ part = "flow" /\ F!NoLateSuccess => F!OutcomeIsTrue
  /\ part = "checkouts" => C!ArtifactsAreTrue /\ C!ReportsAreTrue
  /\ part = "persona" => P!SettingsAreRestored

\* hooks.ts:941, hooks.ts:363, async.ts:561: rulings, losses, ends of calls, reminders, rows
\* and stalls reach the turn, the record or the operator they are for, and once;
\* memory-owner.ts:31: companions hear of the persona in force; extension.ts:732: the screen and its handles match the runs.
SupervisorIsTold ==
  /\ part = "turns" => T!RulingsAreTold /\ T!LossesAreTold
  /\ part = "calls" => R!CallsAreRecorded /\ R!NotesAreFair
  /\ part = "runs" => D!RowsAreTrue /\ D!StallsAreToldOnce /\ D!ChecksAreFair /\ D!LiveRunsAreWatched
  /\ part = "persona" => P!OwnerIsTrue
  /\ part = "rows" => R!ScreenIsTrue

\* critic-loop.ts:110 "STOP wins even when the leg happens to settle".
StopIsFinal == S!StopIsFinal

\* extension.ts:2127: only what the operator approved releases dependents.
WorksOnApproved == F!WorksOnApproved

\* So it is, also over stops, crashes and attempts that outlive their run, until
\* such an attempt succeeds.
ApprovedUnlessLate == F!NoLateSuccess => F!WorksOnApproved

\* flow-run.ts:305: what a resume can read is not paid for again, until then.
PaidOnce == F!PaidOnce

\* parallel.ts:103, flow-run.ts:107, hooks.ts:349, delegate-tool.ts:372: every strategy
\* concludes and every slot comes back; a stop ends a flow whatever its phases do; an input
\* that was accepted gets its ruling; every background run settles; every leg ends and
\* its checkout with it.
RunsEnd ==
  <>[](S!RunConcluded /\ F!StopHeeded /\ T!RulingsGiven /\ D!NoneLives /\ C!AllOver)
====
