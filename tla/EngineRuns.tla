---- MODULE EngineRuns ----
(***************************************************************************)
(* Delegated runs on top of the engines, as src/extension/engine.ts builds *)
(* them: every run goes through withModelFallback (src/engine/fallback.ts) *)
(* which tries another provider of the same model (src/core/models.ts)     *)
(* when, and only when, the provider failed.                               *)
(***************************************************************************)
EXTENDS InProcLegs, ChildLeg, Naturals, Sequences, SequencesExt, Functions

CONSTANTS Catalog,   \* the providers that offer the model, as the registry lists them
          Prefer,    \* the session's provider
          Allowed,   \* the providers the routing policy lets this family use
          ChildRun,  \* the run of the child engine
          Pinned,    \* the runs whose model names its provider
          Redirects, \* providers that may answer for another
          First      \* bound: the providers a run may start with

\* The routes of one model: who else offers it (src/core/models.ts, providerFallbacks).
Providers == Range(Catalog)

\* The same model elsewhere, where the policy lets it go.
OtherRoutes(from) == (Providers \cap Allowed) \ {from}

\* The first of them not tried yet, if there is one: the preferred provider, or
\* as the registry lists them.
NextRoute(from, done) ==
  LET left == OtherRoutes(from) \ done IN
  IF Prefer \in left THEN {Prefer}
  ELSE {p \in left : \E i \in DOMAIN Catalog :
          Catalog[i] = p /\ \A j \in 1..(i - 1) : Catalog[j] \notin left}

ASSUME RoutesAssumption == Catalog \in Seq(Range(Catalog))

ASSUME RunsAssumption ==
  /\ ChildRun \notin Legs /\ ToolCalls = Calls /\ Brokers \subseteq BOOLEAN
  /\ First \cup Redirects \subseteq Providers

VARIABLES
  backend,  \* the engine this session delegates to: "inproc" or "child"
  asked,    \* history: the providers each run has asked, in order
  tried,    \* fallback's tried
  over      \* the runs whose caller has its result

runVars == <<backend, asked, tried, over>>
vars == <<legVars, childVars, runVars>>

Runs == Legs \cup {ChildRun}

RunState(r) == IF r = ChildRun THEN child ELSE leg[r]

Init ==
  /\ LegsInit /\ ChildInit
  /\ backend \in {"inproc", "child"}
  /\ windows => backend = "child"
  /\ asked = [r \in Runs |-> <<>>]
  /\ tried = [r \in Runs |-> {}]
  /\ over = {}

Engine(r) == IF r = ChildRun THEN "child" ELSE "inproc"

Begins(r) ==
  /\ backend = Engine(r)
  /\ \/ r = ChildRun /\ BeginChild /\ UNCHANGED legVars
     \/ r # ChildRun /\ BeginLeg(r) /\ UNCHANGED childVars

StartRun(r) ==
  /\ RunState(r).life = "idle"
  /\ Begins(r)
  /\ \E p \in First : asked' = [asked EXCEPT ![r] = <<p>>]
  /\ UNCHANGED <<backend, tried, over>>

\* modelUsed: what was asked for, or what a child's stream named instead.
Used(r) == {Last(asked[r])} \cup (IF r = ChildRun THEN Redirects ELSE {})

\* The loop of withModelFallback, from one attempt's result to the next or to
\* the caller.  It looks at the caller's signal, not at the whole run's.
MayRetry(r) == r \notin Pinned /\ RunState(r).verdict = "provider" /\ RunState(r).signal # "call"

NowTried(r, from, next) == tried[r] \cup {from, next}

Retries(r) ==
  /\ r \notin over /\ RunState(r).life = "settled" /\ MayRetry(r)
  /\ \E from \in Used(r) :
       LET next == NextRoute(from, tried[r] \cup {from}) IN
       /\ next # {}
       /\ \E p \in next :
            /\ tried' = [tried EXCEPT ![r] = NowTried(r, from, p)]
            /\ asked' = [asked EXCEPT ![r] = Append(@, p)]
  /\ Begins(r)
  /\ UNCHANGED <<backend, over>>

Returns(r) ==
  /\ r \notin over /\ RunState(r).life = "settled"
  /\ MayRetry(r) => \E from \in Used(r) : NextRoute(from, tried[r] \cup {from}) = {}
  /\ over' = over \cup {r}
  /\ UNCHANGED <<legVars, childVars, backend, asked, tried>>

\* The caller's stop, or the whole run's.
Abort(r, s) ==
  /\ r \notin over
  /\ \/ r = ChildRun /\ backend = "child" /\ AbortChild(s) /\ UNCHANGED legVars
     \/ r # ChildRun /\ backend = "inproc" /\ AbortLeg(r, s) /\ UNCHANGED childVars
  /\ UNCHANGED runVars

Next ==
  \/ \E r \in Runs :
       \/ StartRun(r) \/ Retries(r) \/ Returns(r)
       \/ \E s \in {"call", "run"} : Abort(r, s)
  \/ \E l \in Legs : LegStep(l) /\ UNCHANGED <<childVars, runVars>>
  \/ ChildStep /\ UNCHANGED <<legVars, runVars>>

Spec == Init /\ [][Next]_vars

\* The loop of the host goes on; a broker's listener is ready or fails; a leg
\* that has gone silent runs out of its idle window, and a process that was
\* killed out of its grace.  Nothing is assumed of a session, a factory or a
\* process.
Fairness ==
  /\ \A r \in Runs : WF_vars(Retries(r) \/ Returns(r))
  /\ \A l \in Legs :
       /\ WF_vars(BuildGivesUp(l) /\ UNCHANGED <<childVars, runVars>>)
       /\ WF_vars(SessionOpens(l) /\ UNCHANGED <<childVars, runVars>>)
       /\ WF_vars(LegTimesOut(l, "idle") /\ UNCHANGED <<childVars, runVars>>)
       /\ WF_vars(LegAnswered(l) /\ UNCHANGED <<childVars, runVars>>)
       /\ WF_vars(LegSettles(l) /\ UNCHANGED <<childVars, runVars>>)
  /\ WF_vars((Prepares \/ Spawns \/ PromptFails) /\ UNCHANGED <<legVars, runVars>>)
  /\ WF_vars(ChildTimesOut("idle") /\ UNCHANGED <<legVars, runVars>>)
  /\ WF_vars(ChildAnswered /\ UNCHANGED <<legVars, runVars>>)
  /\ WF_vars(GraceEnds /\ UNCHANGED <<legVars, runVars>>)
  /\ WF_vars(LastResort /\ UNCHANGED <<legVars, runVars>>)

FairSpec == Spec /\ Fairness

---------------------------------------------------------------------------
\* What the contract says of a run: of its leg.
LifeOf(x) == IF x.life \in {"idle", "settled"} THEN x.life ELSE "running"
ShownBy(x) == {c \in Calls : x.calls[c] = "open"}

LifeView == [r \in Runs |-> LifeOf(RunState(r))]
CauseView == [r \in Runs |-> RunState(r).cause]
VerdictView == [r \in Runs |-> RunState(r).verdict]
ShownView == [r \in Runs |-> ShownBy(RunState(r))]

Contract == INSTANCE LegContract WITH
  life <- LifeView, cause <- CauseView, verdict <- VerdictView, shown <- ShownView

\* Every variable stays in its type.
RunsTypeOK ==
  /\ leg \in [Legs -> Leg] /\ child \in Child /\ windows \in BOOLEAN
  /\ depth \in Nat /\ disable \in {"user", "on"} /\ saved \in {"none", "user", "on"}
  /\ backend \in {"inproc", "child"} /\ over \subseteq Runs
  /\ asked \in [Runs -> Seq(Providers)] /\ tried \in [Runs -> SUBSET Providers]

\* inproc.ts:264: the guard stands while any session is being built, also one
\* whose leg has long settled, and the user's own value is back as soon as
\* none is.
GuardCovers ==
  disable = IF \E l \in Legs : leg[l].factory = "building" THEN "on" ELSE "user"

\* inproc.ts:463, adapter.ts:265: whatever happens to a leg, and in whatever
\* order, once it is settled it holds no handle, question, deadline, listener,
\* session or temporary file; the reader it may still hold is one it was
\* stopped too early to hand to anybody (the exit ReaderDiesWithLeg is
\* about), so that nothing reads with it; a running leg has no message
\* waiting that nobody will deliver; and a child is left behind alive only
\* after it was killed by force.
NothingStranded ==
  /\ \A l \in Legs :
       /\ leg[l].life = "settled" =>
            /\ leg[l].armed = {} /\ ~leg[l].listening /\ ~leg[l].handle
            /\ leg[l].ask # "pending" /\ leg[l].session # "live"
            /\ leg[l].grant => leg[l].factory = "none"
       /\ leg[l].life = "running" => leg[l].mail = 0 /\ leg[l].session = "live"
  /\ child.life = "settled" =>
       /\ child.armed = {} /\ ~child.listening /\ ~child.handle /\ child.ask # "pending"
       /\ ~child.grant /\ ~child.promptFile
       /\ child.root = "alive" => child.forced

\* fallback.ts:4: no provider is turned to twice (only a child's first one may
\* be, when it answered for another), a pinned run asks its own alone, and no
\* fallback is one the routing policy forbids.
RoutesRespected ==
  \A r \in Runs :
    /\ IsInjective(IF r = ChildRun /\ asked[r] # <<>> THEN Tail(asked[r]) ELSE asked[r])
    /\ r \in Pinned => Len(asked[r]) <= 1
    /\ \A i \in 2..Len(asked[r]) : asked[r][i] \in Allowed

\* Both engines keep the contract of a leg.
RunsKeepContract == Contract!ContractSpec

\* A run that was started ends, even if its session, its factory or its
\* process never does anything again.
EveryRunEnds == <>[](\A r \in Runs : asked[r] # <<>> => r \in over)

\* child.ts:277 "its own tool subprocesses (grandchildren) must die with it":
\* when a killed leg is settled, what is deaf to SIGTERM has been sent a
\* signal it cannot ignore.
KilledTreeDies ==
  child.life = "settled" /\ child.killing /\ child.kid = "deaf" => child.forced

\* inproc.ts:367 "every exit path from here on drains it, so the scoped reader
\* dies with the leg": a settled leg's reader is revoked, also where the leg
\* was cancelled before its session was built.
ReaderDiesWithLeg == \A l \in Legs : leg[l].life = "settled" => ~leg[l].grant
====
