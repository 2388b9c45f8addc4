---- MODULE StrategyRuns ----
(***************************************************************************)
(* One run of a strategy on the SDK of src/orchestration/sdk.ts: agent()   *)
(* with its slots, limits and main-model recovery, parallel() with its     *)
(* workers, and a strategy that goes from one wave of legs to the next.    *)
(***************************************************************************)
EXTENDS StrategyPrograms, Slots

CONSTANTS
  Plans,  \* the calls: what each fixes, and what its engines may answer
  None    \* no verdict yet

VARIABLES
  plan,     \* the call
  waves,    \* the legs, wave by wave
  slots,    \* agentSlots
  kids,     \* childrenSpawned
  tokens,   \* tokensSpent
  stopped,  \* the run's signal fired
  verdict   \* what the strategy returned, or the error it threw

vars == <<plan, waves, slots, kids, tokens, stopped, verdict>>

Failure == Fails("error", <<0, 0>>, {})

\* A leg waits as a thunk, then in agent() for its slot (line, granted), runs
\* its first attempt and maybe one more, and is settled; it throws (fatal)
\* when a limit is reached, and is dropped when another leg threw first.
Leg(ask) ==
  [role |-> ask.role, keep |-> ask.keep, st |-> "thunk", reply |-> "none", used |-> 0, again |-> FALSE]

Begun(asks) == [i \in DOMAIN asks |-> Leg(asks[i])]

\* What the strategy does with the waves that are done.
Takes(s) ==
  /\ waves' = IF s.act = "wave" THEN Append(waves, Begun(s.asks)) ELSE waves
  /\ verdict' = CASE s.act = "wave" -> None [] s.act = "end" -> s.verdict [] s.act = "throw" -> Failure

Init ==
  /\ plan \in Plans
  /\ waves = <<>>
  /\ slots = Fresh(plan.conc)
  /\ kids = 0 /\ tokens = 0 /\ stopped = FALSE /\ verdict = None

Now == waves[Len(waves)]
Live(i) == waves # <<>> /\ i \in DOMAIN Now
In(states) == {i \in DOMAIN Now : Now[i].st \in states}

Continue ==
  /\ verdict = None
  /\ waves # <<>> => In({"settled"}) = DOMAIN Now
  /\ \E s \in Decide(plan, waves, stopped) : Takes(s)
  /\ UNCHANGED <<plan, slots, kids, tokens, stopped>>

\* The current wave with some of its legs changed.
Become(new) == waves' = [waves EXCEPT ![Len(waves)] = [i \in DOMAIN Now |-> new[i]]]
With(i, leg) == [Now EXCEPT ![i] = leg]
Settled(leg, reply, used) == [leg EXCEPT !.st = "settled", !.reply = reply, !.used = used]

\* parallel() pulls a thunk as long as fewer than its limit are out; a caller
\* of agent() without parallel() starts all its legs at once.
Limit == IF plan.name = "custom" THEN Len(Now) ELSE plan.conc
Out == {"line", "granted", "first", "retry"}

Pulls(i) ==
  /\ verdict = None /\ Live(i)
  /\ Now[i].st = "thunk" /\ \A j \in In({"thunk"}) : i <= j
  /\ Cardinality(In(Out)) < Limit
  /\ LET denied == Now[i].role \in plan.denied
         turned(reply) == Become(With(i, Settled(Now[i], reply, 0))) /\ UNCHANGED slots
         goes(st) == Become(With(i, [Now[i] EXCEPT !.st = st]))
     IN  CASE denied -> turned("denied")
           [] ~denied /\ stopped -> turned("abort")
           [] ~denied /\ ~stopped /\ slots.free > 0 -> goes("granted") /\ slots' = Taken(slots)
           [] OTHER -> goes("line") /\ slots' = Queued(slots, i)
  /\ UNCHANGED <<plan, kids, tokens, stopped, verdict>>

\* A leg leaves its slot to the next in line.
Leaves(i, leg) ==
  /\ slots' = Returned(slots)
  /\ Become([j \in DOMAIN Now |->
       CASE j = i -> leg
         [] j # i /\ j \in Heir(slots) -> [Now[j] EXCEPT !.st = "granted"]
         [] OTHER -> Now[j]])

Spent == kids >= plan.max \/ (plan.budget > 0 /\ tokens >= plan.budget)

Resumes(i) ==
  /\ Live(i) /\ Now[i].st = "granted"
  /\ \/ /\ stopped
        /\ Leaves(i, Settled(Now[i], "abort", 0))
        /\ UNCHANGED <<kids, verdict>>
     \/ /\ ~stopped /\ Spent
        /\ slots' = Returned(slots)
        /\ Become([j \in DOMAIN Now |->
             CASE j = i -> [Now[j] EXCEPT !.st = "fatal"]
               [] j # i /\ j \in Heir(slots) -> [Now[j] EXCEPT !.st = "granted"]
               [] j # i /\ Now[j].st = "thunk" -> [Now[j] EXCEPT !.st = "dropped"]
               [] OTHER -> Now[j]])
        /\ verdict' = IF verdict = None THEN Failure ELSE verdict
        /\ UNCHANGED kids
     \/ /\ ~stopped /\ ~Spent
        /\ kids' = kids + 1
        /\ \/ Become(With(i, [Now[i] EXCEPT !.st = "first"])) /\ UNCHANGED slots
           \/ Leaves(i, Settled(Now[i], "abort", 0))   \* stopped as it was announced
        /\ UNCHANGED verdict
  /\ UNCHANGED <<plan, tokens, stopped>>

\* An attempt that threw reports nothing; a stopped one what it had used.
Costs(reply) == CASE reply = "broken" -> {0} [] reply = "abort" -> {0, 1} [] OTHER -> {1}

\* Only a model's failure is worth another model, and only if the legs that
\* are still to come can be paid for: those the strategy keeps children for,
\* the thunks, and the legs that wait for a slot.
\* Wrong: what is still to come is not counted.
KeptOnly(i) == kids + Now[i].keep < plan.max
Affords(i) == kids + Now[i].keep + Cardinality(In({"thunk", "line", "granted"})) < plan.max

\* planModelRecovery: the model failed, and the session's own is another one.
Replans(reply) == reply = "provider" /\ plan.alt

\* Wrong: the recovery does not look at the run's signal.
RecoversAnyway(i, reply, halted) ==
  /\ Replans(reply) /\ ~halted
  /\ Affords(i) /\ (plan.budget = 0 \/ tokens' < plan.budget)
Recovers(i, reply, halted) ==
  /\ Replans(reply) /\ ~stopped /\ ~halted
  /\ Affords(i) /\ (plan.budget = 0 \/ tokens' < plan.budget)

\* halted: the operator stopped this leg alone.  Stopped in the very
\* notification of the recovery, it is aborted with its first bill.
FirstEnds(i, halted) ==
  /\ Live(i) /\ Now[i].st = "first"
  /\ \E reply \in plan.says[Now[i].role] \cup {"abort"} : \E cost \in Costs(reply) :
       /\ reply = "abort" => stopped \/ halted
       /\ tokens' = tokens + cost
       /\ IF Recovers(i, reply, halted)
          THEN \/ /\ Become(With(i, [Now[i] EXCEPT !.st = "retry", !.used = cost]))
                  /\ kids' = kids + 1 /\ UNCHANGED slots
               \/ Leaves(i, Settled(Now[i], "abort", cost)) /\ UNCHANGED kids
          ELSE Leaves(i, Settled(Now[i], reply, cost)) /\ UNCHANGED kids
  /\ UNCHANGED <<plan, stopped, verdict>>

\* The second attempt is the leg's answer; both are on its bill.
\* Wrong: the bill is the last attempt's.
LastBill(leg, cost) == cost
Bill(leg, cost) == leg.used + cost

RetryEnds(i, halted) ==
  /\ Live(i) /\ Now[i].st = "retry"
  /\ \E reply \in plan.says[Now[i].role] \cup {"abort"} : \E cost \in Costs(reply) :
       /\ reply = "abort" => stopped \/ halted
       /\ tokens' = tokens + cost
       /\ Leaves(i, [Settled(Now[i], reply, Bill(Now[i], cost)) EXCEPT !.again = TRUE])
  /\ UNCHANGED <<plan, kids, stopped, verdict>>

\* The operator stops the run: whoever waits in line is out of it at once.
StopRun ==
  /\ ~stopped /\ verdict = None
  /\ stopped' = TRUE
  /\ IF waves = <<>> THEN UNCHANGED <<waves, slots>>
     ELSE /\ slots' = Emptied(slots)
          /\ Become([i \in DOMAIN Now |->
               IF Now[i].st = "line" THEN Settled(Now[i], "abort", 0) ELSE Now[i]])
  /\ UNCHANGED <<plan, kids, tokens, verdict>>

Most == Max({p.n : p \in Plans} \cup {p.items : p \in Plans} \cup {2})

LegStep(i) == Pulls(i) \/ Resumes(i) \/ \E halted \in BOOLEAN : FirstEnds(i, halted) \/ RetryEnds(i, halted)

Next == Continue \/ StopRun \/ \E i \in 1..Most : LegStep(i)

Spec == Init /\ [][Next]_vars

\* Promises settle, and an engine run always ends (EveryRunEnds of EngineRuns).
Fairness == WF_vars(Continue) /\ \A i \in 1..Most : WF_vars(LegStep(i))

FairSpec == Spec /\ Fairness

---------------------------------------------------------------------------
Concluded == verdict # None /\ verdict # Failure

\* The legs a plan cannot do without, in its longest course.
Needs(p) ==
  CASE p.name \in {"fanout", "custom", "pipeline", "debate", "magi"} -> p.n
    [] p.name = "pair" -> 2
    [] p.name = "critic-loop" -> 2 * p.rounds
    [] p.name = "council-rounds" -> p.rounds * p.n
    [] p.name \in {"judge", "compete", "synthesize"} -> p.n + 1
    [] p.name = "map" -> IF p.verify THEN 3 ELSE 2

\* sdk.ts:277 "Optional recovery must not spend slots already needed by queued
\* logical legs or thunks", and the clamps of map and magi: a plan that fits
\* its child limit never runs into it, whatever fails and is tried again.
PlannedLegsFit ==
  (plan.budget = 0 /\ Needs(plan) <= plan.max /\ waves # <<>>) => In({"fatal"}) = {}

\* Each strategy's bill names every token its engines reported, once.
BillIsExact ==
  Concluded =>
    tokens = MapThenSumSet(LAMBDA at : waves[at[1]][at[2]].used, verdict.billed)

Answer == waves[verdict.from[1]][verdict.from[2]]
VoteOf(i) == (IF plan.name = "magi" /\ Len(waves) = 2 /\ Keeps(waves, i) THEN waves[1] ELSE Now)[i].reply
Share(v) == Quantify(DOMAIN Now, LAMBDA i : VoteOf(i) = v)

\* A verdict that says "ok" has the answers it needs: a winner answered, and
\* unless it is a disclosed fallback it has the votes; an approved draft is the
\* very draft the critic read; an arbiter picked an entry; no step of a chain
\* and no leg of a panel that must be whole failed.
Earned ==
  CASE plan.name \in {"fanout", "custom", "pipeline"} ->
         \A at \in LegsOf(waves) : waves[at[1]][at[2]].reply \in Good
    [] plan.name = "map" -> \A i \in DOMAIN waves[2] : IsOk(waves, 2, i)
    [] plan.name \in {"pair", "synthesize"} -> Answer.reply \in Good
    [] plan.name = "critic-loop" ->
         Now[1].reply = "yes" /\ verdict.from = <<Len(waves) - 1, 1>> /\ Answer.reply \in Good
    [] plan.name \in {"judge", "compete"} ->
         Now[1].reply = "yes" /\ verdict.from \in {1} \X (IF plan.name = "judge" THEN Texts(waves) ELSE Diffs(waves))
    [] OTHER ->
         /\ Answer.reply \in Good \cup {"contract"}
         /\ verdict.by = "winner" =>
              IF plan.unanimous THEN \A v \in Votes \ {Answer.reply} : Share(v) = 0
              ELSE /\ \A v \in Votes \ {Answer.reply} : Share(v) < Share(Answer.reply)
                   /\ plan.name # "magi" => Share(Answer.reply) >= BestOf(plan.bestOf, plan.n)

VerdictEarned == Concluded /\ verdict.ok => Earned

\* What the caller is told: the bill is exact, and an "ok" is earned.
VerdictIsTrue == BillIsExact /\ VerdictEarned

\* A stop is final: no engine is started after it, and no strategy that
\* deliberates reports a ruling.
Deliberates == {"critic-loop", "debate", "council-rounds", "magi"}
StopIsFinal ==
  [][stopped => /\ kids' = kids
                /\ verdict' # verdict /\ plan.name \in Deliberates => ~verdict'.ok]_vars

\* Every run concludes, and every slot comes back.
RunConcluded == verdict # None /\ slots = Fresh(plan.conc)
EveryRunConcludes == <>[]RunConcluded
====
