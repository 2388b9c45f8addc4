---- MODULE StrategyPrograms ----
(***************************************************************************)
(* The built-in strategies of src/orchestration/strategies, each as the    *)
(* function it is: from the waves of legs that have settled, and whether   *)
(* the run is stopped, to what it does next - another wave, its verdict or *)
(* an error.  A single sdk.agent call is a wave of one leg.                *)
(*                                                                         *)
(* A settled leg is read through its reply (an answer), used               *)
(* (the tokens it reported) and again (modelRecovery: it was run a second  *)
(* time).  A plan p is what a call fixes: the strategy's name, the size n  *)
(* of the roster, its parameters, and the limits of the run.               *)
(***************************************************************************)
EXTENDS FiniteSetsExt, Integers, Sequences, SequencesExt

---------------------------------------------------------------------------
\* Answers and reducers (voting.ts, judge.ts and reducers.ts of src/orchestration).
\* An answer is one of: "yes" and "no" (a successful answer that carries a vote),
\* "prose" and "blank" (successful, without one), "contract" (an answer in prose where
\* a vote was due: it failed, but it can be read), "denied" (the persona may not spawn
\* that agent), "provider" (the model failed), "broken" (the engine call threw) and "abort".
Votes == {"yes", "no"}
Good == Votes \cup {"prose", "blank"}
Bad == {"contract", "denied", "provider", "broken", "abort"}
Answers == Good \cup Bad

\* The failureKind of a failed answer.
KindOf(a) == CASE a = "denied" -> "contract" [] a = "broken" -> "agent" [] OTHER -> a

\* summarizeFailedResults: a stop wins, one common cause survives, anything
\* else is the caller's.
Cause(answers, otherwise) ==
  LET all == {answers[i] : i \in DOMAIN answers}
      kinds == {KindOf(a) : a \in all}
  IN  CASE "abort" \in all -> "abort"
        [] "abort" \notin all /\ all # {} /\ all \subseteq Bad /\ Cardinality(kinds) = 1 ->
             CHOOSE k \in kinds : TRUE
        [] OTHER -> otherwise

\* A strategy's ballot is a sequence of answers.
Voters(b) == {i \in DOMAIN b : b[i] \in Votes}
Tally(b, v) == Quantify(DOMAIN b, LAMBDA i : b[i] = v)
Cast(b) == {b[i] : i \in Voters(b)}
Leading(b) == {v \in Cast(b) : \A w \in Cast(b) : Tally(b, w) <= Tally(b, v)}

\* When nobody voted, what can still be read is not thrown away.
Readable(b) == {i \in DOMAIN b : b[i] \in {"prose", "contract"}}

Ruling(status, w, d, fell) == [status |-> status, winner |-> w, dissent |-> d, fell |-> fell]

\* The best by confidence, which is the answer's own claim: it may be any.
FallBack(status, from, keep) ==
  IF keep /\ from # {} THEN {Ruling(status, w, from \ {w}, TRUE) : w \in from}
                       ELSE {Ruling(status, 0, {}, FALSE)}

First(b, v) == Min({i \in DOMAIN b : b[i] = v})

Wins(b, v) == {Ruling("winner", First(b, v), {i \in Voters(b) : b[i] # v}, FALSE)}

\* Wrong: a plurality wins however few votes it has.
AnyPlurality(b, unanimous, atLeast, keep) ==
  CASE Voters(b) = {} -> FallBack("invalid_outputs", Readable(b), keep)
    [] Voters(b) # {} /\ Cardinality(Leading(b)) = 1 -> Wins(b, CHOOSE v \in Leading(b) : TRUE)
    [] OTHER -> FallBack("tie", Voters(b), keep)

\* voteReduce; atLeast = 0 stands for no threshold.
Vote(b, unanimous, atLeast, keep) ==
  LET lead == CHOOSE v \in Leading(b) : TRUE IN
  CASE Voters(b) = {} -> FallBack("invalid_outputs", Readable(b), keep)
    [] unanimous /\ Voters(b) # {} ->
         IF Cardinality(Cast(b)) = 1 THEN Wins(b, lead) ELSE FallBack("no_consensus", Voters(b), keep)
    [] ~unanimous /\ Cardinality(Leading(b)) = 1 ->
         IF Tally(b, lead) < atLeast THEN FallBack("no_consensus", Voters(b), keep) ELSE Wins(b, lead)
    [] OTHER -> FallBack("tie", Voters(b), keep)

\* clampBestOf: 0 is a junk or missing value, which means the majority.
BestOf(asked, n) == Min({IF asked = 0 THEN n \div 2 + 1 ELSE asked, Max({1, n})})

\* prepareJudge and ballotLabel: an arbiter that names one letter on the
\* shuffled ballot picks one of the candidates; any other vote picks nothing.
Picks(answer, candidates) == IF answer = "yes" THEN candidates ELSE {0}

---------------------------------------------------------------------------
\* The strategies.

Ask(role, keep) == [role |-> role, keep |-> keep]
Crew(n, role, keep) == [i \in 1..n |-> Ask(role, keep)]

Opens(asks) == {[act |-> "wave", asks |-> asks]}
Ends(v) == {[act |-> "end", verdict |-> v]}
Throws == {[act |-> "throw"]}

LegsOf(w) == UNION {{<<k, i>> : i \in DOMAIN w[k]} : k \in DOMAIN w}
Replies(w, k) == [i \in DOMAIN w[k] |-> w[k][i].reply]
IsOk(w, k, i) == w[k][i].reply \in Good
OkLegs(w, k) == {i \in DOMAIN w[k] : IsOk(w, k, i)}

\* from: the leg whose answer is the deliverable, or <<0, 0>>.  billed: the
\* legs whose usage the verdict sums.  by: the ballot's status, if there was one.
Verdict(ok, cause, from, billed) ==
  [ok |-> ok, cause |-> cause, from |-> from, billed |-> billed, by |-> "work"]
Succeeds(from, billed) == Verdict(TRUE, "none", from, billed)
Fails(cause, from, billed) == Verdict(FALSE, cause, from, billed)
Cancels(from, billed) == Fails("abort", from, billed)
OrElse(leg, ok, cause, billed) == Verdict(ok, IF ok THEN "none" ELSE cause, leg, billed)

\* fanout (and a strategy of one's own that calls agent() by itself).
Fanout(p, w) ==
  CASE p.n = 0 -> Throws
    [] p.n > 0 /\ w = <<>> -> Opens(Crew(p.n, "worker", 0))
    [] OTHER ->
         Ends(OrElse(<<1, 1>>, OkLegs(w, 1) = 1..p.n, Cause(Replies(w, 1), "agent"), LegsOf(w)))

Pair(p, w) ==
  CASE p.n < 2 -> Throws
    [] p.n >= 2 /\ w = <<>> -> Opens(Crew(2, "worker", 0))
    [] OTHER ->
         Ends(OrElse(<<1, 1>>, IsOk(w, 1, 1), Cause(<<w[1][1].reply>>, "contract"), LegsOf(w)))

\* A chain is one leg per wave; it breaks at the step that fails, and keeps
\* what the steps before it made.
Upstream(w) == IF Len(w) > 1 THEN <<Len(w) - 1, 1>> ELSE <<0, 0>>
Pipeline(p, w, stopped) ==
  LET k == Len(w) IN
  CASE p.n = 0 -> Throws
    [] p.n > 0 /\ k > 0 /\ OkLegs(w, k) = {} ->
         Ends(Fails(KindOf(w[k][1].reply), Upstream(w), LegsOf(w)))
    [] p.n > 0 /\ k > 0 /\ OkLegs(w, k) # {} /\ k = p.n -> Ends(Succeeds(<<k, 1>>, LegsOf(w)))
    [] p.n > 0 /\ (k > 0 => OkLegs(w, k) # {}) /\ k < p.n /\ stopped ->
         Ends(Cancels(<<k, IF k = 0 THEN 0 ELSE 1>>, LegsOf(w)))
    [] OTHER -> Opens(Crew(1, "worker", p.n - k - 1))

\* Draft, then critique and revision in turn: an even wave is a critique.
Draft(w) == Max({k \in DOMAIN w : k % 2 = 1 /\ OkLegs(w, k) # {}} \cup {0})
Drafted(w) == <<Draft(w), IF Draft(w) = 0 THEN 0 ELSE 1>>
\* A revision that a stop overtook does not replace the draft under review.
Reviewed(w) == IF Len(w) % 2 = 1 /\ Len(w) > 1 THEN Drafted(Front(w)) ELSE Drafted(w)
CriticLoop(p, w, stopped) ==
  LET k == Len(w)
      round == k \div 2
      reply == w[k][1].reply
      cancel == Ends(Cancels(Reviewed(w), LegsOf(w)))
      critique == Opens(Crew(1, "critic", 2 * (p.rounds - round - 1)))
      revision == Opens(Crew(1, "worker", Max({0, 2 * (p.rounds - round) - 1})))
      afterDraft ==
        CASE reply = "abort" -> cancel
          [] reply \notin Good /\ reply # "abort" ->
               IF k > 1 /\ stopped THEN cancel
                                   ELSE Ends(Fails(KindOf(reply), Drafted(w), LegsOf(w)))
          [] OTHER -> IF stopped THEN cancel ELSE critique
      afterCritique ==
        CASE stopped \/ reply = "abort" -> cancel
          [] ~stopped /\ reply \in Bad \ {"abort"} -> Ends(Fails(KindOf(reply), Drafted(w), LegsOf(w)))
          [] ~stopped /\ reply = "yes" -> Ends(Succeeds(Drafted(w), LegsOf(w)))
          [] ~stopped /\ reply \in {"prose", "blank"} -> Ends(Fails("contract", Drafted(w), LegsOf(w)))
          [] OTHER -> IF round >= p.rounds THEN Ends(Fails("agent", Drafted(w), LegsOf(w))) ELSE revision
  IN  CASE k = 0 -> IF stopped THEN cancel ELSE Opens(Crew(1, "worker", 2 * p.rounds - 1))
        [] k % 2 = 1 -> afterDraft
        [] OTHER -> afterCritique

\* The verdicts a ballot may lead to; the winner's answer is the deliverable.
Rules(p, b, at, atLeast, keep, billed) ==
  UNION {Ends([OrElse(<<IF r.winner = 0 THEN 0 ELSE at[r.winner], r.winner>>, r.winner # 0,
                      Cause(b, "contract"), billed) EXCEPT !.by = r.status]) :
           r \in Vote(b, p.unanimous, atLeast, keep)}

AllAborted(w, k) == \A i \in DOMAIN w[k] : w[k][i].reply = "abort"
Same(p, k) == [i \in 1..p.n |-> k]

Debate(p, w, stopped) ==
  CASE p.n < 2 -> Throws
    [] p.n >= 2 /\ (stopped \/ (w # <<>> /\ AllAborted(w, 1))) -> Ends(Cancels(<<0, 0>>, LegsOf(w)))
    [] p.n >= 2 /\ ~stopped /\ w = <<>> -> Opens(Crew(p.n, "voter", 0))
    [] OTHER -> Rules(p, Replies(w, 1), Same(p, 1), BestOf(p.bestOf, p.n), TRUE, LegsOf(w))

Council(p, w, stopped) ==
  LET k == Len(w)
      last == k = p.rounds
      open == Opens(Crew(p.n, "voter", (p.rounds - k - 1) * p.n))
      won == \E r \in Vote(Replies(w, k), p.unanimous, BestOf(p.bestOf, p.n), last) : r.status = "winner"
  IN  CASE p.n = 0 -> Throws
        [] p.n > 0 /\ (stopped \/ (k > 0 /\ AllAborted(w, k))) -> Ends(Cancels(<<0, 0>>, LegsOf(w)))
        [] p.n > 0 /\ ~stopped /\ k = 0 -> open
        [] p.n > 0 /\ ~stopped /\ k > 0 /\ ~AllAborted(w, k) /\ (won \/ last) ->
             Rules(p, Replies(w, k), Same(p, k), BestOf(p.bestOf, p.n), last, LegsOf(w))
        [] OTHER -> open

\* magi reflects only when two cores answered and the whole panel can be paid
\* for once more.
Tokens(wave) == FoldSeq(LAMBDA leg, sum : leg.used + sum, 0, wave)
Reflects(p, w) ==
  LET rescues == Quantify(DOMAIN w[1], LAMBDA i : w[1][i].again) IN
  /\ p.reflect /\ Cardinality(OkLegs(w, 1)) >= 2
  /\ p.budget = 0 \/ Tokens(w[1]) + p.n <= p.budget
  /\ p.n + rescues + p.n <= p.max

\* A reflection that failed leaves the vote its core had already cast; one
\* that was stopped leaves nothing.
Keeps(w, i) == w[2][i].reply \in Bad \ {"abort"} /\ IsOk(w, 1, i)
Kept(w) == [i \in DOMAIN w[2] |-> IF Keeps(w, i) THEN 1 ELSE 2]

\* Wrong: the bill is that of the ballots.
BilledBallots(w, at) == {<<at[i], i>> : i \in DOMAIN at}
MagiBill(w, at) == LegsOf(w)

Magi(p, w, stopped) ==
  LET k == Len(w)
      at == IF k = 2 THEN Kept(w) ELSE Same(p, 1)
  IN  CASE p.n = 0 -> Throws
        [] p.n > 0 /\ (stopped \/ (k > 0 /\ AllAborted(w, k))) -> Ends(Cancels(<<0, 0>>, LegsOf(w)))
        [] p.n > 0 /\ ~stopped /\ k = 0 -> Opens(Crew(p.n, "voter", 0))
        [] p.n > 0 /\ ~stopped /\ k = 1 /\ ~AllAborted(w, 1) /\ Reflects(p, w) -> Opens(Crew(p.n, "voter", 0))
        [] OTHER -> Rules(p, [i \in 1..p.n |-> w[at[i]][i].reply], at, 0, TRUE, MagiBill(w, at))

\* A panel, then an arbiter that picks one of the entries that can be judged.
Judged(p, w, stopped, least, entries) ==
  LET k == Len(w)
      reply == w[2][1].reply
  IN  CASE p.n < least \/ ~p.arbiter -> Throws
        [] p.n >= least /\ p.arbiter /\ k = 0 -> Opens(Crew(p.n, "voter", 1))
        [] k = 1 /\ entries = {} -> Ends(Fails(Cause(Replies(w, 1), "contract"), <<0, 0>>, LegsOf(w)))
        [] k = 1 /\ entries # {} -> IF stopped THEN Ends(Cancels(<<0, 0>>, LegsOf(w)))
                                               ELSE Opens(Crew(1, "arbiter", 0))
        [] OTHER ->
             IF reply \in Bad THEN Ends(Fails(KindOf(reply), <<0, 0>>, LegsOf(w)))
             ELSE UNION {Ends(OrElse(<<IF i = 0 THEN 0 ELSE 1, i>>, i # 0, "contract", LegsOf(w))) :
                           i \in Picks(reply, entries)}

\* judge asks for a text, compete for a diff at the end ("yes").
Texts(w) == {i \in DOMAIN w[1] : w[1][i].reply \in Good \ {"blank"}}
Diffs(w) == {i \in DOMAIN w[1] : w[1][i].reply = "yes"}
Judge(p, w, stopped) == Judged(p, w, stopped, 1, Texts(w))
Compete(p, w, stopped) == Judged(p, w, stopped, 2, Diffs(w))

\* Gatherers, then one leg that merges what they found.
Synthesize(p, w) ==
  LET k == Len(w) IN
  CASE p.n = 0 -> Throws
        [] p.n > 0 /\ k = 0 -> Opens(Crew(p.n, "voter", 1))
        [] k = 1 -> IF Texts(w) = {} THEN Ends(Fails(Cause(Replies(w, 1), "contract"), <<0, 0>>, LegsOf(w)))
                                   ELSE Opens(Crew(1, "worker", 0))
        [] OTHER -> Ends(OrElse(<<2, 1>>, IsOk(w, 2, 1), KindOf(w[2][1].reply), LegsOf(w)))

\* map: the splitter's list is clamped to what the run can pay for.
\* Wrong: a verifier for each item is not paid for.
UnverifiedCap(p) == Max({1, p.max - 1})
Cap(p) == IF p.verify THEN Max({1, (p.max - 1) \div 2}) ELSE Max({1, p.max - 1})

\* parseItems reads a list, or nothing.
Lists(reply) == reply = "yes"

\* enforceOwnershipOrThrow: declared write sets that collide end the run.
Clashes(p) == p.clash

Workers(p) == Crew(Min({p.items, Cap(p)}), "worker", IF p.verify THEN Min({p.items, Cap(p)}) ELSE 0)

AfterSplit(p, w) ==
  LET reply == w[1][1].reply IN
  CASE reply \in Bad -> Ends(Fails(KindOf(reply), <<1, 1>>, LegsOf(w)))
    [] reply \in Good /\ ~Lists(reply) -> Ends(Fails("contract", <<1, 1>>, LegsOf(w)))
    [] OTHER -> IF Clashes(p) THEN Throws ELSE Opens(Workers(p))

Verifiers(w) == Crew(Cardinality(OkLegs(w, 2)), "critic", 0)

\* The verdict is the workers'; what the verifiers found is in the ledger of
\* the items.
MapItems(p, w) ==
  LET k == Len(w) IN
  CASE p.n = 0 -> Throws
    [] p.n > 0 /\ k = 0 -> Opens(<<Ask("splitter", Cap(p) * (IF p.verify THEN 2 ELSE 1))>>)
    [] k = 1 -> AfterSplit(p, w)
    [] k = 2 /\ p.verify /\ OkLegs(w, 2) # {} -> Opens(Verifiers(w))
    [] OTHER ->
         Ends(OrElse(<<2, 1>>, OkLegs(w, 2) = DOMAIN w[2], Cause(Replies(w, 2), "agent"), LegsOf(w)))

Decide(p, w, stopped) ==
  CASE p.name \in {"fanout", "custom"} -> Fanout(p, w)
    [] p.name = "pair" -> Pair(p, w)
    [] p.name = "pipeline" -> Pipeline(p, w, stopped)
    [] p.name = "critic-loop" -> CriticLoop(p, w, stopped)
    [] p.name = "debate" -> Debate(p, w, stopped)
    [] p.name = "council-rounds" -> Council(p, w, stopped)
    [] p.name = "magi" -> Magi(p, w, stopped)
    [] p.name = "judge" -> Judge(p, w, stopped)
    [] p.name = "compete" -> Compete(p, w, stopped)
    [] p.name = "synthesize" -> Synthesize(p, w)
    [] p.name = "map" -> MapItems(p, w)
====
