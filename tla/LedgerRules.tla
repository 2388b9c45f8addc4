---- MODULE LedgerRules ----
(***************************************************************************)
(* The pure rules of the work ledger (src/exocom/ledger.ts and             *)
(* collaboration.ts): who may claim paths, ask, answer, release, and       *)
(* create, take and finish tasks; what a prune removes; and how a state is *)
(* rebuilt from a snapshot or a journal.                                   *)
(*                                                                         *)
(* Open claims, open questions and tasks are sets: nothing depends on their *)
(* order.  Receipts are a sequence, because the oldest one is dropped.      *)
(*                                                                         *)
(* Left out: prose, timestamps, offers, evidence and progress notes, the   *)
(* byte and count limits that refuse an event, and the duplicate branch: a *)
(* msg_id is a fresh random id and nobody sends one twice.  Limits that    *)
(* drop instead of refusing (maxResults) are kept.  A terminal fact is     *)
(* either younger than the TTL at a prune or not: "aged" says which, for   *)
(* all of them at once.                                                    *)
(***************************************************************************)
EXTENDS Naturals, Sequences, FiniteSets

CONSTANTS
  Clashing,        \* pairs of equal or nested paths
  MaxAsksFromTo,   \* LEDGER_LIMITS.maxAsksFromTo
  MaxResults,      \* LEDGER_LIMITS.maxResults
  NoTaker,         \* the taker of a task nobody picked up
  MaxEvents        \* bound: events ever committed or tried; a msg_id is a number up to it

EmptyLedger ==
  [claims |-> {}, asks |-> {}, answers |-> <<>>, askIds |-> {}, tasks |-> {}]
----
(* Claims: two open claims never name equal or nested paths, not even by   *)
(* one session.                                                            *)
Overlap(P, Q) == \E a \in P, b \in Q : <<a, b>> \in Clashing

MayClaim(s, e) == \A c \in s.claims : ~Overlap(c.paths, e.paths)
ClaimOf(e, paths) == [id |-> e.id, key |-> e.key, from |-> e.from, paths |-> paths]
Claimed(s, e) == [s EXCEPT !.claims = @ \cup {ClaimOf(e, e.paths)}]

(* Questions between sessions.                                             *)
AskOf(e) == [id |-> e.id, askId |-> e.askId, key |-> e.key, from |-> e.from, to |-> e.to]

Between(s, from, to) == {a \in s.asks : a.from = from /\ a.to = to}

MayAsk(s, e) ==
  /\ e.askId \notin s.askIds
  /\ e.to # e.from
  /\ Cardinality(Between(s, e.from, e.to)) < MaxAsksFromTo
  /\ \A a \in s.asks : ~(a.key = e.key /\ a.to = e.to)

Asked(s, e) == [s EXCEPT !.asks = @ \cup {AskOf(e)}, !.askIds = @ \cup {e.askId}]

AskIn(s, askId) == CHOOSE a \in s.asks : a.askId = askId

MayAnswer(s, e) ==
  \E a \in s.asks : a.askId = e.askId /\ a.key = e.key /\ a.to = e.from

Latest(seq, n) == IF Len(seq) <= n THEN seq ELSE SubSeq(seq, Len(seq) - n + 1, Len(seq))

\* The receipt keeps the question it answers.
Answered(s, e) ==
  LET receipt == [id |-> e.id, ask |-> AskIn(s, e.askId)] IN
  [s EXCEPT !.asks = {a \in s.asks : a.askId # e.askId},
            !.answers = Latest(Append(s.answers, receipt), MaxResults)]
----
(* Tasks: status is open, taken, done (or abandoned) or stale.            *)
Owner(t) == IF t.taker = NoTaker THEN t.by ELSE t.taker
Unfinished(t) == t.status \in {"open", "taken"}

MayCreate(s, e) == \A t \in s.tasks : t.key # e.key
NewTask(e) ==
  [id |-> e.id, key |-> e.key, by |-> e.from, paths |-> e.paths,
   taker |-> NoTaker, takeId |-> 0, status |-> "open"]
Created(s, e) == [s EXCEPT !.tasks = @ \cup {NewTask(e)}]

IsTask(t, e) == t.key = e.key /\ t.id = e.task

PathsOf(s, e) == UNION {t.paths : t \in {u \in s.tasks : u.key = e.key}}

\* A write task is picked up together with its claim, or not at all.
MayTake(s, e) ==
  /\ \E t \in s.tasks : IsTask(t, e) /\ t.status = "open"
  /\ PathsOf(s, e) # {} =>
       \A c \in s.claims : ~(c.key = e.key /\ c.from = e.from) /\ ~Overlap(c.paths, PathsOf(s, e))

TakenBy(t, e) ==
  IF IsTask(t, e) THEN [t EXCEPT !.taker = e.from, !.takeId = e.id, !.status = "taken"] ELSE t
Took(s, e) ==
  [s EXCEPT !.tasks = {TakenBy(t, e) : t \in s.tasks},
            !.claims = s.claims \cup
                         IF PathsOf(s, e) = {} THEN {} ELSE {ClaimOf(e, PathsOf(s, e))}]

MayFinish(s, e) ==
  \E t \in s.tasks : IsTask(t, e) /\ t.status = "taken" /\ t.taker = e.from
FinishedBy(t, e) == IF IsTask(t, e) THEN [t EXCEPT !.status = "done"] ELSE t
Finished(s, e) ==
  [s EXCEPT !.tasks = {FinishedBy(t, e) : t \in s.tasks},
            !.claims = {c \in s.claims : \A t \in s.tasks : ~(IsTask(t, e) /\ t.takeId = c.id)}]

\* release: this session's claims and questions on the key go, its unfinished
\* task there is stale.
Mine(x, e) == x.key = e.key /\ x.from = e.from
MineToEnd(t, e) == t.key = e.key /\ Unfinished(t) /\ Owner(t) = e.from

MayRelease(s, e) ==
  \/ \E x \in s.claims \cup s.asks : Mine(x, e)
  \/ \E t \in s.tasks : MineToEnd(t, e)

\* Wrong: the task stays taken.
ReleasedClaims(s, e) ==
  [s EXCEPT !.claims = {c \in s.claims : ~Mine(c, e)}, !.asks = {a \in s.asks : ~Mine(a, e)}]
GivenUp(t, e) == IF MineToEnd(t, e) THEN [t EXCEPT !.status = "stale"] ELSE t
Released(s, e) ==
  [s EXCEPT !.claims = {c \in s.claims : ~Mine(c, e)},
            !.asks = {a \in s.asks : ~Mine(a, e)},
            !.tasks = {GivenUp(t, e) : t \in s.tasks}]
----
(* applyLedgerEvent: the state after e, or a refusal.                      *)
Accepts(s, e) ==
  \/ e.kind = "claim" /\ MayClaim(s, e)
  \/ e.kind = "ask" /\ MayAsk(s, e)
  \/ e.kind = "answer" /\ MayAnswer(s, e)
  \/ e.kind = "release" /\ MayRelease(s, e)
  \/ e.kind = "task_create" /\ MayCreate(s, e)
  \/ e.kind = "task_take" /\ MayTake(s, e)
  \/ e.kind = "task_finish" /\ MayFinish(s, e)

Apply(s, e) ==
  CASE e.kind = "claim" -> Claimed(s, e)
    [] e.kind = "ask" -> Asked(s, e)
    [] e.kind = "answer" -> Answered(s, e)
    [] e.kind = "release" -> Released(s, e)
    [] e.kind = "task_create" -> Created(s, e)
    [] e.kind = "task_take" -> Took(s, e)
    [] e.kind = "task_finish" -> Finished(s, e)

\* What an event needs write permission for, judged on the locked state.
Writes(s, e) ==
  \/ e.kind \in {"claim", "task_create"} /\ e.paths # {}
  \/ e.kind = "task_take" /\ PathsOf(s, e) # {}

(* pruneLedger: the lease of a session is its registry heartbeat.          *)
AskIdsOf(s) == {a.askId : a \in s.asks} \cup {s.answers[i].ask.askId : i \in DOMAIN s.answers}

Terminal(t) == ~Unfinished(t)
\* Wrong: the claims of a vanished taker go, its task stays taken.
NeverStale(t, live) == t
Stale(t, live) == IF Unfinished(t) /\ Owner(t) \notin live THEN [t EXCEPT !.status = "stale"] ELSE t

\* A task that turns stale in this very prune is as young as the prune.
Prune(s, live, aged) ==
  LET pruned == [s EXCEPT
        !.claims = {c \in s.claims : c.from \in live},
        !.asks = {a \in s.asks : {a.from, a.to} \subseteq live},
        !.answers = IF aged THEN <<>> ELSE s.answers,
        !.tasks = {Stale(t, live) : t \in {u \in s.tasks : ~(aged /\ Terminal(u))}}]
  IN [pruned EXCEPT !.askIds = AskIdsOf(pruned)]
----
(* parseSnapshot: a snapshot counts only if the ordinary rules rebuild it. *)
Feed(acc, e) ==
  IF acc.ok /\ Accepts(acc.state, e) THEN [ok |-> TRUE, state |-> Apply(acc.state, e)]
  ELSE [acc EXCEPT !.ok = FALSE]

AskEvent(a) ==
  [kind |-> "ask", id |-> a.id, key |-> a.key, from |-> a.from, to |-> a.to, askId |-> a.askId]
AnswerEvent(r) ==
  [kind |-> "answer", id |-> r.id, key |-> r.ask.key, from |-> r.ask.to, askId |-> r.ask.askId]
ClaimEvent(c) == [kind |-> "claim", id |-> c.id, key |-> c.key, from |-> c.from, paths |-> c.paths]

Fresh == [ok |-> TRUE, state |-> EmptyLedger]

\* Each receipt is asked and answered again.
Replayed(s) ==
  [n \in 1..2 * Len(s.answers) |->
     IF n % 2 = 1 THEN AskEvent(s.answers[(n + 1) \div 2].ask) ELSE AnswerEvent(s.answers[n \div 2])]
Receipts(s) ==
  LET upTo[n \in 0..2 * Len(s.answers)] == IF n = 0 THEN Fresh ELSE Feed(upTo[n - 1], Replayed(s)[n])
  IN upTo

\* The events of E on top of acc, by their ids.
Feeding(acc, E) ==
  LET upTo[n \in 0..MaxEvents] ==
        IF n = 0 THEN acc
        ELSE IF \E e \in E : e.id = n THEN Feed(upTo[n - 1], CHOOSE e \in E : e.id = n)
        ELSE upTo[n - 1]
  IN upTo
Fed(acc, E) == Feeding(acc, E)[MaxEvents]

Rebuilt(s) ==
  Fed(Fed(Receipts(s)[2 * Len(s.answers)], {ClaimEvent(c) : c \in s.claims}), {AskEvent(a) : a \in s.asks})

\* Keys are unique, and whoever finished a task had taken it.
TasksParse(tasks) ==
  /\ \A t, u \in tasks : t.key = u.key => t = u
  /\ \A t \in tasks : t.status \in {"taken", "done"} => t.taker # NoTaker

HoldsItsClaim(s, t) ==
  \E c \in s.claims : c.id = t.takeId /\ c.from = t.taker /\ c.key = t.key /\ c.paths = t.paths

\* An authoritative snapshot that does not rebuild fails the whole ledger.
Restore(s) ==
  LET fed == Rebuilt(s) IN
  [ok |-> /\ fed.ok
          /\ fed.state.askIds \subseteq s.askIds
          /\ TasksParse(s.tasks)
          /\ \A t \in s.tasks : t.status = "taken" /\ t.paths # {} => HoldsItsClaim(fed.state, t),
   state |-> [fed.state EXCEPT !.tasks = s.tasks, !.askIds = s.askIds]]

(* parseLedger: a refused event of the journal is ignored.                 *)
Read(acc, rec) ==
  IF ~acc.ok THEN acc
  ELSE IF rec.kind = "ledger_snapshot_v1" THEN Restore(rec.state)
  ELSE IF Accepts(acc.state, rec) THEN [acc EXCEPT !.state = Apply(acc.state, rec)]
  ELSE acc

Loading(journal) ==
  LET upTo[n \in 0..Len(journal)] == IF n = 0 THEN Fresh ELSE Read(upTo[n - 1], journal[n])
  IN upTo
Load(journal) == Loading(journal)[Len(journal)]
====
