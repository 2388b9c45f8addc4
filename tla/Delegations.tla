---- MODULE Delegations ----
(***************************************************************************)
(* The runs a supervisor launches in the background, from the call to the  *)
(* settlement: what src/tools/delegate-tool.ts refuses, the slots a leg    *)
(* takes (its call's, then the session's), the rows of the tree, the       *)
(* strikes against a delegation that fails, the watch for stalls, and what *)
(* the supervisor may ask of its runs meanwhile (src/tools/                *)
(* intercom-tool.ts): a check that can learn nothing new is refused.       *)
(* Councils and flows (src/tools/background-run.ts) and Mind's maintenance *)
(* (src/extension/mind-worker.ts) take slots of the same pool.             *)
(***************************************************************************)
EXTENDS Integers, Sequences, SequencesExt, FiniteSets, FiniteSetsExt, Slots

CONSTANTS
  Books,        \* the calls of a session: [calls: call -> [kind, legs: seq of [role, key, area], conc],
                \* ticks: bound, looks: bound, stops: may legs be stopped, says: how their engines may end]
  PoolSize,     \* RUN_LIMITS.maxConcurrency
  MaxChildren,  \* RUN_LIMITS.maxChildren
  MaxFailures,  \* MAX_IDENTICAL_FAILURES
  Quiet         \* STALL_FLAG_MS, in ticks

VARIABLES
  book,
  called,   \* call -> new, refused, vetoed, launched
  stage,    \* leg -> new, line: of its call, queue: of the pool, granted, runs, over
  status,   \* leg -> none, running, settled: what the tracker says
  signal,   \* the legs that were stopped
  pool, lanes,
  strikes,  \* DelegationLedger: [key -> failures]
  tree,     \* the rows: <<call>> a header, <<call, n>> a leg
  timer,    \* the peek timer runs
  guard,    \* PollGuard.seen: [scope -> [sig, strikes]]; <<>> is the scope of all runs
  told,     \* settled legs that were collected, or reported in a follow-up
  looks,    \* history, bounded by the book: [left, last: the last check, moved: scope -> legs that launched,
            \* started, settled or were collected since its last answer (all of them
            \* once the supervisor intervened), swayed: that began or ceased to wait or to stall]
  closed,   \* after session_shutdown
  clock, quiet, waits, alarm,  \* ticks and waits, bounded by the book; [leg -> ticks without headway]; legs that wait; PeekWatcher: no, same, moved
  story,    \* history: [leg -> seq of stall, recovery, headway, wait]
  past      \* history: [failed: key -> failures of engines one after the other, tried: calls with a leg that had
            \* MaxFailures, forced: legs settled by force, early: legs stopped before they ran,
            \* rivals: call of a verifier -> the writers launched before or with it]

siteVars == <<stage, pool, lanes>>
rowVars == <<tree, timer>>
workVars == <<called, siteVars, status, signal, strikes, rowVars, closed, past>>
watchVars == <<clock, quiet, waits, alarm, story>>
vars == <<book, workVars, watchVars, guard, told, looks>>

Of(c) == book.calls[c]
CallIds == DOMAIN book.calls
Size(c) == Min({Len(Of(c).legs), MaxChildren})  \* tasks beyond the limit are dropped
LegsOf(c) == {<<c, n>> : n \in 1..Size(c)}
Legs == UNION {LegsOf(c) : c \in CallIds}
Leg(l) == Of(l[1]).legs[l[2]]
Live(l) == status[l] = "running"
Admitted(l) == Live(l) /\ stage[l] = "runs"
Narrow(c) == Of(c).conc < Size(c)
Headed(c) == Size(c) > 1

Unseen == [sig |-> {}, strikes |-> 0]
FirstLook == [verdict |-> "ok", again |-> FALSE, refused |-> FALSE, moved |-> {}, swayed |-> {}]

DelegationsStart(b, over) ==
  LET calls == DOMAIN b.calls
      legs == UNION {{<<c, n>> : n \in 1..Min({Len(b.calls[c].legs), MaxChildren})} : c \in calls}
      keys == UNION {{b.calls[c].legs[n].key : n \in DOMAIN b.calls[c].legs} : c \in calls} IN
  /\ book = b /\ called = [c \in calls |-> "new"] /\ closed = over
  /\ stage = [l \in legs |-> "new"] /\ status = [l \in legs |-> "none"] /\ signal = {}
  /\ pool = Fresh(PoolSize) /\ lanes = [c \in calls |-> Fresh(b.calls[c].conc)]
  /\ strikes = [k \in keys |-> 0] /\ tree = {} /\ timer = FALSE
  /\ guard = [s \in {<<>>} \union legs |-> Unseen] /\ told = {}
  /\ looks = [left |-> b.looks, last |-> FirstLook, moved |-> [s \in {<<>>} \union legs |-> {}],
              swayed |-> [s \in {<<>>} \union legs |-> {}]]
  /\ clock = 0 /\ quiet = [l \in legs |-> 0] /\ waits = {} /\ alarm = [l \in legs |-> "no"]
  /\ story = [l \in legs |-> <<>>]
  /\ past = [failed |-> [k \in keys |-> 0], tried |-> {}, forced |-> {}, early |-> {}, rivals |-> [c \in calls |-> {}]]

DelegationsInit == \E b \in Books : DelegationsStart(b, FALSE)

---------------------------------------------------------------------------
(* The line for a slot of the call, then for one of the pool *)

Site == [stage |-> stage, pool |-> pool, lanes |-> lanes]

Becomes(s) == stage' = s.stage /\ pool' = s.pool /\ lanes' = s.lanes

Enter(s, l) ==
  IF s.pool.free > 0 THEN [s EXCEPT !.pool = Taken(@), !.stage[l] = "granted"]
  ELSE [s EXCEPT !.pool = Queued(@, l), !.stage[l] = "queue"]

\* The legs of a call, one after the other: through have a slot of the call at once, and now
\* of them one of the pool too.
Joins(c) ==
  LET through == IF Narrow(c) THEN Of(c).conc ELSE Size(c)
      now == Min({through, pool.free}) IN
  /\ stage' = [l \in Legs |-> IF l[1] # c THEN stage[l]
                             ELSE IF l[2] <= now THEN "granted" ELSE IF l[2] <= through THEN "queue" ELSE "line"]
  /\ pool' = [free |-> pool.free - now, line |-> pool.line \o [n \in 1..(through - now) |-> <<c, now + n>>]]
  /\ lanes' = [lanes EXCEPT ![c] = IF ~Narrow(c) THEN @
                 ELSE [free |-> @.free - through, line |-> [n \in 1..(Size(c) - through) |-> <<c, through + n>>]]]

FreesPool(s) ==
  [s EXCEPT !.pool = Returned(@), !.stage = [l \in DOMAIN @ |-> IF l \in Heir(s.pool) THEN "granted" ELSE @[l]]]

\* Wrong: a leg that is over keeps the slot of its call.
LaneKept(s, c) == s

FreesLane(s, c) ==
  LET back == [s EXCEPT !.lanes[c] = Returned(@)] IN
  IF ~Narrow(c) THEN s ELSE IF s.lanes[c].line = <<>> THEN back ELSE Enter(back, Head(s.lanes[c].line))

\* A leg that is over, or stopped where it waits, gives back what it holds.
Leaves(s, l) ==
  LET out == [s EXCEPT !.stage[l] = "over"] IN
  CASE s.stage[l] = "line" -> [out EXCEPT !.lanes[l[1]] = Without(@, l)]
    [] s.stage[l] = "queue" -> FreesLane([out EXCEPT !.pool = Without(@, l)], l[1])
    [] OTHER -> FreesLane(FreesPool(out), l[1])

---------------------------------------------------------------------------
(* The call *)

Verifiers(c) == {n \in DOMAIN Of(c).legs : Of(c).legs[n].role = "verifier"}
Mutations(c) == {n \in DOMAIN Of(c).legs : Of(c).legs[n].role = "writer"}
Writing(c) == Verifiers(c) \union Mutations(c)  \* a verifier runs tests: it may write too

\* A verifier that the limit drops, that would overlap a mutation of its batch, or comes before it.
Stale(c) ==
  \/ \E n \in Verifiers(c) : n > MaxChildren
  \/ Of(c).conc > 1 /\ Verifiers(c) # {} /\ Mutations(c) # {}
  \/ \E n \in Verifiers(c), m \in Mutations(c) : n <= m

Writers == {l \in Legs : Leg(l).role = "writer"}

\* Wrong: a writer still in line is no writer yet.
Working == {l \in Writers : Live(l) /\ stage[l] = "runs"}

\* tracker.writers() but for the verifiers.
LiveMutations == {l \in Writers : Live(l)}

\* Wrong: only writers that own nothing are refused.
Unowned(c) == Of(c).conc > 1 /\ Cardinality(Writing(c)) > 1 /\ \E n \in Writing(c) : Of(c).legs[n].area = {}

\* Parallel writers of a call need areas of their own.
Contested(c) ==
  \/ Unowned(c)
  \/ Of(c).conc > 1 /\ \E n, m \in Writing(c) : n # m /\ Of(c).legs[n].area \intersect Of(c).legs[m].area # {}

Refuses(c) == Stale(c) \/ Contested(c) \/ (Verifiers(c) # {} /\ LiveMutations # {})

Vetoed(c) == \E n \in DOMAIN Of(c).legs : strikes[Of(c).legs[n].key] >= MaxFailures

MindBusy == \E l \in Legs : Of(l[1]).kind = "mind" /\ Live(l)

Made(c, how) ==
  /\ called' = [called EXCEPT ![c] = how]
  /\ past' = [past EXCEPT
       !.tried = @ \union {d \in {c} : \E n \in DOMAIN Of(d).legs : past.failed[Of(d).legs[n].key] >= MaxFailures},
       !.rivals[c] = IF Verifiers(c) = {} THEN {}
                     ELSE {l \in Writers : l[1] = c \/ stage[l] \notin {"new", "over"}} \ past.forced]

\* delegate, council or flow, or Mind's worker; no call comes after the shutdown.
Declines(c) ==
  /\ called[c] = "new" /\ ~closed
  /\ \/ Of(c).kind = "delegate" /\ Refuses(c) /\ Made(c, "refused")
     \/ Of(c).kind = "delegate" /\ ~Refuses(c) /\ Vetoed(c) /\ Made(c, "vetoed")
     \/ Of(c).kind = "mind" /\ MindBusy /\ Made(c, "refused")
  /\ UNCHANGED <<book, siteVars, status, signal, strikes, rowVars, closed, watchVars>>

Launches(c) ==
  /\ called[c] = "new" /\ ~closed
  /\ Of(c).kind = "delegate" => ~Refuses(c) /\ ~Vetoed(c)
  /\ Of(c).kind = "mind" => ~MindBusy
  /\ Made(c, "launched") /\ Joins(c)
  /\ status' = [l \in Legs |-> IF l[1] = c THEN "running" ELSE status[l]]
  /\ tree' = tree \union LegsOf(c) \union (IF Headed(c) THEN {<<c>>} ELSE {})
  /\ timer' = TRUE
  /\ UNCHANGED <<book, signal, strikes, closed, watchVars>>

---------------------------------------------------------------------------
(* The settlement *)

\* Wrong: a settlement writes the leg's row again.
Upserted(l, rows) == rows \union {l}

\* A leg of a batch keeps its row as a receipt while its header is there.
Receipt(l, rows) == IF <<l[1]>> \in rows THEN rows ELSE rows \ {l}

\* Wrong: the timer stops with the batch.
BatchLive(l, live) == \E k \in live : k[1] = l[1]

SomeLive(l, live) == live # {}

\* The header leaves with the last leg, and takes the receipts along; the timer stops with the last run.
Settled(l) ==
  LET rest == {k \in LegsOf(l[1]) \ {l} : Live(k)}
      rows == Receipt(l, tree) IN
  /\ status' = [status EXCEPT ![l] = "settled"]
  /\ tree' = IF Headed(l[1]) /\ rest = {} THEN rows \ (LegsOf(l[1]) \union {<<l[1]>>}) ELSE rows
  /\ timer' = (timer /\ SomeLive(l, {k \in Legs \ {l} : Live(k)}))

\* Wrong: every end that is no success is a strike.
AnyEnd(how) == TRUE

Recordable(how) == how \in {"ok", "failed"}

\* Wrong: the signal is not looked at once the slot is there.
StartsAnyway(l) == TRUE

\* markAdmitted, then the engine; a slot that comes with a stop is given back unused.
MayStart(l) == l \notin signal

Starts(l) ==
  /\ stage[l] = "granted" /\ MayStart(l)
  /\ stage' = [stage EXCEPT ![l] = "runs"]
  /\ UNCHANGED <<book, called, pool, lanes, status, signal, strikes, rowVars, closed, past, watchVars>>

Withdraws(l) ==
  /\ stage[l] = "granted" /\ ~MayStart(l)
  /\ Becomes(Leaves(Site, l)) /\ Settled(l)
  /\ UNCHANGED <<book, called, signal, strikes, closed, past, watchVars>>

\* An engine that was stopped may still answer; one that broke gave no evidence.
Ends(l) ==
  /\ stage[l] = "runs"
  /\ IF Live(l) THEN Settled(l) ELSE UNCHANGED <<status, rowVars>>
  /\ \E how \in book.says \union IF l \in signal THEN {"abort"} ELSE {} :
       IF Of(l[1]).kind = "delegate"
       THEN /\ strikes' = IF Recordable(how) THEN [strikes EXCEPT ![Leg(l).key] = IF how = "ok" THEN 0 ELSE @ + 1] ELSE strikes
            /\ past' = [past EXCEPT !.failed[Leg(l).key] = IF how = "ok" THEN 0 ELSE IF how = "failed" THEN @ + 1 ELSE @]
       ELSE UNCHANGED <<strikes, past>>
  /\ Becomes(Leaves(Site, l))
  /\ UNCHANGED <<book, called, signal, closed, watchVars>>

\* intercom stop, x, Mind's deadline or a new owner of its memory; a second stop settles
\* a run whose engine does not listen.
Stops(l) ==
  /\ Live(l) /\ ~closed /\ book.stops
  /\ signal' = signal \union {l}
  /\ IF stage[l] \in {"line", "queue"} THEN Becomes(Leaves(Site, l)) /\ Settled(l) /\ UNCHANGED past
     ELSE IF l \in signal /\ stage[l] = "runs" THEN Settled(l) /\ past' = [past EXCEPT !.forced = @ \union {l}] /\ UNCHANGED siteVars
     ELSE /\ past' = IF stage[l] = "granted" THEN [past EXCEPT !.early = @ \union {l}] ELSE past
          /\ UNCHANGED <<siteVars, status, rowVars>>
  /\ UNCHANGED <<book, called, strikes, closed, watchVars>>

InLine == {l \in Legs : stage[l] \in {"line", "queue"}}

\* Every run is stopped at once: who is in line is over.
AllStopped ==
  /\ signal' = signal \union {l \in Legs : Live(l)}
  /\ stage' = [l \in Legs |-> IF l \in InLine THEN "over" ELSE stage[l]]
  /\ status' = [l \in Legs |-> IF l \in InLine THEN "settled" ELSE status[l]]
  /\ pool' = Emptied(pool)
  /\ lanes' = [c \in CallIds |-> [free |-> lanes[c].free + Cardinality({l \in LegsOf(c) : Narrow(c) /\ stage[l] = "queue"}), line |-> <<>>]]
  /\ past' = [past EXCEPT !.early = @ \union {l \in Legs : stage[l] = "granted"}]
  /\ UNCHANGED <<book, called, strikes, watchVars>>

\* session_shutdown: the tree is cleared too.
Shutdown ==
  /\ ~closed /\ book.stops /\ closed' = TRUE /\ tree' = {} /\ timer' = FALSE
  /\ AllStopped

\* stop { to: "all" }: a run that is stopping already is left alone, never settled by force.
StopsAll ==
  LET live == {l \in Legs : Live(l)} \ InLine
      open == {c \in CallIds : Headed(c) /\ \E l \in LegsOf(c) : l \in live} IN
  /\ ~closed /\ book.stops /\ ~({l \in Legs : Live(l)} \subseteq signal)
  /\ tree' = {r \in tree : r \in live \/ r[1] \in open} /\ timer' = (timer /\ live # {})
  /\ AllStopped /\ UNCHANGED closed

---------------------------------------------------------------------------
(* The watch: a stall is an exception, told once *)

Tick ==
  /\ ~closed /\ clock < book.ticks /\ clock' = clock + 1
  /\ quiet' = [l \in Legs |-> IF Admitted(l) THEN Min({quiet[l] + 1, Quiet}) ELSE quiet[l]]
  /\ UNCHANGED <<book, workVars, waits, alarm, story>>

Advanced(l) ==
  /\ quiet' = [quiet EXCEPT ![l] = 0]
  /\ alarm' = [alarm EXCEPT ![l] = IF @ = "no" THEN "no" ELSE "moved"]
  /\ story' = [story EXCEPT ![l] = IF @ # <<>> /\ Last(@) # "headway" THEN Append(@, "headway") ELSE @]

Headway(l) ==
  /\ Admitted(l) /\ quiet[l] > 0 /\ Advanced(l)
  /\ UNCHANGED <<book, workVars, clock, waits>>

\* A question to the supervisor leaves the clock alone, the operator's decision restarts it.
Waits(l) ==
  /\ Admitted(l) /\ clock \in 1..(book.ticks - 1) /\ clock' = clock + 1
  /\ l \notin waits /\ waits' = waits \union {l}
  /\ story' = [story EXCEPT ![l] = IF @ # <<>> /\ Last(@) # "wait" THEN Append(@, "wait") ELSE @]
  /\ UNCHANGED <<book, workVars, quiet, alarm>>

Resumes(l) ==
  /\ l \in waits /\ Admitted(l) /\ waits' = waits \ {l}
  /\ Advanced(l) \/ UNCHANGED <<quiet, alarm, story>>
  /\ UNCHANGED <<book, workVars, clock>>

Stalled(l) == quiet[l] >= Quiet

\* A stop takes the steer handle that says so.
Waiting(l) == l \in waits \ signal

\* Wrong: who has advanced stays reported.
Rearm(l) == alarm[l]

Rearmed(l) == IF alarm[l] = "moved" THEN "no" ELSE alarm[l]

Seen(l) ==
  IF ~Admitted(l) \/ Waiting(l) THEN "no" ELSE IF Stalled(l) /\ Rearmed(l) = "no" THEN "same" ELSE Rearmed(l)

Cards(l) ==
  IF ~Admitted(l) \/ Waiting(l) THEN <<>>
  ELSE IF Stalled(l) THEN IF Rearmed(l) = "no" THEN <<"stall">> ELSE <<>>
  ELSE IF alarm[l] = "moved" THEN <<"recovery">> ELSE <<>>

\* A tick of the peek timer: PeekWatcher.poll, and a card for the operator.
Poll ==
  /\ timer /\ clock > 0
  /\ alarm' = [l \in Legs |-> Seen(l)] /\ story' = [l \in Legs |-> story[l] \o Cards(l)]
  /\ UNCHANGED <<book, workVars, clock, quiet, waits>>

---------------------------------------------------------------------------
(* What the supervisor asks meanwhile *)

Scopes == {<<>>} \union Legs

\* completionNotifier.peekPending: nobody is told of Mind's own runs.
Untold == {l \in Legs : status[l] = "settled" /\ Of(l[1]).kind # "mind"} \ told

Shown(s) == IF s = <<>> THEN {l \in Legs : Live(l)} \union Untold ELSE {s}

\* Wrong: who waits for its slot looks like who works.
StatusOnly(l) == [leg |-> l, live |-> Live(l), queued |-> FALSE, waits |-> Admitted(l) /\ Waiting(l), stalled |-> Admitted(l) /\ Stalled(l)]

StateOf(l) ==
  [leg |-> l, live |-> Live(l), queued |-> Live(l) /\ ~Admitted(l),
   waits |-> Admitted(l) /\ Waiting(l), stalled |-> Admitted(l) /\ Stalled(l)]

Sig(s) == {StateOf(l) : l \in Shown(s)}

\* PollGuard.check.
Verdict(s) ==
  IF guard[s].sig # Sig(s) THEN "ok" ELSE IF guard[s].strikes = 0 THEN "repeat" ELSE "terminate"

May == looks.left > 0 /\ ~closed

\* peek, or result of a run that is live; nothing is refused once every run shown has settled.
Checks(s) ==
  LET about == Shown(s) \union {r.leg : r \in guard[s].sig} IN
  /\ May /\ \E l \in Shown(s) : Live(l)
  /\ guard' = [guard EXCEPT ![s] = IF Verdict(s) = "ok" THEN [sig |-> Sig(s), strikes |-> 0] ELSE [@ EXCEPT !.strikes = 1]]
  /\ looks' = [looks EXCEPT !.left = @ - 1,
       !.last = [verdict |-> Verdict(s), again |-> guard[s] # Unseen, refused |-> guard[s].strikes > 0,
                 moved |-> looks.moved[s] \intersect about, swayed |-> looks.swayed[s] \intersect about],
       !.moved[s] = IF Verdict(s) = "ok" THEN {} ELSE @, !.swayed[s] = IF Verdict(s) = "ok" THEN {} ELSE @]
  /\ UNCHANGED <<book, workVars, watchVars, told>>

\* What a scope that was looked at has seen change since.
Also(seen, changed) ==
  [s \in Scopes |-> IF guard[s] = Unseen THEN {} ELSE seen[s] \union (IF s = <<>> THEN changed ELSE changed \intersect {s})]

\* result of a run that has settled: its follow-up is dropped.
Collects(l) ==
  /\ May /\ l \in Untold /\ told' = told \union {l}
  /\ looks' = [looks EXCEPT !.left = @ - 1, !.moved = Also(@, {l})]
  /\ UNCHANGED <<book, workVars, watchVars, guard>>

\* Wrong: the guard remembers.
Kept == guard
Forgotten == [s \in Scopes |-> Unseen]

\* pollGuard.reset: whatever is shown next may differ from what was seen.
Afresh ==
  /\ guard' = Forgotten
  /\ looks' = [looks EXCEPT !.left = @ - 1, !.moved = [s \in Scopes |-> Legs]]

\* A leg that was stopped has no steer handle.
Steers(l) == May /\ Admitted(l) /\ l \notin signal /\ Afresh /\ UNCHANGED <<book, workVars, watchVars, told>>

\* The turn settles; a follow-up may report the legs whose batch has settled.
TurnEnds ==
  /\ May /\ Afresh
  /\ told' \in {told, told \union {l \in Untold : \A k \in LegsOf(l[1]) : ~Live(k)}}
  /\ UNCHANGED <<book, workVars, watchVars>>

\* stop, of a run or of all.
Intervenes(A) == May /\ A /\ Afresh /\ UNCHANGED told

\* Anything else goes on while the supervisor knows nothing of it.
Moved == {l \in Legs : (Live(l) # Live(l)') \/ (Admitted(l) # Admitted(l)')}
Swayed == {l \in Legs : Waiting(l) # Waiting(l)' \/ Stalled(l) # Stalled(l)'}
Aside(A) ==
  /\ A /\ UNCHANGED <<guard, told>>
  /\ looks' = IF book.looks = 0 THEN looks
              ELSE [looks EXCEPT !.moved = Also(@, Moved), !.swayed = Also(@, Swayed)]

---------------------------------------------------------------------------
DelegationsNext ==
  \/ \E c \in CallIds : Aside(Declines(c)) \/ Aside(Launches(c))
  \/ \E l \in Legs :
       \/ Aside(Starts(l)) \/ Aside(Withdraws(l)) \/ Aside(Ends(l)) \/ Aside(Stops(l))
       \/ Aside(Headway(l)) \/ Aside(Waits(l)) \/ Aside(Resumes(l))
       \/ Intervenes(Stops(l)) \/ Collects(l) \/ Steers(l)
  \/ \E s \in Scopes : Checks(s)
  \/ Intervenes(StopsAll) \/ TurnEnds
  \/ Aside(Shutdown) \/ Aside(Tick) \/ Aside(Poll)

\* Continuations run, and an engine ends: it has a deadline (engine/inproc.ts, engine/child.ts).
Moves == \E l \in Legs : Aside(Starts(l) \/ Withdraws(l) \/ Ends(l))

DelegationsFairness == WF_vars(Moves)

DelegationsSpec == DelegationsInit /\ [][DelegationsNext]_vars /\ DelegationsFairness

---------------------------------------------------------------------------
\* delegate-tool.ts:630: a verifier works on what is finished: no writer that was launched
\* before it, or with it, works beside it (but one that was settled by force: the tracker
\* has forgotten it); parallel writers of one call have areas of their own.
WorkIsApart ==
  \A l, k \in Legs : l # k /\ stage[l] = "runs" /\ stage[k] = "runs" =>
    /\ Leg(l).role = "verifier" => k \notin past.rivals[l[1]]
    /\ l[1] = k[1] /\ Leg(l).role # "reader" /\ Leg(k).role # "reader" => Leg(l).area \intersect Leg(k).area = {}

\* parallel.ts:60: the slots of the pool and of each call are held or free, nobody waits
\* beside a free one, and no engine starts for a leg that was stopped before it had its slot.
SlotsAreKept ==
  LET held == {l \in Legs : stage[l] \in {"granted", "runs"}} IN
  /\ Cardinality(held) + pool.free = PoolSize /\ (pool.line # <<>> => pool.free = 0)
  /\ \A c \in CallIds : Narrow(c) =>
       /\ Cardinality({l \in LegsOf(c) : stage[l] \in {"queue", "granted", "runs"}}) + lanes[c].free = Of(c).conc
       /\ lanes[c].line # <<>> => lanes[c].free = 0
  /\ \A l \in past.early : stage[l] # "runs"

\* delegate.ts:375: a delegation is vetoed exactly when it failed twice of itself, one
\* after the other, since it last succeeded: a stop, a broken engine or a leg that is
\* settled by force and ends later is judged by what its engine did.
StrikesAreFair ==
  \A c \in CallIds : Of(c).kind = "delegate" =>
    (called[c] = "vetoed" => c \in past.tried) /\ (called[c] = "launched" => c \notin past.tried)

\* delegate-tool.ts:404: until the tree is cleared the rows are those of the live runs, with
\* a batch's header and receipts while one of its legs is live; nothing comes back after.
RowsAreTrue ==
  LET live == {l \in Legs : Live(l)}
      open == {c \in CallIds : Headed(c) /\ \E l \in LegsOf(c) : Live(l)} IN
  tree = IF closed THEN {} ELSE live \union {<<c>> : c \in open} \union UNION {LegsOf(c) : c \in open}

\* async.ts:561: a stall is told once until the leg moves again or waits, and a recovery
\* only after a stall, of a leg that moved since.
StallsAreToldOnce ==
  \A l \in Legs : LET s == story[l] IN
    /\ \A i, j \in DOMAIN s : i < j /\ s[i] = "stall" /\ s[j] = "stall" =>
         \E m \in i..j : s[m] \in {"headway", "wait"}
    /\ \A j \in DOMAIN s : s[j] = "recovery" =>
         \E i \in 1..j : s[i] = "stall" /\ "headway" \in ToSet(SubSeq(s, i, j)) /\ "recovery" \notin ToSet(SubSeq(s, i, j - 1))

\* intercom-tool.ts:112: a check is refused only if no run it is about launched, started or
\* settled since that check was last answered, and the supervisor has not intervened; it is
\* refused whenever nothing changed, and ends the turn only the second time.  A run that began
\* to wait or to stall and ceased is seen as one that did neither.
ChecksAreFair ==
  LET c == looks.last IN
  /\ c.verdict # "ok" => c.moved = {}
  /\ c.verdict = "ok" /\ c.again => c.moved # {} \/ c.swayed # {}
  /\ c.verdict = "terminate" => c.refused

\* extension.ts:1386: while a run is live the peek timer runs, whichever runs settled before.
LiveRunsAreWatched == ~closed /\ (\E l \in Legs : Live(l)) => timer

\* delegate-tool.ts:372: whatever is stopped and whoever is in line, every run launched settles.
NoneLives == \A l \in Legs : ~Live(l)
RunsSettle == <>[]NoneLives
====
