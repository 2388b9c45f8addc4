---- MODULE Registry ----
(***************************************************************************)
(* The sessions of one workspace and the registry they find each other in: *)
(* src/exocom/registry.ts, the life of a plane in src/exocom/plane.ts, and *)
(* the queue of its transitions in src/exocom/install.ts.                  *)
(*                                                                         *)
(* A session has one file, its slot.  Each plane it starts signs with a    *)
(* key of its own.  A file is removed by claiming it (a rename), comparing *)
(* what was claimed with the entry the remover had seen, and deleting or   *)
(* restoring it; other processes run between any two of these steps.       *)
(***************************************************************************)
EXTENDS Integers, Sequences, FiniteSets

CONSTANTS
  Sessions,
  MaxPlanes,  \* bound: [session -> planes it starts]
  MaxTurns,   \* bound: [session -> persona changes]
  Senders,    \* bound: the sessions that send to a peer
  Enders      \* bound: the sessions that end

VARIABLES
  slot,    \* [session -> the entries in its file: at most one]
  plane,   \* [session -> at: "off", "binding", "up", "closing"; its key]
  jobs,    \* [session -> the queued transitions, "gate" or "stop", in order]
  gate,    \* [session -> the persona in force may use the bus]
  life,    \* [session -> "on", "down" (session_shutdown ran), "dead"]
  work,    \* [session -> the removals its process has begun, and its claim]
  aim,     \* [session -> the entries of peers it is sending to]
  byes,    \* goodbyes on the wire
  turns,   \* [session -> persona changes so far]
  judged,  \* the entries somebody decided to remove, or left aside under a claim's name
  displaced \* history: those dropped because an earlier one of their session had been put back

poolVars == <<slot, plane, jobs, gate, life, work, aim, byes, turns, judged, displaced>>

OwnEntry(s, key, fresh) == [of |-> s, key |-> key, fresh |-> fresh]
Own(s) == OwnEntry(s, plane[s].key, TRUE)

\* Whose an entry is: session and key (the endpoint follows from the session).
Whose(e) == OwnEntry(e.of, e.key, TRUE)

\* A removal is the ownership expected; the claim is the file that was renamed.
NoWork == [todo |-> {}, claim |-> {}]
Idles(s) == life[s] # "dead" /\ work[s] = NoWork

Starting(l) ==
  /\ slot = [s \in Sessions |-> {}]
  /\ plane = [s \in Sessions |-> [at |-> "off", key |-> 0]]
  /\ jobs = [s \in Sessions |-> <<"gate">>] /\ gate = [s \in Sessions |-> TRUE]
  /\ life = [s \in Sessions |-> l]
  /\ work = [s \in Sessions |-> NoWork] /\ aim = [s \in Sessions |-> {}]
  /\ byes = {} /\ turns = [s \in Sessions |-> 0] /\ judged = {} /\ displaced = {}

PoolInit == Starting("on")

\* Wrong: a heartbeat that is too old does not count.
DeadPid(e) == life[e.of] = "dead"

\* A dead pid, or a heartbeat that is too old.
Gone(e) == life[e.of] = "dead" \/ ~e.fresh
Listed == UNION {slot[s] : s \in Sessions}

\* A process sets out to remove what it has read.
SetsOut(s, entries) ==
  /\ work' = [work EXCEPT ![s].todo = entries] /\ judged' = judged \union entries

\* prune: what is gone is removed.
Prunes(s, seen) == SetsOut(s, {Whose(e) : e \in {x \in seen : Gone(x)}})

\* writeEntry: a temporary and a rename, so readers see one entry or the other.
Writes(s) == slot' = [slot EXCEPT ![s] = {Own(s)}]

Runs(s, states) == Idles(s) /\ plane[s].at \in states
Next1(s) == jobs' = [jobs EXCEPT ![s] = Tail(@)]
At(s, at) == plane' = [plane EXCEPT ![s].at = at]

PersonaChanges(s) ==
  /\ Idles(s) /\ life[s] = "on" /\ turns[s] < MaxTurns[s]
  /\ turns' = [turns EXCEPT ![s] = @ + 1]
  /\ gate' = [gate EXCEPT ![s] = ~@] /\ jobs' = [jobs EXCEPT ![s] = Append(@, "gate")]
  /\ UNCHANGED <<slot, plane, life, work, aim, byes, judged, displaced>>

Shutdown(s) ==
  /\ s \in Enders /\ Idles(s) /\ life[s] = "on"
  /\ life' = [life EXCEPT ![s] = "down"] /\ jobs' = [jobs EXCEPT ![s] = Append(@, "stop")]
  /\ UNCHANGED <<slot, plane, gate, work, aim, byes, turns, judged, displaced>>

MustStart(s) == Head(jobs[s]) = "gate" /\ gate[s] /\ plane[s].at = "off"

\* Wrong: a queued stop asks the gate again.
MustClose(s) == plane[s].at = "up" /\ ~gate[s]

MustStop(s) == plane[s].at = "up" /\ (Head(jobs[s]) = "stop" \/ ~gate[s])

\* The transition at the head begins.  One that binds or closes a plane stays
\* at the head until it is done, so the next one waits.
Transition(s) ==
  /\ Runs(s, {"off", "up"}) /\ jobs[s] # <<>>
  /\ \/ /\ MustStart(s) /\ plane[s].key < MaxPlanes[s]
        /\ plane' = [plane EXCEPT ![s] = [at |-> "binding", key |-> @.key + 1]]
        /\ UNCHANGED <<jobs, byes>>
     \/ /\ MustStop(s) /\ At(s, "closing")
        /\ byes' = byes \union {[to |-> e.of, from |-> Own(s)] : e \in {e \in Listed : e.of # s}}
        /\ UNCHANGED jobs
     \/ /\ ~MustStop(s) /\ ~(MustStart(s) /\ plane[s].key < MaxPlanes[s])
        /\ Next1(s) /\ UNCHANGED <<plane, byes>>
  /\ UNCHANGED <<slot, gate, life, work, aim, turns, judged, displaced>>

\* plane.start() binds its endpoint, prunes, and writes the session's entry.
Starts(s) ==
  /\ Runs(s, {"binding"})
  /\ Writes(s) /\ At(s, "up") /\ Next1(s)
  /\ Prunes(s, Listed \ slot[s])
  /\ UNCHANGED <<gate, life, aim, byes, turns, displaced>>

\* It cannot bind, or cannot write: the plane is taken down again.
StartFails(s) ==
  /\ Runs(s, {"binding"})
  /\ At(s, "off") /\ Next1(s)
  /\ UNCHANGED <<slot, gate, life, work, aim, byes, turns, judged, displaced>>

\* The server is closed; the plane removes its own entry.
Closes(s) ==
  /\ Runs(s, {"closing"})
  /\ SetsOut(s, {Own(s)}) /\ At(s, "off") /\ Next1(s)
  /\ UNCHANGED <<slot, gate, life, aim, byes, turns, displaced>>

\* exocomHeartbeatTick: the entry is written again, whatever became of it.
Heartbeat(s) ==
  /\ Runs(s, {"up"})
  /\ Writes(s)
  /\ Prunes(s, Listed \ slot[s])
  /\ UNCHANGED <<plane, jobs, gate, life, aim, byes, turns, displaced>>

\* listPeers, from any tool or prompt.
Looks(s) ==
  /\ Runs(s, {"up", "closing"})
  /\ \E e \in Listed : Gone(e)
  /\ Prunes(s, Listed)
  /\ UNCHANGED <<slot, plane, jobs, gate, life, aim, byes, turns, displaced>>

\* A session that is slow, or stopped, misses its heartbeats.
GrowsStale(s) ==
  /\ \E e \in slot[s] : e.fresh
  /\ slot' = [slot EXCEPT ![s] = {[e EXCEPT !.fresh = FALSE] : e \in @}]
  /\ UNCHANGED <<plane, jobs, gate, life, work, aim, byes, turns, judged, displaced>>

\* send() takes the entry it will write to, and may wait long for the answer.
SendsTo(s) ==
  /\ s \in Senders /\ Runs(s, {"up"}) /\ aim[s] = {}
  /\ \E e \in Listed : e.of # s /\ ~Gone(e) /\ aim' = [aim EXCEPT ![s] = {Whose(e)}]
  /\ UNCHANGED <<slot, plane, jobs, gate, life, work, byes, turns, judged, displaced>>

Sent(s) ==
  /\ Idles(s) /\ aim[s] # {}
  /\ aim' = [aim EXCEPT ![s] = {}]
  /\ UNCHANGED <<slot, plane, jobs, gate, life, work, byes, turns, judged, displaced>>

\* The peer cannot be reached, or does not answer as itself.
SendFails(s) ==
  /\ Idles(s) /\ aim[s] # {}
  /\ aim' = [aim EXCEPT ![s] = {}] /\ SetsOut(s, aim[s])
  /\ UNCHANGED <<slot, plane, jobs, gate, life, byes, turns, displaced>>

\* A goodbye signed by the key in the registry removes the entry.
ByeArrives(b) ==
  /\ b \in byes /\ byes' = byes \ {b}
  /\ IF Runs(b.to, {"up", "closing"})
     THEN SetsOut(b.to, {b.from} \cap {Whose(e) : e \in slot[b.from.of]})
     ELSE UNCHANGED <<work, judged>>
  /\ UNCHANGED <<slot, plane, jobs, gate, life, aim, turns, displaced>>

\* removeEntryIfMatches: the rename.  Nothing there: nothing to do.
Claims(s, e) ==
  /\ e \in work[s].todo /\ work[s].claim = {}
  /\ slot' = [slot EXCEPT ![e.of] = {}]
  /\ work' = IF slot[e.of] = {} THEN [work EXCEPT ![s].todo = @ \ {e}] ELSE [work EXCEPT ![s].claim = slot[e.of]]
  /\ UNCHANGED <<plane, jobs, gate, life, aim, byes, turns, judged, displaced>>

Expected(s, got) == {e \in work[s].todo : e.of = got.of}

\* Wrong: whatever is in the session's slot goes.
MatchesSession(e, got) == TRUE

Matches(e, got) == e.key = got.key

\* The restore: a hard link, which never takes the place of a file.
Restored(there, got) == IF there = {} THEN {got} ELSE there

\* What is to be put back is the entry of a running plane, and the place is taken by
\* an entry of an earlier one, which another process has put back meanwhile.
FindsEarlier(got) ==
  /\ plane[got.of].at = "up" /\ plane[got.of].key = got.key /\ Whose(got) \notin judged
  /\ slot[got.of] # {} /\ Own(got.of) \notin {Whose(e) : e \in slot[got.of]}

\* The comparison, and the removal or the restore.
Settles(s) ==
  /\ \E got \in work[s].claim : \E e \in Expected(s, got) :
       /\ work' = [work EXCEPT ![s] = [todo |-> @.todo \ {e}, claim |-> {}]]
       /\ slot' = IF Matches(e, got) THEN slot ELSE [slot EXCEPT ![got.of] = Restored(@, got)]
       /\ displaced' = IF ~Matches(e, got) /\ FindsEarlier(got) THEN displaced \union {Whose(got)} ELSE displaced
  /\ UNCHANGED <<plane, jobs, gate, life, aim, byes, turns, judged>>

\* The link fails for good: the claimed file stays aside, under another name.
Quarantines(s) ==
  /\ \E got \in work[s].claim : \E e \in Expected(s, got) :
       /\ ~Matches(e, got) /\ judged' = judged \union {Whose(got)}
       /\ work' = [work EXCEPT ![s] = [todo |-> @.todo \ {e}, claim |-> {}]]
  /\ UNCHANGED <<slot, plane, jobs, gate, life, aim, byes, turns, displaced>>

\* A process that dies while it holds a claim leaves the claimed file aside.
Dies(s) ==
  /\ s \in Enders /\ life[s] # "dead"
  /\ life' = [life EXCEPT ![s] = "dead"] /\ At(s, "off")
  /\ jobs' = [jobs EXCEPT ![s] = <<>>] /\ work' = [work EXCEPT ![s] = NoWork]
  /\ aim' = [aim EXCEPT ![s] = {}] /\ judged' = judged \union {Whose(e) : e \in work[s].claim}
  /\ UNCHANGED <<slot, gate, byes, turns, displaced>>

PoolNext ==
  \/ \E s \in Sessions :
       \/ PersonaChanges(s) \/ Shutdown(s) \/ Transition(s) \/ Starts(s) \/ StartFails(s) \/ Closes(s)
       \/ Heartbeat(s) \/ Looks(s) \/ GrowsStale(s) \/ SendsTo(s) \/ Sent(s) \/ SendFails(s)
       \/ Settles(s) \/ Quarantines(s) \/ Dies(s)
       \/ \E e \in work[s].todo : Claims(s, e)
  \/ \E b \in byes : ByeArrives(b)

\* The promise chain of transitions, and the synchronous removals.
Queue(s) == Transition(s) \/ Starts(s) \/ StartFails(s) \/ Closes(s)
Removes(s) == Settles(s) \/ \E e \in work[s].todo : Claims(s, e)

\* The event loop gets to every ready callback (the interval of a running plane
\* and the promise chain included) however busy the session is; heartbeats age,
\* and synchronous removals end.
PoolFairness == \A s \in Sessions :
  SF_poolVars(Heartbeat(s)) /\ SF_poolVars(Queue(s)) /\ WF_poolVars(Removes(s)) /\ WF_poolVars(GrowsStale(s))

---------------------------------------------------------------------------
Older(s) == {e \in slot[s] : e.key # plane[s].key}
Vanished(s) == plane[s].at = "off" /\ jobs[s] = <<>>

\* hooks.ts:325: a session that was shut down ends without a plane, whatever
\* its start was doing when the shutdown came.
ShutdownLeavesNoPlane ==
  \A s \in Sessions : life[s] = "down" /\ jobs[s] = <<>> => plane[s].at = "off"

\* With no more than two sessions there is no third one to put an entry back.
TwoAtMost == \A s, t, u \in Sessions : s = t \/ t = u \/ s = u

\* registry.ts:277 removeEntryIfMatches: the entry of a running plane is in its
\* file, or held in a claim, unless somebody decided to remove that very entry, or
\* left it aside: a removal meant for an earlier plane of the session never takes it.
\* It may be dropped for an earlier one that was put back, but only where three
\* sessions are about.
EntriesAreSafe ==
  /\ \A s \in Sessions :
       plane[s].at = "up" /\ Own(s) \notin judged \union displaced =>
         Own(s) \in {Whose(e) : e \in slot[s] \union UNION {work[t].claim : t \in Sessions}}
  /\ TwoAtMost => displaced = {}

\* registry.ts:238, plane.ts:547: a session that keeps running is found again
\* and again under its own key, however often it is pruned, evicted or held in
\* a claim; and a plane that is gone disappears while another one runs.
PoolConverges == \A s \in Sessions :
  /\ <>[](plane[s].at = "up") => []<>(Own(s) \in slot[s]) /\ <>[](Older(s) = {})
  /\ (<>[]Vanished(s) /\ \E t \in Sessions : <>[](plane[t].at = "up")) => <>[](slot[s] = {})
====
