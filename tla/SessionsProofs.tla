---- MODULE SessionsProofs ----
(***************************************************************************)
(* What the sessions of a machine share, for any number of sessions,       *)
(* peers, messages, letters and waits.  Each part has its own inductive    *)
(* invariant, which holds in every part of a behaviour: a part at rest     *)
(* keeps the state it starts in.                                           *)
(***************************************************************************)
EXTENDS Sessions, SequenceTheorems, WellFoundedInduction, TLAPS

---------------------------------------------------------------------------
(* The queue of a session's transitions *)

Jobs == {"gate", "stop"}
QueueType ==
  /\ jobs \in [Sessions -> Seq(Jobs)]
  /\ plane \in [Sessions -> [at : {"off", "binding", "up", "closing"}, key : Int]]
  /\ life \in [Sessions -> {"on", "down", "dead"}]

\* A transition under way is at the head of the queue; after a shutdown the
\* stop it queued stays at the end until the plane is off.
StopAwaits(js) == js # <<>> /\ js[Len(js)] = "stop"
QueueServes(s) ==
  /\ plane[s].at = "closing" => jobs[s] # <<>>
  /\ plane[s].at = "binding" => jobs[s] # <<>> /\ Head(jobs[s]) = "gate"
  /\ life[s] = "down" => StopAwaits(jobs[s]) \/ (jobs[s] = <<>> /\ plane[s].at = "off")

\* What holds of the queues at any time.
QueueInv == QueueType /\ \A s \in Sessions : QueueServes(s)

\* What is appended to the queue, or taken off it, leaves the stop at its end.
LEMMA QueueEnds ==
  ASSUME NEW js \in Seq(Jobs)
  PROVE  /\ Append(js, "stop") \in Seq(Jobs) /\ StopAwaits(Append(js, "stop"))
         /\ Append(js, "gate") \in Seq(Jobs) /\ Append(js, "gate") # <<>>
         /\ js # <<>> => Tail(js) \in Seq(Jobs) /\ Head(Append(js, "gate")) = Head(js) /\ Head(Append(js, "stop")) = Head(js)
         /\ js # <<>> /\ StopAwaits(js) => Tail(js) = <<>> \/ StopAwaits(Tail(js))
         /\ js # <<>> /\ Head(js) = "gate" /\ StopAwaits(js) => StopAwaits(Tail(js))
<1>1. Len(js) \in Nat /\ \A i \in 1..Len(js) : js[i] \in Jobs OBVIOUS
<1>2. ASSUME js # <<>>, StopAwaits(js) PROVE Tail(js) = <<>> \/ StopAwaits(Tail(js))
  <2>1. Len(Tail(js)) = Len(js) - 1 /\ (Len(js) > 1 => Tail(js)[Len(Tail(js))] = js[Len(js)]) BY <1>1, <1>2
  <2> QED BY <1>1, <1>2, <2>1 DEF StopAwaits
<1>3. ASSUME js # <<>>, Head(js) = "gate", StopAwaits(js) PROVE Tail(js) # <<>>
  <2>1. js[1] = "gate" /\ js[Len(js)] = "stop" /\ Len(js) > 0 BY <1>1, <1>3 DEF StopAwaits
  <2>2. Len(js) > 1 BY <1>1, <2>1
  <2>3. Len(Tail(js)) # 0 BY <1>1, <2>2
  <2>4. Len(<<>>) = 0 OBVIOUS
  <2> QED BY <2>3, <2>4, Zenon
<1> QED BY <1>1, <1>2, <1>3 DEF StopAwaits, Jobs

\* Only one session's part changes.
LEMMA OneServes ==
  ASSUME QueueInv, QueueType', NEW s \in Sessions, QueueServes(s)',
         \A t \in Sessions \ {s} : jobs'[t] = jobs[t] /\ plane'[t] = plane[t] /\ life'[t] = life[t]
  PROVE  QueueInv'
BY DEF QueueInv, QueueServes

LEMMA QueueStarts == ASSUME NEW l \in {"on", "dead"}, Starting(l) PROVE QueueInv
BY DEF Starting, QueueInv, QueueType, QueueServes, Jobs

\* Whatever the persona, the start of a plane and its removals do, the queued stop is obeyed.
LEMMA QueueSteps == QueueInv /\ [PoolNext]_poolVars => QueueInv'
<1> SUFFICES ASSUME QueueInv, [PoolNext]_poolVars PROVE QueueInv' OBVIOUS
<1>0. QueueType BY DEF QueueInv
<1>1. ASSUME NEW s \in Sessions, PersonaChanges(s) PROVE QueueInv'
  <2>1. /\ jobs[s] \in Seq(Jobs) /\ jobs' = [jobs EXCEPT ![s] = Append(@, "gate")] /\ life[s] = "on"
        /\ plane' = plane /\ life' = life
    BY <1>0, <1>1 DEF QueueType, PersonaChanges
  <2>2. QueueType' BY <1>0, <2>1, QueueEnds DEF QueueType
  <2>3. QueueServes(s)' BY <1>0, <2>1, QueueEnds DEF QueueInv, QueueServes, QueueType
  <2> QED BY <1>0, <2>1, <2>2, <2>3, OneServes DEF QueueType
<1>2. ASSUME NEW s \in Sessions, Shutdown(s) PROVE QueueInv'
  <2>1. /\ jobs[s] \in Seq(Jobs) /\ jobs' = [jobs EXCEPT ![s] = Append(@, "stop")]
        /\ life' = [life EXCEPT ![s] = "down"] /\ plane' = plane
    BY <1>0, <1>2 DEF QueueType, Shutdown
  <2>2. QueueType' BY <1>0, <2>1, QueueEnds DEF QueueType
  <2>3. QueueServes(s)' BY <1>0, <2>1, QueueEnds DEF QueueInv, QueueServes, QueueType, StopAwaits
  <2> QED BY <1>0, <2>1, <2>2, <2>3, OneServes DEF QueueType
<1>3. ASSUME NEW s \in Sessions, Transition(s) PROVE QueueInv'
  <2>1. jobs[s] \in Seq(Jobs) /\ jobs[s] # <<>> /\ life' = life /\ plane[s].at \in {"off", "up"} /\ QueueServes(s)
    BY <1>0, <1>3 DEF QueueInv, QueueType, Transition, Runs
  <2>2. CASE MustStart(s) /\ jobs' = jobs /\ plane' = [plane EXCEPT ![s] = [at |-> "binding", key |-> @.key + 1]]
    <3>1. QueueType' BY <1>0, <2>1, <2>2 DEF QueueType
    <3>2. plane'[s].at = "binding" /\ Head(jobs[s]) = "gate" BY <1>0, <2>2 DEF QueueType, MustStart
    <3>3. QueueServes(s)' BY <2>1, <2>2, <3>2 DEF QueueServes
    <3> QED BY <1>0, <2>1, <2>2, <3>1, <3>3, OneServes DEF QueueType
  <2>3. CASE MustStop(s) /\ jobs' = jobs /\ At(s, "closing")
    <3>1. QueueType' BY <1>0, <2>1, <2>3 DEF QueueType, At
    <3>2. QueueServes(s)' BY <1>0, <2>1, <2>3 DEF QueueType, QueueServes, At, MustStop
    <3> QED BY <1>0, <2>1, <2>3, <3>1, <3>2, OneServes DEF QueueType, At
  <2>4. CASE ~MustStop(s) /\ Next1(s) /\ plane' = plane
    <3>1. QueueType' BY <1>0, <2>1, <2>4, QueueEnds DEF QueueType, Next1
    <3>2. jobs'[s] = Tail(jobs[s]) BY <1>0, <2>4 DEF QueueType, Next1
    <3>3. plane[s].at = "up" => Head(jobs[s]) = "gate" BY <2>1, <2>4 DEF MustStop, Jobs
    <3>4. QueueServes(s)' BY <2>1, <2>4, <3>2, <3>3, QueueEnds DEF QueueServes
    <3> QED BY <1>0, <2>1, <2>4, <3>1, <3>4, OneServes DEF QueueType, Next1
  <2> QED BY <1>3, <2>2, <2>3, <2>4 DEF Transition
<1>4. ASSUME NEW s \in Sessions, Starts(s) \/ StartFails(s) \/ Closes(s) PROVE QueueInv'
  <2>1. /\ jobs[s] \in Seq(Jobs) /\ jobs[s] # <<>> /\ QueueServes(s) /\ life' = life
        /\ jobs' = [jobs EXCEPT ![s] = Tail(@)]
    BY <1>0, <1>4 DEF QueueInv, QueueServes, QueueType, Starts, StartFails, Closes, Runs, Next1
  <2>2. /\ plane' = [plane EXCEPT ![s].at = "up"] /\ plane[s].at = "binding"
        \/ plane' = [plane EXCEPT ![s].at = "off"]
    BY <1>4 DEF Starts, StartFails, Closes, Runs, At
  <2>3. QueueType' BY <1>0, <2>1, <2>2, QueueEnds DEF QueueType
  <2>4. jobs'[s] = Tail(jobs[s]) BY <1>0, <2>1 DEF QueueType
  <2>5. (plane'[s].at = "up" /\ plane[s].at = "binding") \/ plane'[s].at = "off" BY <1>0, <2>2 DEF QueueType
  <2>6. QueueServes(s)' BY <2>1, <2>4, <2>5, QueueEnds DEF QueueServes
  <2> QED BY <1>0, <2>1, <2>2, <2>3, <2>6, OneServes DEF QueueType
<1>5. ASSUME NEW s \in Sessions, Dies(s) PROVE QueueInv'
  <2>1. /\ life' = [life EXCEPT ![s] = "dead"] /\ plane' = [plane EXCEPT ![s].at = "off"]
        /\ jobs' = [jobs EXCEPT ![s] = <<>>]
    BY <1>5 DEF Dies, At
  <2>2. QueueType'
    <3>1. <<>> \in Seq(Jobs) OBVIOUS
    <3> QED BY <1>0, <2>1, <3>1 DEF QueueType
  <2>3. QueueServes(s)' BY <1>0, <2>1 DEF QueueType, QueueServes
  <2> QED BY <1>0, <2>1, <2>2, <2>3, OneServes DEF QueueType
<1>6. ASSUME UNCHANGED <<jobs, plane, life>> PROVE QueueInv'
  BY <1>6 DEF QueueInv, QueueType, QueueServes
<1>7. ASSUME NEW s \in Sessions,
             Heartbeat(s) \/ Looks(s) \/ GrowsStale(s) \/ SendsTo(s) \/ Sent(s) \/ SendFails(s) \/ Settles(s)
             \/ Quarantines(s) \/ \E e \in work[s].todo : Claims(s, e)
      PROVE  UNCHANGED <<jobs, plane, life>>
  BY <1>7 DEF Heartbeat, Looks, GrowsStale, SendsTo, Sent, SendFails, Settles, Quarantines, Claims
<1>8. ASSUME NEW b \in byes, ByeArrives(b) PROVE UNCHANGED <<jobs, plane, life>> BY <1>8 DEF ByeArrives
<1>9. CASE UNCHANGED poolVars BY <1>6, <1>9 DEF poolVars
<1> QED BY <1>1, <1>2, <1>3, <1>4, <1>5, <1>6, <1>7, <1>8, <1>9 DEF PoolNext

LEMMA QueueIsObeyed == QueueInv => ShutdownLeavesNoPlane
BY DEF QueueInv, QueueServes, StopAwaits, ShutdownLeavesNoPlane

---------------------------------------------------------------------------
(* Entries *)

PoolEntries == [of : Sessions, key : Int, fresh : BOOLEAN]

\* Removals are of entries somebody decided to remove; only other sessions'
\* entries are sent to, and only other sessions say goodbye.
SlotsTyped ==
  /\ slot \in [Sessions -> SUBSET PoolEntries]
  /\ \A s \in Sessions : slot[s] = {} \/ \E e \in PoolEntries : slot[s] = {e} /\ e.of = s
PlanesTyped == plane \in [Sessions -> [at : {"off", "binding", "up", "closing"}, key : Int]]
WorkTyped ==
  /\ work \in [Sessions -> [todo : SUBSET PoolEntries, claim : SUBSET PoolEntries]]
  /\ \A s \in Sessions : work[s].todo \subseteq judged /\ \A e \in work[s].todo : e = Whose(e)
  /\ \A s \in Sessions : work[s].claim = {} \/ \E e \in PoolEntries : work[s].claim = {e}
PeersTyped ==
  /\ aim \in [Sessions -> SUBSET PoolEntries]
  /\ \A s \in Sessions : \A e \in aim[s] : e.of # s /\ e = Whose(e)
  /\ \A b \in byes : b.to \in Sessions /\ b.from \in PoolEntries /\ b.from.of # b.to
EntryType == SlotsTyped /\ PlanesTyped /\ WorkTyped /\ PeersTyped

OfPlane(e, s) == e.of = s /\ e.key = plane[s].key

\* The entry of a running plane is in its file, or claimed.
Held(s) ==
  \/ \E e \in slot[s] : OfPlane(e, s)
  \/ \E o \in Sessions : \E e \in work[o].claim : OfPlane(e, s)
EntriesHeld == \A s \in Sessions : plane[s].at = "up" /\ Own(s) \notin judged \union displaced => Held(s)

\* With two sessions: a claimed entry has left its file empty, and the session
\* itself removes no entry of its own.
Safe(s) ==
  /\ \A e \in work[s].todo \union work[s].claim : e.of # s
  /\ \/ \E e \in slot[s] : OfPlane(e, s)
     \/ slot[s] = {} /\ \E o \in Sessions \ {s} : \E e \in work[o].claim : OfPlane(e, s)
EntriesSafe == \A s \in Sessions : plane[s].at = "up" /\ Own(s) \notin judged => Safe(s)

EntriesInv == EntryType /\ EntriesHeld /\ (TwoAtMost => displaced = {} /\ EntriesSafe)

LEMMA WhoseIsTyped ==
  ASSUME NEW e \in PoolEntries
  PROVE  Whose(e) \in PoolEntries /\ Whose(e).of = e.of /\ Whose(e).key = e.key /\ Whose(Whose(e)) = Whose(e)
BY DEF Whose, OwnEntry, PoolEntries

LEMMA OwnIsTyped ==
  ASSUME EntryType, NEW s \in Sessions
  PROVE  Own(s) \in PoolEntries /\ Own(s).of = s /\ Own(s).key = plane[s].key /\ Own(s) = Whose(Own(s))
BY DEF EntryType, PlanesTyped, Own, Whose, OwnEntry, PoolEntries

\* What a step needs that forgives nobody: in each session no plane is up after it,
\* or its entry is in its file, or what was so of its entry stays so.
LEMMA EachStays ==
  ASSUME EntriesInv, EntryType', judged \subseteq judged', displaced \subseteq displaced',
         TwoAtMost => displaced' = {},
         \A s \in Sessions :
           \/ plane'[s].at # "up"
           \/ (\E e \in slot'[s] : e.of = s /\ e.key = plane'[s].key) /\ (TwoAtMost => Safe(s)')
           \/ /\ plane'[s] = plane[s]
              /\ Own(s) \notin judged' \union displaced' /\ Held(s) => Held(s)'
              /\ TwoAtMost /\ Own(s) \notin judged' /\ Safe(s) => Safe(s)'
  PROVE  EntriesInv'
<1>1. ASSUME NEW s \in Sessions, plane'[s].at = "up", Own(s)' \notin judged' \union displaced' PROVE Held(s)'
  <2>1. CASE \E e \in slot'[s] : e.of = s /\ e.key = plane'[s].key
    BY <2>1 DEF Held, OfPlane
  <2>2. CASE plane'[s] = plane[s] /\ (Own(s) \notin judged' \union displaced' /\ Held(s) => Held(s)')
    <3>1. Own(s)' = Own(s)
      BY <2>2 DEF Own
    <3>2. Held(s)
      BY <1>1, <2>2, <3>1 DEF EntriesInv, EntriesHeld
    <3> QED BY <1>1, <2>2, <3>1, <3>2
  <2> QED BY <1>1, <2>1, <2>2
<1>2. ASSUME TwoAtMost, NEW s \in Sessions, plane'[s].at = "up", Own(s)' \notin judged' PROVE Safe(s)'
  <2>1. CASE plane'[s] = plane[s] /\ (Own(s) \notin judged' /\ Safe(s) => Safe(s)')
    <3>1. Own(s)' = Own(s)
      BY <2>1 DEF Own
    <3>2. Safe(s)
      BY <1>2, <2>1, <3>1 DEF EntriesInv, EntriesSafe
    <3> QED BY <1>2, <2>1, <3>1, <3>2
  <2> QED BY <1>2, <2>1
<1>3. TwoAtMost' <=> TwoAtMost
  BY DEF TwoAtMost
<1> QED BY <1>1, <1>2, <1>3 DEF EntriesInv, EntriesHeld, EntriesSafe

\* A step that changes none of the files, the claims and the removals.
LEMMA FilesStay ==
  ASSUME EntriesInv, EntryType', UNCHANGED <<slot, work, displaced>>, judged \subseteq judged',
         \A s \in Sessions : plane'[s] = plane[s] \/ plane'[s].at # "up"
  PROVE  EntriesInv'
<1>1. \A s \in Sessions : plane'[s] = plane[s] => (Held(s) => Held(s)') /\ (Safe(s) => Safe(s)')
  BY DEF Held, Safe, OfPlane
<1>2. TwoAtMost => displaced' = {}
  BY DEF EntriesInv
<1> QED BY <1>1, <1>2, EachStays

\* prune, listPeers, a failed send, a goodbye: an idle session sets out to
\* remove what it has read, entries of its own only if they are judged.
LEMMA SettingOut ==
  ASSUME EntriesInv, NEW s \in Sessions, work[s] = NoWork, NEW entries \in SUBSET PoolEntries, SetsOut(s, entries),
         \A e \in entries : e = Whose(e) /\ (TwoAtMost /\ e.of = s => plane'[s].at # "up" \/ Own(s) \in judged \/ e = Own(s)),
         \A t \in Sessions \ {s} : plane'[t] = plane[t], plane'[s] = plane[s] \/ plane'[s].at # "up",
         plane' \in [Sessions -> [at : {"off", "binding", "up", "closing"}, key : Int]],
         UNCHANGED <<slot, displaced>>, aim' \in [Sessions -> SUBSET PoolEntries], \A t \in Sessions : aim'[t] \subseteq aim[t],
         byes' \subseteq byes
  PROVE  EntriesInv'
<1>1. EntryType /\ work \in [Sessions -> [todo : SUBSET PoolEntries, claim : SUBSET PoolEntries]]
  BY DEF EntriesInv, EntryType, SlotsTyped, WorkTyped, PlanesTyped
<1>2. /\ work' = [work EXCEPT ![s].todo = entries] /\ judged' = judged \union entries
      /\ work[s].claim = {}
  BY DEF SetsOut, NoWork
<1>3. /\ work'[s].todo = entries /\ work'[s].claim = {} /\ \A t \in Sessions \ {s} : work'[t] = work[t]
      /\ work' \in [Sessions -> [todo : SUBSET PoolEntries, claim : SUBSET PoolEntries]]
  BY <1>1, <1>2
<1>4. EntryType'
  <2>1. SlotsTyped' /\ PlanesTyped'
    BY <1>1 DEF EntryType, SlotsTyped, PlanesTyped
  <2>2. WorkTyped'
    BY <1>1, <1>2, <1>3 DEF EntryType, WorkTyped
  <2>3. PeersTyped'
    BY <1>1 DEF EntryType, PeersTyped
  <2> QED BY <2>1, <2>2, <2>3 DEF EntryType
<1>5. \A o \in Sessions : work'[o].claim = work[o].claim
  BY <1>2, <1>3
<1>6. ASSUME NEW t \in Sessions, plane'[t] = plane[t], plane[t].at = "up"
      PROVE  (Held(t) => Held(t)') /\ (TwoAtMost /\ Own(t) \notin judged' /\ Safe(t) => Safe(t)')
  <2>1. Held(t) => Held(t)'
    BY <1>5, <1>6 DEF Held, OfPlane
  <2>2. ASSUME TwoAtMost, Own(t) \notin judged', Safe(t) PROVE Safe(t)'
    <3>1. \A e \in work'[t].todo \union work'[t].claim : e.of # t
      BY <1>2, <1>3, <1>6, <2>2 DEF Safe
    <3> QED BY <1>5, <1>6, <2>2, <3>1 DEF Safe, OfPlane
  <2> QED BY <2>1, <2>2
<1>7. \A t \in Sessions : plane'[t] = plane[t] \/ plane'[t].at # "up"
  OBVIOUS
<1>8. (TwoAtMost => displaced' = {}) /\ judged \subseteq judged'
  BY <1>2 DEF EntriesInv
<1> QED BY <1>4, <1>6, <1>7, <1>8, EachStays

\* A running session writes its entry, and removes only what others left.
LEMMA Written ==
  ASSUME EntriesInv, NEW s \in Sessions, work[s] = NoWork, plane[s].at \in {"binding", "up"},
         Writes(s), Prunes(s, Listed \ slot[s]), UNCHANGED <<aim, byes, displaced>>,
         plane' = plane \/ plane' = [plane EXCEPT ![s].at = "up"]
  PROVE  EntriesInv'
<1> DEFINE entries == {Whose(e) : e \in {x \in Listed \ slot[s] : Gone(x)}}
<1>1. /\ EntryType /\ work \in [Sessions -> [todo : SUBSET PoolEntries, claim : SUBSET PoolEntries]]
      /\ slot \in [Sessions -> SUBSET PoolEntries]
      /\ plane \in [Sessions -> [at : {"off", "binding", "up", "closing"}, key : Int]]
  BY DEF EntriesInv, EntryType, SlotsTyped, WorkTyped, PlanesTyped
<1>2. \A e \in Listed \ slot[s] : e \in PoolEntries /\ e.of # s
  <2>1. \A t \in Sessions : \A e \in slot[t] : e \in PoolEntries /\ e.of = t
    BY <1>1 DEF EntryType, SlotsTyped
  <2> QED BY <2>1 DEF Listed
<1>3. \A e \in entries : e \in PoolEntries /\ e.of # s /\ e = Whose(e)
  BY <1>2, WhoseIsTyped
<1>4. work' = [work EXCEPT ![s].todo = entries] /\ judged' = judged \union entries /\ work[s].claim = {}
  BY DEF Prunes, SetsOut, NoWork
<1> HIDE DEF entries
<1>5. /\ work'[s].todo = entries /\ work'[s].claim = {} /\ \A t \in Sessions \ {s} : work'[t] = work[t]
      /\ work' \in [Sessions -> [todo : SUBSET PoolEntries, claim : SUBSET PoolEntries]]
      /\ \A t \in Sessions : work'[t].claim = work[t].claim
  BY <1>1, <1>3, <1>4
<1>6. Own(s) \in PoolEntries /\ Own(s).of = s /\ Own(s).key = plane[s].key
  BY <1>1, OwnIsTyped
<1>7. slot'[s] = {Own(s)} /\ (\A t \in Sessions \ {s} : slot'[t] = slot[t]) /\ slot' \in [Sessions -> SUBSET PoolEntries]
  BY <1>1, <1>6 DEF Writes
<1>8. /\ plane' \in [Sessions -> [at : {"off", "binding", "up", "closing"}, key : Int]]
      /\ (\A t \in Sessions \ {s} : plane'[t] = plane[t]) /\ plane'[s].key = plane[s].key
  BY <1>1
<1>9. EntryType'
  <2>1. SlotsTyped'
    BY <1>1, <1>6, <1>7 DEF EntryType, SlotsTyped
  <2>2. PlanesTyped' /\ PeersTyped'
    BY <1>1, <1>8 DEF EntryType, PeersTyped, PlanesTyped
  <2>3. WorkTyped'
    BY <1>1, <1>3, <1>4, <1>5 DEF EntryType, WorkTyped
  <2> QED BY <2>1, <2>2, <2>3 DEF EntryType
<1>10. (\E e \in slot'[s] : e.of = s /\ e.key = plane'[s].key) /\ Safe(s)'
  BY <1>3, <1>5, <1>6, <1>7, <1>8 DEF Safe, OfPlane
<1>11. \A t \in Sessions \ {s} : (Held(t) => Held(t)') /\ (Safe(t) => Safe(t)')
  <2>1. \A t \in Sessions \ {s} : Held(t) => Held(t)'
    BY <1>5, <1>7, <1>8 DEF Held, OfPlane
  <2>2. \A t \in Sessions \ {s} : Safe(t) => Safe(t)'
    BY <1>5, <1>7, <1>8 DEF Safe, OfPlane
  <2> QED BY <2>1, <2>2
<1>12. (TwoAtMost => displaced' = {}) /\ judged \subseteq judged'
  BY <1>4 DEF EntriesInv
<1> QED BY <1>8, <1>9, <1>10, <1>11, <1>12, EachStays

\* The rename: what was in the file is in the claim.
LEMMA Claimed ==
  ASSUME EntriesInv, NEW s \in Sessions, NEW e \in work[s].todo, Claims(s, e)
  PROVE  EntriesInv'
<1>1. /\ EntryType /\ work \in [Sessions -> [todo : SUBSET PoolEntries, claim : SUBSET PoolEntries]]
      /\ slot \in [Sessions -> SUBSET PoolEntries] /\ plane' = plane
      /\ judged' = judged /\ displaced' = displaced /\ aim' = aim /\ byes' = byes
  BY DEF EntriesInv, EntryType, SlotsTyped, WorkTyped, Claims
<1>2. e \in PoolEntries /\ e.of \in Sessions /\ work[s].claim = {}
  BY <1>1 DEF Claims, PoolEntries
<1>3. slot'[e.of] = {} /\ (\A t \in Sessions \ {e.of} : slot'[t] = slot[t]) /\ slot' \in [Sessions -> SUBSET PoolEntries]
  BY <1>1, <1>2 DEF Claims
<1>4. /\ work'[s].todo \subseteq work[s].todo /\ work'[s].claim = slot[e.of]
      /\ \A t \in Sessions \ {s} : work'[t] = work[t]
      /\ work' \in [Sessions -> [todo : SUBSET PoolEntries, claim : SUBSET PoolEntries]]
  <2>1. CASE slot[e.of] = {}
    <3>1. work' = [work EXCEPT ![s].todo = @ \ {e}]
      BY <2>1 DEF Claims
    <3> QED BY <1>1, <1>2, <2>1, <3>1
  <2>2. CASE slot[e.of] # {}
    <3>1. work' = [work EXCEPT ![s].claim = slot[e.of]]
      BY <2>2 DEF Claims
    <3> QED BY <1>1, <1>2, <3>1
  <2> QED BY <2>1, <2>2
<1>5. EntryType'
  <2>1. SlotsTyped'
    BY <1>1, <1>2, <1>3 DEF EntryType, SlotsTyped
  <2>2. PlanesTyped' /\ PeersTyped'
    BY <1>1 DEF EntryType, PeersTyped, PlanesTyped
  <2>3. slot[e.of] = {} \/ \E f \in PoolEntries : slot[e.of] = {f}
    BY <1>1, <1>2 DEF EntryType, SlotsTyped
  <2>4. WorkTyped'
    BY <1>1, <1>2, <1>4, <2>3 DEF EntryType, WorkTyped
  <2> QED BY <2>1, <2>2, <2>4 DEF EntryType
<1>6. ASSUME NEW t \in Sessions, Held(t) PROVE Held(t)'
  <2>1. CASE \E f \in slot[t] : OfPlane(f, t)
    <3>1. CASE t = e.of
      BY <1>1, <1>4, <2>1, <3>1 DEF Held, OfPlane
    <3>2. CASE t # e.of
      BY <1>1, <1>3, <2>1, <3>2 DEF Held, OfPlane
    <3> QED BY <3>1, <3>2
  <2>2. CASE \E o \in Sessions : \E f \in work[o].claim : OfPlane(f, t)
    <3>1. \A o \in Sessions : work[o].claim \subseteq work'[o].claim
      BY <1>2, <1>4
    <3> QED BY <1>1, <2>2, <3>1 DEF Held, OfPlane
  <2> QED BY <1>6, <2>1, <2>2 DEF Held
<1>7. ASSUME TwoAtMost, NEW t \in Sessions PROVE Safe(t) => Safe(t)'
  <2> SUFFICES ASSUME Safe(t) PROVE Safe(t)'
    OBVIOUS
  <2>1. \A f \in slot[e.of] : f.of = e.of
    BY <1>1, <1>2 DEF EntryType, SlotsTyped
  <2>2. t = s => e.of # t
    BY DEF Safe
  <2>3. \A f \in work'[t].todo \union work'[t].claim : f.of # t
    BY <1>4, <2>1, <2>2 DEF Safe
  <2>4. CASE e.of # t
    <3>1. slot'[t] = slot[t]
      BY <1>3, <2>4
    <3>2. CASE \E f \in slot[t] : OfPlane(f, t)
      BY <1>1, <2>3, <3>1, <3>2 DEF Safe, OfPlane
    <3>3. ASSUME slot[t] = {}, NEW o \in Sessions \ {t}, NEW f \in work[o].claim, OfPlane(f, t) PROVE Safe(t)'
      <4>1. o # s
        BY <1>2, <3>3
      <4> QED BY <1>1, <1>4, <2>3, <3>1, <3>3, <4>1 DEF Safe, OfPlane
    <3> QED BY <3>2, <3>3 DEF Safe
  <2>5. CASE e.of = t
    <3>1. s # t
      BY <2>2, <2>5
    <3>2. \A o \in Sessions \ {t} : work[o].claim = {}
      BY <1>2, <1>7, <3>1 DEF TwoAtMost
    <3>3. PICK f \in slot[t] : OfPlane(f, t)
      BY <3>2 DEF Safe
    <3>4. f \in work'[s].claim /\ slot'[t] = {}
      BY <1>3, <1>4, <2>5, <3>3
    <3> QED BY <1>1, <2>3, <3>1, <3>3, <3>4 DEF Safe, OfPlane
  <2> QED BY <2>4, <2>5
<1>8. TwoAtMost => displaced' = {}
  BY <1>1 DEF EntriesInv
<1> QED BY <1>1, <1>5, <1>6, <1>7, <1>8, EachStays

\* The comparison: the entry that is deleted was judged, and one that is
\* restored finds its file as it left it, or the session's own in it.  With a third
\* session it may find an earlier one, and then it is displaced.
LEMMA Settled ==
  ASSUME EntriesInv, NEW s \in Sessions, Settles(s) \/ Quarantines(s)
  PROVE  EntriesInv'
<1>1. /\ EntryType /\ work \in [Sessions -> [todo : SUBSET PoolEntries, claim : SUBSET PoolEntries]]
      /\ slot \in [Sessions -> SUBSET PoolEntries] /\ plane' = plane /\ judged \subseteq judged' /\ aim' = aim /\ byes' = byes
  BY DEF EntriesInv, EntryType, SlotsTyped, WorkTyped, Settles, Quarantines
<1> DEFINE How(got, e) ==
      /\ work' = [work EXCEPT ![s] = [todo |-> @.todo \ {e}, claim |-> {}]]
      /\ \/ Matches(e, got) /\ slot' = slot /\ displaced' = displaced
         \/ ~Matches(e, got) /\ slot' = slot /\ Whose(got) \in judged' /\ displaced' = displaced
         \/ /\ ~Matches(e, got) /\ slot' = [slot EXCEPT ![got.of] = Restored(@, got)]
            /\ displaced' = IF FindsEarlier(got) THEN displaced \union {Whose(got)} ELSE displaced
<1>2. PICK got \in work[s].claim : \E e \in Expected(s, got) : How(got, e)
  BY DEF Settles, Quarantines
<1>0. PICK e \in Expected(s, got) : How(got, e)
  BY <1>2
<1>3. /\ got \in PoolEntries /\ got.of \in Sessions /\ work[s].claim = {got} /\ e \in work[s].todo /\ e.of = got.of
      /\ e \in judged /\ e = Whose(e)
  BY <1>1, <1>0 DEF EntryType, WorkTyped, PoolEntries, Expected
<1>4. /\ work'[s].todo \subseteq work[s].todo /\ work'[s].claim = {} /\ \A t \in Sessions \ {s} : work'[t] = work[t]
      /\ work' \in [Sessions -> [todo : SUBSET PoolEntries, claim : SUBSET PoolEntries]]
  BY <1>1, <1>0
<1>5. /\ slot' \in [Sessions -> SUBSET PoolEntries] /\ \A t \in Sessions \ {got.of} : slot'[t] = slot[t]
      /\ slot'[got.of] = slot[got.of] \/ (slot[got.of] = {} /\ slot'[got.of] = {got})
  BY <1>1, <1>0, <1>3 DEF Restored
<1>6. EntryType'
  <2>1. SlotsTyped'
    BY <1>1, <1>3, <1>5 DEF EntryType, SlotsTyped
  <2>2. PlanesTyped' /\ PeersTyped'
    BY <1>1 DEF EntryType, PeersTyped, PlanesTyped
  <2>3. WorkTyped'
    BY <1>1, <1>3, <1>4 DEF EntryType, WorkTyped
  <2> QED BY <2>1, <2>2, <2>3 DEF EntryType
<1>7. displaced \subseteq displaced' /\ (displaced' = displaced \/ (FindsEarlier(got) /\ displaced' = displaced \union {Whose(got)}))
  BY <1>0
<1>8. ASSUME NEW t \in Sessions, OfPlane(got, t), Own(t) \notin judged'
      PROVE  Whose(got) = Own(t) /\ slot' = [slot EXCEPT ![t] = Restored(@, got)] /\ ~Matches(e, got)
  <2>1. Whose(got) = Own(t) /\ got.of = t
    BY <1>8 DEF Whose, Own, OfPlane
  <2>2. e.key = got.key => Whose(e) = Own(t)
    BY <1>3, <1>8 DEF Whose, Own, OfPlane
  <2>3. ~Matches(e, got)
    BY <1>1, <1>3, <1>8, <2>2 DEF Matches
  <2> QED BY <1>0, <1>8, <2>1, <2>3
<1>9. ASSUME NEW t \in Sessions, plane[t].at = "up", Own(t) \notin judged' \union displaced', Held(t) PROVE Held(t)'
  <2>1. CASE \E f \in slot[t] : OfPlane(f, t)
    BY <1>1, <1>5, <2>1 DEF Held, OfPlane
  <2>2. ASSUME NEW o \in Sessions \ {s}, NEW f \in work[o].claim, OfPlane(f, t) PROVE Held(t)'
    BY <1>1, <1>4, <2>2 DEF Held, OfPlane
  <2>3. CASE OfPlane(got, t)
    <3>1. Whose(got) = Own(t) /\ slot' = [slot EXCEPT ![t] = Restored(@, got)] /\ ~Matches(e, got) /\ got.of = t
      BY <1>8, <1>9, <2>3 DEF OfPlane
    <3>2. CASE slot[t] = {}
      <4>1. got \in slot'[t]
        BY <1>1, <3>1, <3>2 DEF Restored
      <4> QED BY <1>1, <2>3, <4>1 DEF Held, OfPlane
    <3>3. CASE slot[t] # {}
      <4>1. ~FindsEarlier(got)
        BY <1>0, <1>9, <3>1
      <4>2. Own(t) \in {Whose(f) : f \in slot[t]}
        BY <1>1, <1>9, <2>3, <3>1, <3>3, <4>1 DEF FindsEarlier, OfPlane
      <4>3. PICK f \in slot[t] : Whose(f) = Own(t)
        BY <4>2
      <4>4. OfPlane(f, t)
        BY <4>3 DEF Whose, Own, OwnEntry, OfPlane
      <4> QED BY <2>1, <4>4
    <3> QED BY <3>2, <3>3
  <2> QED BY <1>3, <1>9, <2>1, <2>2, <2>3 DEF Held
<1>10. ASSUME TwoAtMost, NEW t \in Sessions, Own(t) \notin judged', Safe(t) PROVE Safe(t)'
  <2>1. \A f \in work'[t].todo \union work'[t].claim : f.of # t
    BY <1>4, <1>10 DEF Safe
  <2>2. CASE \E f \in slot[t] : OfPlane(f, t)
    BY <1>1, <1>5, <2>1, <2>2 DEF Safe, OfPlane
  <2>3. ASSUME slot[t] = {}, NEW o \in Sessions \ {t}, NEW f \in work[o].claim, OfPlane(f, t) PROVE Safe(t)'
    <3>1. CASE o = s
      <4>1. f = got
        BY <1>3, <2>3, <3>1
      <4>2. slot' = [slot EXCEPT ![t] = Restored(@, got)]
        BY <1>8, <1>10, <2>3, <4>1
      <4>3. got \in slot'[t]
        BY <1>1, <2>3, <4>2 DEF Restored
      <4> QED BY <1>1, <2>1, <2>3, <4>1, <4>3 DEF Safe, OfPlane
    <3>2. CASE o # s
      <4>1. s = t
        BY <1>10, <2>3, <3>2 DEF TwoAtMost
      <4>2. got.of # t
        BY <1>3, <1>10, <4>1 DEF Safe
      <4>3. slot'[t] = {} /\ f \in work'[o].claim
        BY <1>4, <1>5, <2>3, <3>2, <4>2
      <4> QED BY <1>1, <2>1, <2>3, <4>3 DEF Safe, OfPlane
    <3> QED BY <3>1, <3>2
  <2> QED BY <1>10, <2>2, <2>3 DEF Safe
<1>11. ASSUME TwoAtMost PROVE ~FindsEarlier(got)
  <2> SUFFICES ASSUME FindsEarlier(got) PROVE FALSE
    OBVIOUS
  <2>1. PICK t \in Sessions : t = got.of
    BY <1>3
  <2>2. OfPlane(got, t) /\ plane[t].at = "up" /\ slot[t] # {} /\ Own(t) \notin {Whose(f) : f \in slot[t]}
    BY <2>1 DEF FindsEarlier, OfPlane
  <2>3. Whose(got) = Own(t) /\ Whose(got) \notin judged
    BY <2>2 DEF Whose, Own, OfPlane, FindsEarlier
  <2>4. Safe(t)
    BY <1>11, <2>2, <2>3 DEF EntriesInv, EntriesSafe
  <2>5. PICK f \in slot[t] : OfPlane(f, t)
    BY <2>2, <2>4 DEF Safe
  <2>6. Whose(f) = Own(t)
    BY <2>5 DEF Whose, Own, OfPlane
  <2> QED BY <2>2, <2>5, <2>6
<1>12. TwoAtMost => displaced' = {}
  BY <1>7, <1>11 DEF EntriesInv
<1> QED BY <1>1, <1>6, <1>7, <1>9, <1>10, <1>12, EachStays

\* A session that dies leaves what it held aside.
LEMMA Died ==
  ASSUME EntriesInv, NEW s \in Sessions, Dies(s)
  PROVE  EntriesInv'
<1>1. /\ EntryType /\ work \in [Sessions -> [todo : SUBSET PoolEntries, claim : SUBSET PoolEntries]]
      /\ plane \in [Sessions -> [at : {"off", "binding", "up", "closing"}, key : Int]] /\ aim \in [Sessions -> SUBSET PoolEntries]
  BY DEF EntriesInv, EntryType, WorkTyped, PlanesTyped, PeersTyped
<1>2. /\ plane' = [plane EXCEPT ![s].at = "off"] /\ work' = [work EXCEPT ![s] = NoWork] /\ slot' = slot
      /\ aim' = [aim EXCEPT ![s] = {}] /\ byes' = byes /\ judged' = judged \union {Whose(e) : e \in work[s].claim}
  BY DEF Dies, At
<1>3. /\ work'[s].todo = {} /\ work'[s].claim = {} /\ \A t \in Sessions \ {s} : work'[t] = work[t]
      /\ work' \in [Sessions -> [todo : SUBSET PoolEntries, claim : SUBSET PoolEntries]]
  BY <1>1, <1>2 DEF NoWork
<1>4. EntryType'
  <2>0. SlotsTyped' /\ PlanesTyped'
    BY <1>1, <1>2 DEF EntryType, SlotsTyped, PlanesTyped
  <2>1. PeersTyped'
    BY <1>1, <1>2 DEF EntryType, PeersTyped
  <2>2. WorkTyped'
    BY <1>1, <1>2, <1>3 DEF EntryType, WorkTyped
  <2> QED BY <2>0, <2>1, <2>2 DEF EntryType
<1>5. plane'[s].at # "up"
  BY <1>2 DEF EntriesInv, EntryType, PlanesTyped
<1>6. ASSUME NEW t \in Sessions \ {s}, Own(t) \notin judged'
      PROVE  /\ plane'[t] = plane[t] /\ work'[t] = work[t]
             /\ \A o \in Sessions : \A f \in work[o].claim : OfPlane(f, t) => o # s /\ f \in work'[o].claim
  <2>1. plane'[t] = plane[t] /\ work'[t] = work[t]
    BY <1>1, <1>2, <1>3
  <2>2. \A f \in work[s].claim : ~OfPlane(f, t)
    BY <1>2, <1>6 DEF Whose, Own, OfPlane
  <2> QED BY <1>3, <2>1, <2>2
<1>7. ASSUME NEW t \in Sessions \ {s}, Own(t) \notin judged' PROVE Held(t) => Held(t)'
  BY <1>2, <1>6, <1>7 DEF Held, OfPlane
<1>8. ASSUME NEW t \in Sessions \ {s}, Own(t) \notin judged' PROVE Safe(t) => Safe(t)'
  <2> SUFFICES ASSUME Safe(t) PROVE Safe(t)'
    OBVIOUS
  <2>1. plane'[t] = plane[t] /\ work'[t] = work[t]
    BY <1>6, <1>8
  <2>2. CASE \E f \in slot[t] : OfPlane(f, t)
    BY <1>2, <2>1, <2>2 DEF Safe, OfPlane
  <2>3. ASSUME slot[t] = {}, NEW o \in Sessions \ {t}, NEW f \in work[o].claim, OfPlane(f, t) PROVE Safe(t)'
    <3>1. f \in work'[o].claim
      BY <1>6, <1>8, <2>3
    <3> QED BY <1>2, <2>1, <2>3, <3>1 DEF Safe, OfPlane
  <2> QED BY <2>2, <2>3 DEF Safe
<1>9. /\ \A t \in Sessions \ {s} : plane'[t] = plane[t]
      /\ judged \subseteq judged' /\ displaced \subseteq displaced' /\ (TwoAtMost => displaced' = {})
  BY <1>1, <1>2 DEF EntriesInv, Dies
<1> QED BY <1>4, <1>5, <1>7, <1>8, <1>9, EachStays

\* A heartbeat is missed: the entry is as it was, and old.
LEMMA Aged ==
  ASSUME EntriesInv, NEW s \in Sessions, GrowsStale(s)
  PROVE  EntriesInv'
<1>1. /\ EntryType /\ slot \in [Sessions -> SUBSET PoolEntries] /\ UNCHANGED <<plane, work, aim, byes, judged, displaced>>
      /\ slot' = [slot EXCEPT ![s] = {[e EXCEPT !.fresh = FALSE] : e \in @}]
  BY DEF EntriesInv, EntryType, SlotsTyped, GrowsStale
<1>2. PICK e \in PoolEntries : slot[s] = {e} /\ e.of = s
  BY DEF EntriesInv, EntryType, SlotsTyped, GrowsStale
<1>3. PICK f : f = [e EXCEPT !.fresh = FALSE]
  OBVIOUS
<1>4. f \in PoolEntries /\ f.of = s /\ f.key = e.key
  BY <1>2, <1>3 DEF PoolEntries
<1>5. slot'[s] = {f} /\ \A t \in Sessions \ {s} : slot'[t] = slot[t]
  BY <1>1, <1>2, <1>3
<1>6. slot' \in [Sessions -> SUBSET PoolEntries]
  BY <1>1, <1>4, <1>5
<1>7. EntryType'
  <2>1. SlotsTyped'
    BY <1>1, <1>4, <1>5, <1>6 DEF EntryType, SlotsTyped
  <2> QED BY <1>1, <2>1 DEF EntryType, PlanesTyped, WorkTyped, PeersTyped
<1>8. \A t \in Sessions : (\E x \in slot[t] : OfPlane(x, t)) <=> \E x \in slot'[t] : OfPlane(x, t)
  <2>1. (\E x \in slot[s] : OfPlane(x, s)) <=> OfPlane(e, s)
    BY <1>2
  <2>2. (\E x \in slot'[s] : OfPlane(x, s)) <=> OfPlane(f, s)
    BY <1>5
  <2>3. OfPlane(e, s) <=> OfPlane(f, s)
    BY <1>2, <1>4 DEF OfPlane
  <2> QED BY <1>5, <2>1, <2>2, <2>3
<1>9. \A t \in Sessions : slot[t] = {} <=> slot'[t] = {}
  BY <1>2, <1>5
<1>10. ASSUME NEW t \in Sessions PROVE (Held(t) => Held(t)') /\ (Safe(t) => Safe(t)')
  <2>1. Held(t) => Held(t)'
    BY <1>1, <1>8 DEF Held, OfPlane
  <2>2. ASSUME Safe(t) PROVE Safe(t)'
    <3>1. \A x \in work'[t].todo \union work'[t].claim : x.of # t
      BY <1>1, <2>2 DEF Safe
    <3>2. CASE \E x \in slot[t] : OfPlane(x, t)
      <4>1. \E x \in slot'[t] : OfPlane(x, t)
        BY <1>8, <3>2
      <4> QED BY <1>1, <3>1, <4>1 DEF Safe, OfPlane
    <3>3. CASE slot[t] = {} /\ \E o \in Sessions \ {t} : \E x \in work[o].claim : OfPlane(x, t)
      <4>1. slot'[t] = {}
        BY <1>9, <3>3
      <4> QED BY <1>1, <3>1, <3>3, <4>1 DEF Safe, OfPlane
    <3> QED BY <2>2, <3>2, <3>3 DEF Safe
  <2> QED BY <2>1, <2>2
<1>11. TwoAtMost => displaced' = {}
  BY <1>1 DEF EntriesInv
<1> QED BY <1>1, <1>7, <1>10, <1>11, EachStays

\* The steps of a transition, and of a send, that only look at the files.
LEMMA Transited ==
  ASSUME EntriesInv, NEW s \in Sessions,
         Transition(s) \/ StartFails(s) \/ PersonaChanges(s) \/ Shutdown(s) \/ SendsTo(s) \/ Sent(s)
  PROVE  EntriesInv'
<1>1. /\ EntryType /\ plane \in [Sessions -> [at : {"off", "binding", "up", "closing"}, key : Int]]
      /\ aim \in [Sessions -> SUBSET PoolEntries] /\ UNCHANGED <<slot, work, judged, displaced>>
  BY DEF EntriesInv, EntryType, PlanesTyped, PeersTyped, Transition, StartFails, PersonaChanges, Shutdown, SendsTo, Sent
<1>2. SlotsTyped' /\ WorkTyped'
  BY <1>1 DEF EntryType, SlotsTyped, WorkTyped
<1>3. \A e \in Listed : e \in PoolEntries /\ e.of \in Sessions
  BY <1>1 DEF EntryType, SlotsTyped, Listed, PoolEntries
<1>4. \/ plane' = plane
      \/ plane' = [plane EXCEPT ![s] = [at |-> "binding", key |-> @.key + 1]]
      \/ plane' = [plane EXCEPT ![s].at = "closing"]
      \/ plane' = [plane EXCEPT ![s].at = "off"]
  BY DEF Transition, StartFails, PersonaChanges, Shutdown, SendsTo, Sent, At
<1>5. PlanesTyped' /\ \A t \in Sessions : plane'[t] = plane[t] \/ plane'[t].at # "up"
  BY <1>1, <1>4 DEF PlanesTyped
<1>6. PeersTyped'
  <2>1. CASE Transition(s) /\ byes' # byes
    <3>1. byes' = byes \union {[to |-> e.of, from |-> Own(s)] : e \in {e \in Listed : e.of # s}} /\ aim' = aim
      BY <2>1 DEF Transition
    <3>2. \A b \in byes' : b \in byes \/ (b.to \in Sessions /\ b.from = Own(s) /\ b.to # s)
      BY <1>3, <3>1
    <3>3. Own(s) \in PoolEntries /\ Own(s).of = s
      BY <1>1, OwnIsTyped
    <3> QED BY <1>1, <3>1, <3>2, <3>3 DEF EntryType, PeersTyped
  <2>2. CASE SendsTo(s)
    <3>1. PICK e \in Listed : e.of # s /\ aim' = [aim EXCEPT ![s] = {Whose(e)}]
      BY <2>2 DEF SendsTo
    <3>2. Whose(e) \in PoolEntries /\ Whose(e).of # s /\ Whose(e) = Whose(Whose(e))
      BY <1>3, <3>1, WhoseIsTyped
    <3>3. byes' = byes
      BY <2>2 DEF SendsTo
    <3> QED BY <1>1, <3>1, <3>2, <3>3 DEF EntryType, PeersTyped
  <2>3. CASE Sent(s)
    <3>1. aim' = [aim EXCEPT ![s] = {}] /\ byes' = byes
      BY <2>3 DEF Sent
    <3> QED BY <1>1, <3>1 DEF EntryType, PeersTyped
  <2>4. CASE aim' = aim /\ byes' = byes
    BY <1>1, <2>4 DEF EntryType, PeersTyped
  <2> QED BY <2>1, <2>2, <2>3, <2>4 DEF Transition, StartFails, PersonaChanges, Shutdown
<1> QED BY <1>1, <1>2, <1>5, <1>6, FilesStay DEF EntryType

\* The steps that set out to remove what a session has read, or was told of.
LEMMA Judged ==
  ASSUME EntriesInv, NEW s \in Sessions, Closes(s) \/ Looks(s) \/ SendFails(s) \/ \E b \in byes : b.to = s /\ ByeArrives(b)
  PROVE  EntriesInv'
<1>1. /\ EntryType /\ plane \in [Sessions -> [at : {"off", "binding", "up", "closing"}, key : Int]]
      /\ aim \in [Sessions -> SUBSET PoolEntries] /\ slot \in [Sessions -> SUBSET PoolEntries] /\ UNCHANGED <<slot, displaced>>
  BY DEF EntriesInv, EntryType, PlanesTyped, PeersTyped, SlotsTyped, Closes, Looks, SendFails, ByeArrives
<1>2. \A t \in Sessions : \A e \in slot[t] : e \in PoolEntries /\ e.of = t /\ slot[t] = {e}
  BY <1>1 DEF EntryType, SlotsTyped
<1>3. CASE Closes(s)
  <2>1. /\ work[s] = NoWork /\ SetsOut(s, {Own(s)}) /\ plane' = [plane EXCEPT ![s].at = "off"] /\ aim' = aim /\ byes' = byes
    BY <1>3 DEF Closes, Runs, Idles, At
  <2>2. Own(s) \in PoolEntries /\ Own(s) = Whose(Own(s))
    BY <1>1, OwnIsTyped
  <2> QED BY <1>1, <2>1, <2>2, SettingOut
<1>4. CASE Looks(s)
  <2> DEFINE entries == {Whose(e) : e \in {x \in Listed : Gone(x)}}
  <2>1. /\ work[s] = NoWork /\ SetsOut(s, entries) /\ plane' = plane /\ aim' = aim /\ byes' = byes
        /\ plane[s].at \in {"up", "closing"}
    BY <1>4 DEF Looks, Runs, Idles, Prunes
  <2>2. \A e \in entries : e \in PoolEntries /\ e = Whose(e)
    BY <1>2, WhoseIsTyped DEF Listed
  <2>3. ASSUME TwoAtMost, NEW e \in entries, e.of = s, plane[s].at = "up", Own(s) \notin judged PROVE e = Own(s)
    <3>1. PICK x \in Listed : e = Whose(x)
      OBVIOUS
    <3>2. x \in slot[s]
      BY <1>2, <2>3, <3>1, WhoseIsTyped DEF Listed
    <3>3. Safe(s)
      BY <2>3 DEF EntriesInv, EntriesSafe
    <3>4. x.of = s /\ x.key = plane[s].key
      BY <1>2, <3>2, <3>3 DEF Safe, OfPlane
    <3> QED BY <3>1, <3>4 DEF Whose, Own
  <2> HIDE DEF entries
  <2> QED BY <1>1, <2>1, <2>2, <2>3, SettingOut
<1>5. CASE SendFails(s)
  <2>1. /\ work[s] = NoWork /\ SetsOut(s, aim[s]) /\ plane' = plane /\ aim' = [aim EXCEPT ![s] = {}] /\ byes' = byes
    BY <1>5 DEF SendFails, Idles
  <2>2. \A e \in aim[s] : e = Whose(e) /\ e.of # s
    BY <1>1 DEF EntryType, PeersTyped
  <2>3. aim' \in [Sessions -> SUBSET PoolEntries] /\ \A t \in Sessions : aim'[t] \subseteq aim[t]
    BY <1>1, <2>1
  <2> QED BY <1>1, <2>1, <2>2, <2>3, SettingOut
<1>6. ASSUME NEW b \in byes, b.to = s, ByeArrives(b) PROVE EntriesInv'
  <2>1. plane' = plane /\ aim' = aim /\ byes' = byes \ {b} /\ b.from.of # s /\ b.from \in PoolEntries
    BY <1>1, <1>6 DEF ByeArrives, EntryType, PeersTyped
  <2>2. CASE Runs(s, {"up", "closing"})
    <3> DEFINE entries == {b.from} \cap {Whose(e) : e \in slot[b.from.of]}
    <3>1. work[s] = NoWork /\ SetsOut(s, entries)
      BY <1>6, <2>2 DEF ByeArrives, Runs, Idles
    <3>2. entries \in SUBSET PoolEntries /\ \A e \in entries : e.of # s
      BY <2>1
    <3>3. b.from.of \in Sessions
      BY <2>1 DEF PoolEntries
    <3>4. \A e \in entries : e = Whose(e)
      BY <1>2, <3>3, WhoseIsTyped
    <3> HIDE DEF entries
    <3> QED BY <1>1, <2>1, <3>1, <3>2, <3>4, SettingOut
  <2>3. CASE ~Runs(s, {"up", "closing"})
    <3>1. UNCHANGED <<work, judged>>
      BY <1>6, <2>3 DEF ByeArrives
    <3>2. EntryType'
      BY <1>1, <2>1, <3>1 DEF EntryType, SlotsTyped, PlanesTyped, WorkTyped, PeersTyped
    <3> QED BY <1>1, <2>1, <3>1, <3>2, FilesStay
  <2> QED BY <2>2, <2>3
<1> QED BY <1>3, <1>4, <1>5, <1>6

LEMMA EntriesStart == ASSUME NEW l, Starting(l) PROVE EntriesInv
<1>1. /\ slot = [s \in Sessions |-> {}] /\ plane = [s \in Sessions |-> [at |-> "off", key |-> 0]]
      /\ work = [s \in Sessions |-> NoWork] /\ aim = [s \in Sessions |-> {}] /\ byes = {} /\ displaced = {}
  BY DEF Starting
<1>2. SlotsTyped /\ PlanesTyped /\ PeersTyped
  BY <1>1 DEF SlotsTyped, PlanesTyped, PeersTyped
<1>3. WorkTyped
  BY <1>1 DEF WorkTyped, NoWork
<1> QED BY <1>1, <1>2, <1>3 DEF EntriesInv, EntriesHeld, EntriesSafe, EntryType

LEMMA EntriesSteps == EntriesInv /\ [PoolNext]_poolVars => EntriesInv'
<1> SUFFICES ASSUME EntriesInv, [PoolNext]_poolVars PROVE EntriesInv'
  OBVIOUS
<1>1. ASSUME NEW s \in Sessions, Starts(s) \/ Heartbeat(s) PROVE EntriesInv'
  <2>1. /\ work[s] = NoWork /\ plane[s].at \in {"binding", "up"} /\ Writes(s) /\ Prunes(s, Listed \ slot[s])
        /\ UNCHANGED <<aim, byes, displaced>> /\ (plane' = plane \/ plane' = [plane EXCEPT ![s].at = "up"])
    BY <1>1 DEF Starts, Heartbeat, Runs, Idles, At
  <2> QED BY <2>1, Written
<1>2. ASSUME NEW b \in byes, ByeArrives(b) PROVE EntriesInv'
  <2>1. b.to \in Sessions
    BY DEF EntriesInv, EntryType, PeersTyped
  <2> QED BY <1>2, <2>1, Judged
<1>3. CASE UNCHANGED poolVars
  <2>1. EntryType'
    BY <1>3 DEF poolVars, EntriesInv, EntryType, SlotsTyped, PlanesTyped, WorkTyped, PeersTyped
  <2> QED BY <1>3, <2>1, FilesStay DEF poolVars
<1> QED BY <1>1, <1>2, <1>3, Transited, Judged, Aged, Settled, Died, Claimed DEF PoolNext

LEMMA EntriesAreKept == EntriesInv => EntriesAreSafe
<1> SUFFICES ASSUME EntriesInv, NEW s \in Sessions, plane[s].at = "up", Own(s) \notin judged \union displaced
             PROVE  Own(s) \in {Whose(e) : e \in slot[s] \union UNION {work[t].claim : t \in Sessions}}
  BY DEF EntriesAreSafe, EntriesInv
<1>1. Held(s)
  BY DEF EntriesInv, EntriesHeld
<1>2. PICK e \in slot[s] \union UNION {work[t].claim : t \in Sessions} : OfPlane(e, s)
  BY <1>1 DEF Held
<1>3. Whose(e) = Own(s)
  BY <1>2 DEF OfPlane, Whose, Own
<1> QED BY <1>2, <1>3

---------------------------------------------------------------------------
(* Messages and their files *)

Entries == [of : Peers, key : Nat]
Stages == {"new", "flying", "stray", "waiting", "answered", "over"}
Endings == {"none", "ok", "unknown", "refused", "missing", "unauthenticated", "timeout", "unreachable"}
MsgRecords ==
  [at : Stages, big : BOOLEAN, meant : SUBSET Peers, entry : SUBSET Entries, try : {0, 1, 2},
   answer : {"none", "ack", "refused", "missing"}, key : Nat, told : Endings]

\* Entries name the peer they stand for.
PoolIsTyped ==
  /\ reg \in [Peers -> SUBSET Entries] /\ cached \in [Peers -> SUBSET Entries]
  /\ peer \in [Peers -> [up : BOOLEAN, key : Nat]]
  /\ \A p \in Peers : \A e \in reg[p] \union cached[p] : e.of = p

\* A message has the file it travels in until its first attempt ends, and none
\* when it is over and undelivered.
FilesInv(m, r) ==
  /\ r.at = "new" => m \notin spills \union snaps \union aged
  /\ r.at = "flying" /\ r.try = 1 => m \notin aged /\ (r.big => m \in spills)
  /\ accepted[m] # <<>> /\ r.big /\ m \notin aged => m \in snaps
  /\ r.at \in {"over", "stray"} /\ m \in spills => r.told = "ok"

\* It has been accepted at most once, by the peer it is for; while it is on its
\* way nobody has accepted it; an answer on its way back tells what the peer did.
StageInv(m, r) ==
  /\ r.at \notin {"new", "over"} => \E e \in Entries : r.entry = {e} /\ e.of \in r.meant
  /\ r.at \in {"flying", "stray", "waiting", "answered"} => r.try \in {1, 2}
  /\ r.at \in {"new", "flying", "stray", "waiting"} => accepted[m] = <<>>
  /\ r.at \in {"new", "flying", "waiting", "answered"} => r.told = "none"
  /\ r.at = "stray" => r.told \in {"timeout", "unreachable"}
  /\ r.at = "answered" => r.answer # "none" /\ (r.answer = "ack" <=> accepted[m] # <<>>)
  /\ r.at = "answered" /\ r.answer = "missing" => r.try = 2

TruthInv(m, r) ==
  /\ accepted[m] = <<>> \/ \E p \in r.meant : accepted[m] = <<p>>
  /\ r.told = "ok" => accepted[m] # <<>>
  /\ r.told \in {"refused", "missing", "unknown"} => accepted[m] = <<>>
  /\ r.told = "missing" => r.try = 2

MsgInv(m) == FilesInv(m, msg[m]) /\ StageInv(m, msg[m]) /\ TruthInv(m, msg[m])

MailInv ==
  /\ PoolIsTyped /\ msg \in [Msgs -> MsgRecords] /\ accepted \in [Msgs -> Seq(Peers)]
  /\ \A m \in Msgs : MsgInv(m)

\* A message that no step touches keeps what holds of it: its own record and
\* acceptances are the same, and no file of its was made or swept away.
LEMMA Untouched ==
  ASSUME NEW m, MsgInv(m), msg'[m] = msg[m], accepted'[m] = accepted[m],
         m \in spills' <=> m \in spills, m \in snaps' <=> m \in snaps, m \in aged' <=> m \in aged
  PROVE  MsgInv(m)'
BY DEF MsgInv, FilesInv, StageInv, TruthInv

\* One message moves to the record r, with what becomes of its files.
LEMMA MovesTo ==
  ASSUME MailInv, PoolIsTyped', NEW m \in Msgs, NEW r \in MsgRecords, msg' = [msg EXCEPT ![m] = r],
         accepted' \in [Msgs -> Seq(Peers)], \A n \in Msgs \ {m} : accepted'[n] = accepted[n],
         spills' \ {m} = spills \ {m}, snaps' \ {m} = snaps \ {m}, aged' = aged,
         FilesInv(m, r)', StageInv(m, r)', TruthInv(m, r)'
  PROVE  MailInv'
<1>1. msg' \in [Msgs -> MsgRecords] /\ msg'[m] = r /\ \A n \in Msgs \ {m} : msg'[n] = msg[n]
  BY DEF MailInv
<1>2. ASSUME NEW n \in Msgs PROVE MsgInv(n)'
  <2>1. CASE n = m
    BY <1>1, <2>1 DEF MsgInv, FilesInv, StageInv, TruthInv
  <2>2. CASE n # m
    <3>1. /\ MsgInv(n) /\ msg'[n] = msg[n] /\ accepted'[n] = accepted[n]
          /\ n \in spills' <=> n \in spills
          /\ n \in snaps' <=> n \in snaps
          /\ n \in aged' <=> n \in aged
      BY <1>1, <2>2 DEF MailInv
    <3> QED BY <3>1, Untouched
  <2> QED BY <2>1, <2>2
<1> QED BY <1>1, <1>2 DEF MailInv

\* The pool keeps its shape, and every message what holds of it.
LEMMA PoolMoves ==
  ASSUME MailInv, PoolIsTyped', UNCHANGED <<msg, accepted>>,
         \A m \in Msgs : (m \in spills' <=> m \in spills) /\ (m \in snaps' <=> m \in snaps) /\ (m \in aged' <=> m \in aged)
  PROVE  MailInv'
<1>1. ASSUME NEW m \in Msgs PROVE MsgInv(m)'
  BY Untouched DEF MailInv
<1> QED BY <1>1 DEF MailInv

\* Whoever a send finds is an entry of the peer it is meant for.
LEMMA FoundIsMeant ==
  ASSUME MailInv, NEW m \in Msgs, NEW p \in Peers
  PROVE  /\ \A e \in ByToken(p) \union ByReply(p) : e \in Entries /\ e.of \in {p}
         /\ \A e \in Called(NameOf[p]) : e \in Entries /\ e.of \in {f.of : f \in Called(NameOf[p])}
         /\ {f.of : f \in Called(NameOf[p])} \in SUBSET Peers
<1>1. \A q \in Peers : \A e \in reg[q] \union cached[q] : e \in Entries /\ e.of = q
  BY DEF MailInv, PoolIsTyped
<1>2. \A e \in Called(NameOf[p]) : e \in Entries
  BY <1>1 DEF Called
<1>3. \A e \in Entries : e.of \in Peers
  BY DEF Entries
<1>4. {f.of : f \in Called(NameOf[p])} \in SUBSET Peers
  BY <1>2, <1>3
<1> QED BY <1>1, <1>2, <1>4 DEF ByToken, ByReply

\* payloadFor: a message sets out with the file it names, or finds nobody.
LEMMA Dispatched ==
  ASSUME MailInv, NEW m \in Msgs, msg[m].at = "new", NEW big \in BOOLEAN, NEW meant \in SUBSET Peers,
         NEW found, \A e \in found : e \in Entries /\ e.of \in meant,
         Dispatch(m, big, meant, found), UNCHANGED <<pool, snaps, aged, accepted>>
  PROVE  MailInv'
<1>1. /\ msg[m] \in MsgRecords /\ accepted[m] = <<>> /\ m \notin spills \union snaps \union aged
      /\ msg[m].told = "none"
  BY DEF MailInv, MsgInv, FilesInv, StageInv
<1>2. PoolIsTyped' /\ accepted' = accepted /\ accepted' \in [Msgs -> Seq(Peers)] /\ snaps' = snaps /\ aged' = aged
  BY DEF MailInv, PoolIsTyped, pool
<1>3. CASE msg' = [msg EXCEPT ![m] = [@ EXCEPT !.at = "over", !.told = "unknown"]] /\ UNCHANGED spills
  <2>1. PICK r : r = [msg[m] EXCEPT !.at = "over", !.told = "unknown"]
    OBVIOUS
  <2>2. msg' = [msg EXCEPT ![m] = r] /\ r \in MsgRecords /\ r.at = "over" /\ r.told = "unknown"
    BY <1>1, <1>3, <2>1 DEF MsgRecords, Stages, Endings
  <2>3. FilesInv(m, r)' /\ StageInv(m, r)' /\ TruthInv(m, r)'
    BY <1>1, <1>2, <1>3, <2>2 DEF FilesInv, StageInv, TruthInv
  <2> QED BY <1>2, <1>3, <2>2, <2>3, MovesTo
<1>4. ASSUME NEW e \in found,
             msg' = [msg EXCEPT ![m] = [@ EXCEPT !.at = "flying", !.big = big, !.meant = meant, !.entry = {e}, !.try = 1]],
             spills' = IF big THEN spills \union {m} ELSE spills
      PROVE  MailInv'
  <2>1. PICK r : r = [msg[m] EXCEPT !.at = "flying", !.big = big, !.meant = meant, !.entry = {e}, !.try = 1]
    OBVIOUS
  <2>2. /\ r \in MsgRecords /\ r.at = "flying" /\ r.big = big /\ r.meant = meant /\ r.entry = {e} /\ r.try = 1
        /\ r.told = "none" /\ msg' = [msg EXCEPT ![m] = r]
    BY <1>1, <1>4, <2>1 DEF MsgRecords, Stages
  <2>3. e \in Entries /\ e.of \in meant
    OBVIOUS
  <2>4. FilesInv(m, r)' /\ StageInv(m, r)' /\ TruthInv(m, r)'
    BY <1>1, <1>2, <1>4, <2>2, <2>3 DEF FilesInv, StageInv, TruthInv
  <2>5. spills' \ {m} = spills \ {m}
    BY <1>4
  <2> QED BY <1>2, <2>2, <2>4, <2>5, MovesTo
<1> QED BY <1>3, <1>4 DEF Dispatch

\* Where a message that travels is bound for.
LEMMA BoundFor ==
  ASSUME MailInv, NEW m \in Msgs, msg[m].at \notin {"new", "over"}
  PROVE  \E e \in Entries : msg[m].entry = {e} /\ e.of \in msg[m].meant /\ To(m) = e.of /\ To(m) \in Peers
<1>1. PICK e \in Entries : msg[m].entry = {e} /\ e.of \in msg[m].meant
  BY DEF MailInv, MsgInv, StageInv
<1>2. (CHOOSE f \in msg[m].entry : TRUE) = e
  BY <1>1
<1> QED BY <1>1, <1>2 DEF To, Entries

\* handleConnection: a frame that comes finds nobody's acceptance before it, and
\* what the peer makes of it goes back in the answer.
LEMMA Arrived ==
  ASSUME MailInv, NEW m \in Msgs, Arrives(m)
  PROVE  MailInv'
<1>1. /\ msg[m] \in MsgRecords /\ accepted[m] = <<>> /\ msg[m].at \in {"flying", "stray"} /\ MsgInv(m)
      /\ aged' = aged /\ spills' = spills /\ pool' = pool
  BY DEF MailInv, MsgInv, StageInv, Arrives
<1>2. PoolIsTyped'
  BY <1>1 DEF MailInv, PoolIsTyped, pool
<1>3. To(m) \in msg[m].meant /\ To(m) \in Peers
  BY <1>1, BoundFor
<1>4. peer[To(m)].key \in Nat /\ accepted \in [Msgs -> Seq(Peers)]
  BY <1>3 DEF MailInv, PoolIsTyped
<1>5. ASSUME NEW answer \in {"ack", "refused", "missing"}, Answers(m, answer)
      PROVE  \E r \in MsgRecords :
                /\ msg' = [msg EXCEPT ![m] = r] /\ r.answer = answer /\ r.meant = msg[m].meant /\ r.big = msg[m].big
                /\ r.told = msg[m].told /\ r.entry = msg[m].entry /\ r.try = msg[m].try
                /\ r.at = IF msg[m].at = "stray" THEN "over" ELSE "answered"
  <2>1. PICK r : r = [msg[m] EXCEPT !.answer = answer, !.key = peer[To(m)].key,
                                    !.at = IF @ = "stray" THEN "over" ELSE "answered"]
    OBVIOUS
  <2>2. msg' = [msg EXCEPT ![m] = r]
    BY <1>5, <2>1 DEF Answers
  <2>3. r \in MsgRecords
    BY <1>1, <1>4, <2>1 DEF MsgRecords, Stages
  <2> QED BY <1>1, <2>1, <2>2, <2>3 DEF MsgRecords
<1>6. ASSUME NEW answer \in {"refused", "missing"}, Answers(m, answer), accepted' = accepted,
             snaps' \ {m} = snaps \ {m}, answer = "missing" => FileMissing(m)
      PROVE  MailInv'
  <2>1. PICK r \in MsgRecords :
                /\ msg' = [msg EXCEPT ![m] = r] /\ r.answer = answer /\ r.meant = msg[m].meant /\ r.big = msg[m].big
                /\ r.told = msg[m].told /\ r.entry = msg[m].entry /\ r.try = msg[m].try
                /\ r.at = IF msg[m].at = "stray" THEN "over" ELSE "answered"
    BY <1>5, <1>6
  <2>2. answer = "missing" /\ msg[m].at = "flying" => msg[m].try = 2
    <3>1. FileMissing(m) => msg[m].big /\ m \notin spills
      BY DEF FileMissing, File
    <3> QED BY <1>1, <1>6, <3>1 DEF MsgInv, FilesInv, StageInv
  <2>3. FilesInv(m, r)'
    BY <1>1, <1>6, <2>1 DEF MsgInv, FilesInv, StageInv
  <2>4. StageInv(m, r)'
    BY <1>1, <1>6, <2>1, <2>2 DEF MsgInv, StageInv
  <2>5. TruthInv(m, r)'
    BY <1>1, <1>6, <2>1 DEF MsgInv, StageInv, TruthInv
  <2> QED BY <1>1, <1>2, <1>4, <1>6, <2>1, <2>3, <2>4, <2>5, MovesTo
<1>7. ASSUME NEW made \in SUBSET File(m), CopyMade(m, made), snaps' = snaps \union made,
             accepted' = [accepted EXCEPT ![m] = Append(@, To(m))], Answers(m, "ack")
      PROVE  MailInv'
  <2>1. PICK r \in MsgRecords :
                /\ msg' = [msg EXCEPT ![m] = r] /\ r.answer = "ack" /\ r.meant = msg[m].meant /\ r.big = msg[m].big
                /\ r.told = msg[m].told /\ r.entry = msg[m].entry /\ r.try = msg[m].try
                /\ r.at = IF msg[m].at = "stray" THEN "over" ELSE "answered"
    BY <1>5, <1>7
  <2>2. /\ accepted'[m] = <<To(m)>> /\ accepted' \in [Msgs -> Seq(Peers)]
        /\ \A n \in Msgs \ {m} : accepted'[n] = accepted[n]
    <3>1. Append(accepted[m], To(m)) = <<To(m)>> /\ <<To(m)>> \in Seq(Peers)
      BY <1>1, <1>3
    <3> QED BY <1>4, <1>7, <3>1
  <2>3. snaps' \ {m} = snaps \ {m} /\ (msg[m].big => m \in snaps')
    BY <1>7 DEF File, CopyMade
  <2>4. FilesInv(m, r)'
    BY <1>1, <1>7, <2>1, <2>3 DEF MsgInv, FilesInv, StageInv
  <2>5. <<To(m)>> # <<>>
    OBVIOUS
  <2>6. StageInv(m, r)'
    BY <1>1, <2>1, <2>2, <2>5 DEF MsgInv, StageInv
  <2>7. TruthInv(m, r)'
    BY <1>1, <1>3, <2>1, <2>2, <2>5 DEF MsgInv, StageInv, TruthInv
  <2> QED BY <1>1, <1>2, <2>1, <2>2, <2>3, <2>4, <2>6, <2>7, MovesTo
<1>8. ASSUME Nacks(m, "refused") \/ (FileMissing(m) /\ Nacks(m, "missing"))
      PROVE  MailInv'
  BY <1>6, <1>8 DEF Nacks
<1>9. ASSUME Declines(m) PROVE MailInv'
  <2>1. snaps' \ {m} = snaps \ {m}
    BY <1>9 DEF Declines, File
  <2> QED BY <1>6, <1>9, <2>1 DEF Declines
<1> QED BY <1>7, <1>8, <1>9 DEF Arrives

\* A message the sender is told has failed leaves no file of the sender's.
LEMMA Failed ==
  ASSUME MailInv, PoolIsTyped', NEW m \in Msgs, msg[m].at \in {"flying", "answered"},
         NEW at \in {"over", "stray"}, NEW told \in Endings \ {"none", "ok"}, Fails(m, at, told),
         at = "stray" => msg[m].at = "flying" /\ told \in {"timeout", "unreachable"},
         told \in {"refused", "missing", "unknown"} => accepted[m] = <<>>,
         told = "missing" => msg[m].try = 2
  PROVE  MailInv'
<1>1. msg[m] \in MsgRecords /\ MsgInv(m) /\ accepted \in [Msgs -> Seq(Peers)]
  BY DEF MailInv
<1>2. PICK r : r = [msg[m] EXCEPT !.at = at, !.told = told]
  OBVIOUS
<1>3. /\ msg' = [msg EXCEPT ![m] = r] /\ spills' = spills \ {m} /\ snaps' = snaps /\ aged' = aged
      /\ accepted' = accepted
  BY <1>2 DEF Fails, Tell
<1>4. /\ r \in MsgRecords /\ r.at = at /\ r.told = told /\ r.big = msg[m].big /\ r.meant = msg[m].meant
      /\ r.entry = msg[m].entry /\ r.try = msg[m].try /\ r.answer = msg[m].answer
  BY <1>1, <1>2 DEF MsgRecords, Stages, Endings
<1>5. FilesInv(m, r)'
  BY <1>1, <1>3, <1>4 DEF MsgInv, FilesInv
<1>6. StageInv(m, r)'
  BY <1>1, <1>3, <1>4 DEF MsgInv, StageInv
<1>7. TruthInv(m, r)'
  BY <1>1, <1>3, <1>4 DEF MsgInv, TruthInv, Endings
<1> QED BY <1>1, <1>3, <1>4, <1>5, <1>6, <1>7, MovesTo

\* An eviction takes entries away and nothing else.
LEMMA Evicted ==
  ASSUME MailInv, NEW m \in Msgs, msg[m].at \notin {"new", "over"}, EvictsOne(m) \/ KeepsPool
  PROVE  PoolIsTyped'
<1>1. CASE KeepsPool
  BY <1>1 DEF KeepsPool, pool, MailInv, PoolIsTyped
<1>2. CASE EvictsOne(m)
  <2>1. To(m) \in Peers
    BY BoundFor
  <2>2. reg' = [reg EXCEPT ![To(m)] = @ \ {e \in @ : e.key = Signer(m)}] /\ UNCHANGED <<here, peer, cached>>
    BY <1>2 DEF EvictsOne, Evicts
  <2>3. reg \in [Peers -> SUBSET Entries] /\ \A p \in Peers : reg'[p] \subseteq reg[p]
    BY <2>1, <2>2 DEF MailInv, PoolIsTyped
  <2>4. reg' \in [Peers -> SUBSET Entries]
    BY <2>2, <2>3
  <2> QED BY <2>2, <2>3, <2>4 DEF MailInv, PoolIsTyped
<1> QED BY <1>1, <1>2

\* The sender hears: what the answer says, or that none came or could.
LEMMA Heard ==
  ASSUME MailInv, NEW m \in Msgs, AnswerArrives(m) \/ TimesOut(m) \/ Breaks(m) \/ Refused(m)
  PROVE  MailInv'
<1>1. msg[m] \in MsgRecords /\ MsgInv(m) /\ accepted \in [Msgs -> Seq(Peers)]
  BY DEF MailInv
<1>2. msg[m].at \in {"flying", "answered"}
  BY DEF AnswerArrives, TimesOut, Breaks, Refused
<1>3. PoolIsTyped'
  <2>1. EvictsOne(m) \/ KeepsPool
    BY DEF AnswerArrives, TimesOut, Breaks, Refused
  <2> QED BY <1>2, <2>1, Evicted
<1>4. CASE AnswerArrives(m)
  <2>1. msg[m].at = "answered"
    BY <1>4 DEF AnswerArrives
  <2>2. CASE msg[m].answer = "ack" /\ Tell(m, "over", "ok") /\ UNCHANGED <<files, accepted>>
    <3>1. PICK r : r = [msg[m] EXCEPT !.at = "over", !.told = "ok"]
      OBVIOUS
    <3>2. /\ msg' = [msg EXCEPT ![m] = r] /\ spills' = spills /\ snaps' = snaps /\ aged' = aged
          /\ accepted' = accepted
      BY <2>2, <3>1 DEF Tell, files
    <3>3. /\ r \in MsgRecords /\ r.at = "over" /\ r.told = "ok" /\ r.big = msg[m].big /\ r.meant = msg[m].meant
          /\ r.entry = msg[m].entry /\ r.try = msg[m].try /\ r.answer = msg[m].answer
      BY <1>1, <3>1 DEF MsgRecords, Stages, Endings
    <3>4. FilesInv(m, r)' /\ StageInv(m, r)' /\ TruthInv(m, r)'
      BY <1>1, <2>1, <2>2, <3>2, <3>3 DEF MsgInv, FilesInv, StageInv, TruthInv
    <3> QED BY <1>1, <1>3, <3>2, <3>3, <3>4, MovesTo
  <2>3. CASE msg[m].answer # "ack" /\ Fails(m, "over", msg[m].answer)
    <3>1. msg[m].answer \in {"refused", "missing"} /\ accepted[m] = <<>> /\ (msg[m].answer = "missing" => msg[m].try = 2)
      BY <1>1, <2>1, <2>3 DEF MsgInv, StageInv, MsgRecords
    <3>2. msg[m].answer \in Endings \ {"none", "ok"}
      BY <3>1 DEF Endings
    <3> QED BY <1>2, <1>3, <2>3, <3>1, <3>2, Failed
  <2>4. CASE Fails(m, "over", "unauthenticated")
    BY <1>2, <1>3, <2>4, Failed DEF Endings
  <2> QED BY <1>4, <2>2, <2>3, <2>4 DEF AnswerArrives
<1>5. CASE TimesOut(m) \/ Breaks(m)
  <2>1. Still(m) \in {"over", "stray"} /\ (Still(m) = "stray" => msg[m].at = "flying")
    BY DEF Still
  <2>2. Fails(m, Still(m), "timeout") \/ Fails(m, Still(m), "unreachable")
    BY <1>5 DEF TimesOut, Breaks
  <2> QED BY <1>2, <1>3, <2>1, <2>2, Failed DEF Endings
<1>6. CASE Refused(m)
  <2>1. CASE msg[m].try = 1 /\ msg' = [msg EXCEPT ![m].at = "waiting"] /\ UNCHANGED <<files, accepted>>
    <3>1. PICK r : r = [msg[m] EXCEPT !.at = "waiting"]
      OBVIOUS
    <3>2. /\ msg' = [msg EXCEPT ![m] = r] /\ spills' = spills /\ snaps' = snaps /\ aged' = aged
          /\ accepted' = accepted
      BY <2>1, <3>1 DEF files
    <3>3. /\ r \in MsgRecords /\ r.at = "waiting" /\ r.told = msg[m].told /\ r.big = msg[m].big /\ r.meant = msg[m].meant
          /\ r.entry = msg[m].entry /\ r.try = msg[m].try
      BY <1>1, <3>1 DEF MsgRecords, Stages
    <3>4. FilesInv(m, r)' /\ StageInv(m, r)' /\ TruthInv(m, r)'
      BY <1>1, <1>6, <3>2, <3>3 DEF Refused, MsgInv, FilesInv, StageInv, TruthInv
    <3> QED BY <1>1, <1>3, <3>2, <3>3, <3>4, MovesTo
  <2>2. CASE Fails(m, "over", "unreachable")
    BY <1>2, <1>3, <2>2, Failed DEF Endings
  <2> QED BY <1>6, <2>1, <2>2 DEF Refused
<1> QED BY <1>4, <1>5, <1>6

\* Once more, after a while: the file may be gone by then.
LEMMA Retried ==
  ASSUME MailInv, NEW m \in Msgs, Retries(m)
  PROVE  MailInv'
<1>1. msg[m] \in MsgRecords /\ MsgInv(m) /\ accepted \in [Msgs -> Seq(Peers)]
  BY DEF MailInv
<1>2. PICK r : r = [msg[m] EXCEPT !.at = "flying", !.try = 2]
  OBVIOUS
<1>3. /\ msg' = [msg EXCEPT ![m] = r] /\ spills' = spills /\ snaps' = snaps /\ aged' = aged /\ accepted' = accepted
      /\ PoolIsTyped' /\ msg[m].at = "waiting"
  BY <1>2 DEF Retries, files, pool, MailInv, PoolIsTyped
<1>4. /\ r \in MsgRecords /\ r.at = "flying" /\ r.try = 2 /\ r.told = msg[m].told /\ r.big = msg[m].big
      /\ r.meant = msg[m].meant /\ r.entry = msg[m].entry
  BY <1>1, <1>2 DEF MsgRecords, Stages
<1>5. FilesInv(m, r)' /\ StageInv(m, r)' /\ TruthInv(m, r)'
  BY <1>1, <1>3, <1>4 DEF MsgInv, FilesInv, StageInv, TruthInv
<1> QED BY <1>1, <1>3, <1>4, <1>5, MovesTo

\* cleanupArtifacts takes only files that are past the age of a first attempt.
LEMMA AgedOrSwept ==
  ASSUME MailInv, Sweeps \/ \E m \in Msgs : Ages(m)
  PROVE  MailInv'
<1>1. PoolIsTyped' /\ msg' = msg /\ accepted' = accepted
  BY DEF Sweeps, Ages, pool, MailInv, PoolIsTyped
<1>2. ASSUME NEW n \in Msgs PROVE MsgInv(n)'
  <2>1. MsgInv(n) /\ msg[n] \in MsgRecords
    BY DEF MailInv
  <2>2. CASE Sweeps
    <3>1. PICK m \in aged : spills' = spills \ {m} /\ snaps' = snaps \ {m} /\ aged' = aged
      BY <2>2 DEF Sweeps, SweptFiles
    <3> QED BY <1>1, <2>1, <3>1 DEF MsgInv, FilesInv, StageInv, TruthInv
  <2>3. ASSUME NEW m \in Msgs, Ages(m) PROVE MsgInv(n)'
    BY <1>1, <2>1, <2>3 DEF Ages, MsgInv, FilesInv, StageInv, TruthInv
  <2> QED BY <2>2, <2>3
<1> QED BY <1>1, <1>2 DEF MailInv

\* Sessions come and go, are pruned, and write to the sender.
LEMMA PoolSteps ==
  ASSUME MailInv,
         SenderBlinks \/ \E p \in Peers : Registers(p) \/ PrunedPeer(p) \/ Stops(p) \/ Restarts(p) \/ WritesToSender(p)
  PROVE  MailInv'
<1>1. UNCHANGED <<msg, accepted, spills, snaps, aged>>
  BY DEF SenderBlinks, Registers, PrunedPeer, Stops, Restarts, WritesToSender, files
<1>2. PoolIsTyped
  BY DEF MailInv
<1>3. CASE SenderBlinks
  BY <1>1, <1>2, <1>3, PoolMoves DEF SenderBlinks, PoolIsTyped
<1>4. ASSUME NEW p \in Peers, Registers(p) PROVE MailInv'
  <2>1. Entry(p) \in Entries /\ Entry(p).of = p
    BY <1>2 DEF Entry, Entries, PoolIsTyped
  <2>2. reg' = [reg EXCEPT ![p] = {Entry(p)}] /\ peer' = peer /\ cached' = cached
    BY <1>4 DEF Registers
  <2>3. PoolIsTyped'
    BY <1>2, <2>1, <2>2 DEF PoolIsTyped
  <2> QED BY <1>1, <2>3, PoolMoves
<1>5. ASSUME NEW p \in Peers, PrunedPeer(p) \/ Stops(p) PROVE MailInv'
  <2>1. reg' = [reg EXCEPT ![p] = {}] /\ cached' = cached /\ (peer' = peer \/ peer' = [peer EXCEPT ![p].up = FALSE])
    BY <1>5 DEF PrunedPeer, Stops
  <2>2. PoolIsTyped'
    BY <1>2, <2>1 DEF PoolIsTyped
  <2> QED BY <1>1, <2>2, PoolMoves
<1>6. ASSUME NEW p \in Peers, Restarts(p) PROVE MailInv'
  <2>1. reg' = reg /\ cached' = cached /\ peer' = [peer EXCEPT ![p] = [up |-> TRUE, key |-> @.key + 1]]
    BY <1>6 DEF Restarts
  <2>2. peer' \in [Peers -> [up : BOOLEAN, key : Nat]]
    BY <1>2, <2>1 DEF PoolIsTyped
  <2> QED BY <1>1, <1>2, <2>1, <2>2, PoolMoves DEF PoolIsTyped
<1>7. ASSUME NEW p \in Peers, WritesToSender(p) PROVE MailInv'
  <2>1. cached' = [cached EXCEPT ![p] = reg[p]] /\ reg' = reg /\ peer' = peer
    BY <1>7 DEF WritesToSender
  <2>2. PoolIsTyped'
    BY <1>2, <2>1 DEF PoolIsTyped
  <2> QED BY <1>1, <2>2, PoolMoves
<1> QED BY <1>3, <1>4, <1>5, <1>6, <1>7

LEMMA MailStarts == MailInit => MailInv
<1> SUFFICES ASSUME MailInit PROVE MailInv
  OBVIOUS
<1>1. Unsent \in MsgRecords /\ Unsent.at = "new" /\ Unsent.told = "none"
  BY DEF Unsent, MsgRecords, Stages, Endings
<1>2. PoolIsTyped
  <2>1. peer = [p \in Peers |-> [up |-> TRUE, key |-> 1]] /\ reg = [p \in Peers |-> {Entry(p)}]
        /\ cached = [p \in Peers |-> {}]
    BY DEF MailInit
  <2>2. ASSUME NEW p \in Peers PROVE Entry(p) \in Entries /\ Entry(p).of = p
    BY <2>1 DEF Entry, Entries
  <2> QED BY <2>1, <2>2 DEF PoolIsTyped
<1>3. /\ \A m \in Msgs : msg[m] = Unsent /\ accepted[m] = <<>>
      /\ msg \in [Msgs -> MsgRecords] /\ accepted \in [Msgs -> Seq(Peers)]
  <2>1. <<>> \in Seq(Peers)
    OBVIOUS
  <2> QED BY <1>1, <2>1 DEF MailInit
<1>4. spills = {} /\ snaps = {} /\ aged = {}
  BY DEF MailInit
<1>5. ASSUME NEW m \in Msgs PROVE MsgInv(m)
  BY <1>1, <1>3, <1>4 DEF MsgInv, FilesInv, StageInv, TruthInv
<1> QED BY <1>2, <1>3, <1>5 DEF MailInv

LEMMA MailSteps == MailInv /\ [MailNext]_mailVars => MailInv'
<1> SUFFICES ASSUME MailInv, [MailNext]_mailVars PROVE MailInv'
  OBVIOUS
<1>1. ASSUME NEW m \in Msgs, Sends(m) PROVE MailInv'
  <2>1. msg[m].at = "new" /\ UNCHANGED <<pool, snaps, aged, accepted>>
    BY <1>1 DEF Sends
  <2>2. PICK p \in Peers, big \in BOOLEAN :
          \/ Dispatch(m, big, {p}, ByToken(p)) \/ Dispatch(m, big, {p}, ByReply(p))
          \/ Dispatch(m, big, {e.of : e \in Called(NameOf[p])}, Called(NameOf[p]))
    BY <1>1 DEF Sends
  <2>3. CASE Dispatch(m, big, {p}, ByToken(p)) \/ Dispatch(m, big, {p}, ByReply(p))
    BY <2>1, <2>3, FoundIsMeant, Dispatched
  <2>4. CASE Dispatch(m, big, {e.of : e \in Called(NameOf[p])}, Called(NameOf[p]))
    <3> DEFINE meant == {e.of : e \in Called(NameOf[p])}
    <3>1. meant \in SUBSET Peers /\ \A e \in Called(NameOf[p]) : e \in Entries /\ e.of \in meant
      BY FoundIsMeant
    <3>2. Dispatch(m, big, meant, Called(NameOf[p]))
      BY <2>4
    <3> HIDE DEF meant
    <3> QED BY <2>1, <3>1, <3>2, Dispatched
  <2> QED BY <2>2, <2>3, <2>4
<1>2. CASE UNCHANGED mailVars
  <2>1. UNCHANGED <<msg, accepted, spills, snaps, aged, reg, peer, cached>>
    BY <1>2 DEF mailVars
  <2>2. PoolIsTyped'
    BY <2>1 DEF MailInv, PoolIsTyped
  <2> QED BY <2>1, <2>2, PoolMoves
<1> QED BY <1>1, <1>2, Arrived, Heard, Retried, AgedOrSwept, PoolSteps DEF MailNext

LEMMA MailIsTrue == MailInv => SendersHearTrue /\ FilesMatchMessages
<1> SUFFICES ASSUME MailInv PROVE SendersHearTrue /\ FilesMatchMessages
  OBVIOUS
<1>1. ASSUME NEW m \in Msgs
      PROVE  Len(accepted[m]) <= 1 /\ Taken(m) \subseteq msg[m].meant
  <2>1. TruthInv(m, msg[m])
    BY DEF MailInv, MsgInv
  <2>2. CASE accepted[m] = <<>>
    BY <2>2 DEF Taken
  <2>3. ASSUME NEW p \in msg[m].meant, accepted[m] = <<p>> PROVE Len(accepted[m]) <= 1 /\ Taken(m) \subseteq msg[m].meant
    BY <2>3 DEF Taken
  <2> QED BY <2>1, <2>2, <2>3 DEF TruthInv
<1>2. SendersHearTrue
  BY <1>1 DEF MailInv, MsgInv, TruthInv, SendersHearTrue
<1> QED BY <1>2 DEF MailInv, MsgInv, FilesInv, FilesMatchMessages

---------------------------------------------------------------------------
(* What a receiver accepts, and what it is told *)

\* The letters that may come.
Lettered == DOMAIN Letters

Boxes ==
  [queue : Seq(Lettered), seen : SUBSET Lettered, spent : [Froms -> [msgs : Nat, bytes : Nat]],
   wakes : Nat, cooling : BOOLEAN, armed : BOOLEAN, idle : BOOLEAN]
Posts ==
  [taken : Seq(Lettered), heard : Seq(Lettered), batch : Seq(Lettered), old : SUBSET Lettered,
   left : [comes : Nat, lapses : Nat]]
BoxIsTyped == box \in Boxes /\ post \in Posts

\* What was accepted is told or waits, in order; it is remembered, or was
\* forgotten, and what is remembered was accepted.
Kept(queue, seen, p) ==
  /\ p.heard \o queue = p.taken
  /\ \A i \in DOMAIN p.taken : p.taken[i] \in seen \union p.old
  /\ \A i, j \in DOMAIN p.taken : i # j /\ p.taken[i] = p.taken[j] => p.taken[i] \in p.old
  /\ seen \subseteq ToSet(p.taken)
  /\ Len(p.batch) > 1 => SizeOf(p.batch) <= BatchRoom

InboxInv == BoxIsTyped /\ Kept(box.queue, box.seen, post)

\* A set of numbers up to k has a greatest.
LEMMA GreatestIsIn ==
  ASSUME NEW k \in Nat, NEW S \in SUBSET (1..k), S # {}
  PROVE  Max(S) \in S
<1> DEFINE Bounds == {u \in Nat : \A y \in S : y <= u}
           Less == OpToRel(<, Nat)
<1>1. Bounds \subseteq Nat /\ Bounds # {}
  <2>1. k \in Bounds
    OBVIOUS
  <2> QED BY <2>1
<1>2. IsWellFoundedOn(Less, Nat)
  BY NatLessThanWellFounded
<1>3. \A x, y \in Nat : y < x => <<y, x>> \in Less
  BY DEF OpToRel
<1> HIDE DEF Less
<1>4. PICK u \in Bounds : \A y \in Bounds : <<y, u>> \notin Less
  BY <1>1, <1>2, WFMin
<1>5. u \in S
  <2> SUFFICES ASSUME u \notin S PROVE FALSE
    OBVIOUS
  <2>1. \A y \in S : y \in Nat /\ y >= 1 /\ y <= u /\ y # u
    OBVIOUS
  <2>2. u \in Nat /\ u >= 1
    <3>1. PICK y \in S : TRUE
      OBVIOUS
    <3> QED BY <2>1, <3>1
  <2>3. \A y \in S : y <= u - 1
    BY <2>1, <2>2
  <2>4. u - 1 \in Bounds /\ u - 1 \in Nat /\ u - 1 < u
    BY <2>2, <2>3
  <2> QED BY <1>3, <1>4, <2>2, <2>4
<1>6. \A y \in S : u >= y
  BY <1>5
<1> QED BY <1>5, <1>6 DEF Max

\* shared.ts:100: a batch is what is shown at once, or one message.
LEMMA BatchFits ==
  ASSUME NEW q \in Seq(Lettered), q # <<>>
  PROVE  /\ BatchSize(q) \in 1..Len(q)
         /\ Len(SubSeq(q, 1, BatchSize(q))) > 1 => SizeOf(SubSeq(q, 1, BatchSize(q))) <= BatchRoom
<1> DEFINE Sizes == {1} \union {n \in 1..Len(q) : SizeOf(SubSeq(q, 1, n)) <= BatchRoom}
<1>1. Len(q) \in Nat /\ Len(q) >= 1
  BY EmptySeq
<1>2. Sizes \in SUBSET (1..Len(q)) /\ Sizes # {}
  BY <1>1
<1>3. Max(Sizes) \in Sizes
  BY <1>1, <1>2, GreatestIsIn
<1>4. BatchSize(q) \in Sizes
  BY <1>3 DEF BatchSize
<1>5. BatchSize(q) \in 1..Len(q) /\ (BatchSize(q) = 1 \/ SizeOf(SubSeq(q, 1, BatchSize(q))) <= BatchRoom)
  BY <1>2, <1>4
<1>6. Len(SubSeq(q, 1, BatchSize(q))) = BatchSize(q)
  BY <1>1, <1>5
<1> QED BY <1>5, <1>6

\* A flush moves letters from the head of the queue to what was told.
LEMMA Flushed ==
  ASSUME InboxInv, NEW b,
         b \in Boxes,
         b.queue = box.queue, b.seen = box.seen, Flush(b)
  PROVE  InboxInv'
<1> DEFINE q == box.queue
           n == BatchSize(q)
           batch == SubSeq(q, 1, n)
           rest == SubSeq(q, n + 1, Len(q))
<1>1. /\ q \in Seq(Lettered) /\ post.heard \in Seq(Lettered) /\ BoxIsTyped /\ Kept(q, box.seen, post)
      /\ post.left \in [comes : Nat, lapses : Nat]
  BY DEF InboxInv, BoxIsTyped, Boxes, Posts
<1>2. CASE b.queue = <<>> /\ box' = [b EXCEPT !.armed = FALSE] /\ UNCHANGED post
  <2>1. BoxIsTyped' /\ box'.queue = box.queue /\ box'.seen = box.seen
    BY <1>1, <1>2 DEF BoxIsTyped, Boxes, Posts
  <2> QED BY <1>1, <1>2, <2>1 DEF InboxInv
<1>3. CASE box' = [b EXCEPT !.armed = TRUE] /\ UNCHANGED post
  <2>1. BoxIsTyped' /\ box'.queue = box.queue /\ box'.seen = box.seen
    BY <1>1, <1>3 DEF BoxIsTyped, Boxes, Posts
  <2> QED BY <1>1, <1>3, <2>1 DEF InboxInv
<1>4. CASE /\ q # <<>>
           /\ box' = [b EXCEPT !.queue = rest, !.wakes = @ + 1, !.cooling = TRUE, !.armed = rest # <<>>, !.idle = FALSE]
           /\ post' = [post EXCEPT !.heard = @ \o batch, !.batch = batch]
  <2>1. n \in 1..Len(q) /\ Len(q) \in Nat /\ (Len(batch) > 1 => SizeOf(batch) <= BatchRoom)
    BY <1>1, <1>4, BatchFits, LenProperties
  <2> HIDE DEF n
  <2>2. batch \in Seq(Lettered) /\ rest \in Seq(Lettered)
    BY <1>1, <2>1
  <2>3. batch \o rest = q
    <3>1. SubSeq(q, 1, n) \o SubSeq(q, n + 1, Len(q)) = SubSeq(q, 1, Len(q))
      BY <1>1, <2>1, ConcatAdjacentSubSeq
    <3> QED BY <1>1, <3>1, SubSeqFull
  <2>4. (post.heard \o batch) \o rest = post.heard \o q
    <3> DEFINE h == post.heard
    <3>0. h \in Seq(Lettered)
      BY <1>1
    <3> HIDE DEF batch, rest, q, h
    <3>1. (h \o batch) \o rest = h \o (batch \o rest)
      BY <2>2, <3>0, ConcatAssociative
    <3> USE DEF h
    <3> QED BY <2>3, <3>1
  <2>5. post.heard \o batch \in Seq(Lettered)
    <3> HIDE DEF batch
    <3> QED BY <1>1, <2>2, ConcatProperties
  <2>6. (rest # <<>>) \in BOOLEAN
    OBVIOUS
  <2> HIDE DEF batch, rest, q
  <2>7. BoxIsTyped'
    <3>1. box' \in Boxes
      <4>1. PICK flag \in BOOLEAN : flag = (rest # <<>>)
        OBVIOUS
      <4>2. box' = [b EXCEPT !.queue = rest, !.wakes = @ + 1, !.cooling = TRUE, !.armed = flag, !.idle = FALSE]
        BY <1>4, <4>1
      <4>3. b.wakes + 1 \in Nat
        BY DEF Boxes
      <4>4. box' = [queue |-> rest, seen |-> b.seen, spent |-> b.spent, wakes |-> b.wakes + 1, cooling |-> TRUE,
                    armed |-> flag, idle |-> FALSE]
        BY <4>2 DEF Boxes
      <4>5. b.seen \in SUBSET Lettered /\ b.spent \in [Froms -> [msgs : Nat, bytes : Nat]]
        BY DEF Boxes
      <4> QED BY <2>2, <4>1, <4>3, <4>4, <4>5 DEF Boxes
    <3>2. post' \in Posts
      <4>1. post \in Posts
        BY <1>1 DEF BoxIsTyped, Boxes, Posts
      <4> QED BY <1>4, <2>2, <2>5, <4>1 DEF Posts
    <3> QED BY <3>1, <3>2 DEF BoxIsTyped, Boxes, Posts
  <2>8. /\ box'.queue = rest /\ box'.seen = box.seen /\ post'.heard = post.heard \o batch /\ post'.batch = batch
        /\ post'.taken = post.taken /\ post'.old = post.old
    BY <1>1, <1>4 DEF BoxIsTyped, Boxes, Posts
  <2>9. Kept(rest, box.seen, post')
    BY <1>1, <2>1, <2>4, <2>8 DEF Kept
  <2> QED BY <2>7, <2>8, <2>9 DEF InboxInv
<1>5. CASE /\ post.left.lapses > 0 /\ box' = [b EXCEPT !.armed = TRUE]
           /\ post' = [post EXCEPT !.left.lapses = @ - 1]
  <2>1. /\ BoxIsTyped' /\ box'.queue = box.queue /\ box'.seen = box.seen
        /\ post'.heard = post.heard /\ post'.batch = post.batch /\ post'.taken = post.taken /\ post'.old = post.old
    <3> HIDE DEF q
    <3>1. post \in Posts
      BY <1>1 DEF BoxIsTyped, Boxes, Posts
    <3>2. post.left.lapses - 1 \in Nat
      BY <1>5, <3>1 DEF Posts
    <3>3. /\ post' \in Posts
          /\ post'.heard = post.heard /\ post'.batch = post.batch /\ post'.taken = post.taken /\ post'.old = post.old
      BY <1>5, <3>1, <3>2 DEF Posts
    <3>4. /\ box' \in Boxes
          /\ box'.queue = box.queue /\ box'.seen = box.seen
      BY <1>5 DEF Boxes
    <3> QED BY <3>3, <3>4 DEF BoxIsTyped, Boxes, Posts
  <2>2. Kept(q, box.seen, post')
    BY <1>1, <2>1 DEF Kept
  <2> QED BY <1>1, <2>1, <2>2 DEF InboxInv
<1> QED BY <1>2, <1>3, <1>4, <1>5 DEF Flush

\* A step that changes neither the queue, nor what is remembered, nor the history.
LEMMA NothingComes ==
  ASSUME InboxInv, box' \in Boxes, box'.queue = box.queue, box'.seen = box.seen, post' = post
  PROVE  InboxInv'
BY DEF InboxInv, BoxIsTyped, Kept

\* onInbound: what is accepted joins the end of the queue, and was not remembered.
LEMMA Accepted ==
  ASSUME InboxInv, NEW l \in Lettered, l \notin box.seen,
         box' \in Boxes, box'.queue = Append(box.queue, l), box'.seen = box.seen \union {l},
         post' \in Posts, post'.taken = Append(post.taken, l), post'.heard = post.heard,
         post'.batch = post.batch, post'.old = post.old
  PROVE  InboxInv'
<1> DEFINE q == box.queue
           h == post.heard
           t == post.taken
           s == box.seen
<1>1. q \in Seq(Lettered) /\ h \in Seq(Lettered) /\ t \in Seq(Lettered) /\ Kept(q, s, post)
  BY DEF InboxInv, BoxIsTyped, Boxes, Posts
<1>2. box'.queue = Append(q, l) /\ box'.seen = s \union {l} /\ post'.taken = Append(t, l) /\ post'.heard = h
      /\ l \notin s
  OBVIOUS
<1>3. h \o q = t /\ (\A i \in DOMAIN t : t[i] \in s \union post.old)
      /\ (\A i, j \in DOMAIN t : i # j /\ t[i] = t[j] => t[i] \in post.old)
      /\ s \subseteq ToSet(t) /\ (Len(post.batch) > 1 => SizeOf(post.batch) <= BatchRoom)
  BY <1>1 DEF Kept
<1> HIDE DEF q, h, t, s
<1>4. h \o Append(q, l) = Append(t, l)
  <2>1. Append(q, l) = q \o <<l>> /\ Append(t, l) = t \o <<l>> /\ <<l>> \in Seq(Lettered)
    BY <1>1, AppendIsConcat
  <2>2. (h \o q) \o <<l>> = h \o (q \o <<l>>)
    BY <1>1, <2>1, ConcatAssociative
  <2> QED BY <1>3, <2>1, <2>2
<1>5. /\ Len(t) \in Nat /\ DOMAIN t = 1..Len(t) /\ DOMAIN Append(t, l) = 1..(Len(t) + 1)
      /\ (\A i \in 1..Len(t) : Append(t, l)[i] = t[i]) /\ Append(t, l)[Len(t) + 1] = l
  BY <1>1
<1>6. \A i \in DOMAIN Append(t, l) : Append(t, l)[i] \in (s \union {l}) \union post.old
  BY <1>3, <1>5
<1>7. ASSUME NEW i \in DOMAIN Append(t, l), NEW j \in DOMAIN Append(t, l), i # j, Append(t, l)[i] = Append(t, l)[j]
      PROVE  Append(t, l)[i] \in post.old
  <2>1. CASE i \in 1..Len(t) /\ j \in 1..Len(t)
    BY <1>3, <1>5, <1>7, <2>1
  <2>2. CASE i = Len(t) + 1 /\ j \in 1..Len(t)
    BY <1>2, <1>3, <1>5, <1>7, <2>2
  <2>3. CASE j = Len(t) + 1 /\ i \in 1..Len(t)
    BY <1>2, <1>3, <1>5, <1>7, <2>3
  <2> QED BY <1>5, <1>7, <2>1, <2>2, <2>3
<1>8. s \union {l} \subseteq ToSet(Append(t, l))
  <2>1. \A i \in 1..Len(t) : t[i] \in ToSet(Append(t, l))
    BY <1>5 DEF ToSet
  <2>2. l \in ToSet(Append(t, l))
    BY <1>5 DEF ToSet
  <2>3. \A x \in s : \E i \in 1..Len(t) : x = t[i]
    BY <1>3, <1>5 DEF ToSet
  <2> QED BY <2>1, <2>2, <2>3
<1>9. Kept(box'.queue, box'.seen, post')
  BY <1>2, <1>3, <1>4, <1>6, <1>7, <1>8 DEF Kept
<1> QED BY <1>9 DEF InboxInv, BoxIsTyped

\* A letter comes: one of the five answers.
LEMMA LetterComes ==
  ASSUME InboxInv, NEW l \in Lettered, Comes(l)
  PROVE  InboxInv'
<1>1. box \in Boxes /\ post \in Posts
  BY DEF InboxInv, BoxIsTyped
<1>2. CASE AnswerTo(l) = "ack"
  <2>1. l \notin box.seen
    BY <1>2 DEF AnswerTo
  <2>2. /\ post.left.comes > 0
        /\ box' = [box EXCEPT !.queue = Append(@, l), !.seen = @ \union {l}, !.armed = TRUE,
                              !.spent[Letters[l].from] = [msgs |-> @.msgs + 1, bytes |-> @.bytes + Letters[l].size]]
        /\ post' = [post EXCEPT !.taken = Append(@, l), !.left.comes = @ - 1]
    BY <1>2 DEF Comes
  <2>3. Letters[l].from \in Froms /\ Letters[l].size \in Nat
    BY LettersAssumption DEF Froms, Lettered
  <2>4. /\ box.queue \in Seq(Lettered) /\ Append(box.queue, l) \in Seq(Lettered)
        /\ post.taken \in Seq(Lettered) /\ Append(post.taken, l) \in Seq(Lettered)
    BY <1>1 DEF Boxes, Posts
  <2>5. [box.spent EXCEPT ![Letters[l].from] = [msgs |-> @.msgs + 1, bytes |-> @.bytes + Letters[l].size]]
           \in [Froms -> [msgs : Nat, bytes : Nat]]
    BY <1>1, <2>3 DEF Boxes
  <2>6. box' \in Boxes /\ box'.queue = Append(box.queue, l) /\ box'.seen = box.seen \union {l}
    <3>1. PICK f : f = [box.spent EXCEPT ![Letters[l].from] = [msgs |-> @.msgs + 1, bytes |-> @.bytes + Letters[l].size]]
      OBVIOUS
    <3>2. box' = [box EXCEPT !.queue = Append(@, l), !.seen = @ \union {l}, !.armed = TRUE, !.spent = f]
      BY <2>2, <3>1
    <3>3. f \in [Froms -> [msgs : Nat, bytes : Nat]]
      BY <2>5, <3>1
    <3> QED BY <1>1, <2>4, <3>2, <3>3 DEF Boxes
  <2>7. /\ post' \in Posts /\ post'.taken = Append(post.taken, l) /\ post'.heard = post.heard
        /\ post'.batch = post.batch /\ post'.old = post.old
    <3>1. post.left.comes - 1 \in Nat
      BY <1>1, <2>2 DEF Posts
    <3> QED BY <1>1, <2>2, <2>4, <3>1 DEF Posts
  <2> QED BY <2>1, <2>6, <2>7, Accepted
<1>3. CASE AnswerTo(l) # "ack"
  <2>1. post' = post /\ (box' = box \/ box' = [box EXCEPT !.seen = box.seen])
    BY <1>3 DEF Comes, AfterBudget
  <2>2. box' \in Boxes /\ box'.queue = box.queue /\ box'.seen = box.seen
    BY <1>1, <2>1 DEF Boxes
  <2> QED BY <2>1, <2>2, NothingComes
<1> QED BY <1>2, <1>3

\* A letter is forgotten; or the plane starts again, with nothing that waited.
LEMMA Forgotten ==
  ASSUME InboxInv, BoxRestarts \/ \E l \in Lettered : SeenFades(l)
  PROVE  InboxInv'
<1> DEFINE q == box.queue
           h == post.heard
           t == post.taken
<1>1. /\ box \in Boxes /\ post \in Posts /\ Kept(q, box.seen, post)
      /\ q \in Seq(Lettered) /\ h \in Seq(Lettered) /\ t \in Seq(Lettered)
  BY DEF InboxInv, BoxIsTyped, Boxes, Posts
<1>2. ASSUME NEW l \in Lettered, SeenFades(l) PROVE InboxInv'
  <2>1. /\ box' = [box EXCEPT !.seen = @ \ {l}] /\ l \in box.seen
        /\ post' = [post EXCEPT !.old = @ \union {l}, !.left.lapses = @ - 1] /\ post.left.lapses > 0
    BY <1>2 DEF SeenFades
  <2>2. box' \in Boxes /\ box'.queue = q /\ box'.seen = box.seen \ {l}
    BY <1>1, <2>1 DEF Boxes
  <2>3. /\ post' \in Posts /\ post'.heard = h /\ post'.taken = t /\ post'.batch = post.batch
        /\ post'.old = post.old \union {l}
    <3>1. post.left.lapses - 1 \in Nat
      BY <1>1, <2>1 DEF Posts
    <3> QED BY <1>1, <2>1, <3>1 DEF Posts
  <2>4. Kept(q, box.seen \ {l}, post')
    <3>1. /\ h \o q = t
          /\ \A i \in DOMAIN t : t[i] \in box.seen \union post.old
          /\ \A i, j \in DOMAIN t : i # j /\ t[i] = t[j] => t[i] \in post.old
          /\ box.seen \subseteq ToSet(t)
          /\ Len(post.batch) > 1 => SizeOf(post.batch) <= BatchRoom
      BY <1>1 DEF Kept
    <3> HIDE DEF q, h, t
    <3>2. \A i \in DOMAIN t : t[i] \in (box.seen \ {l}) \union post'.old
      BY <2>3, <3>1
    <3>3. \A i, j \in DOMAIN t : i # j /\ t[i] = t[j] => t[i] \in post'.old
      BY <2>3, <3>1
    <3> QED BY <2>3, <3>1, <3>2, <3>3 DEF Kept
  <2> QED BY <2>2, <2>3, <2>4 DEF InboxInv, BoxIsTyped
<1>3. CASE BoxRestarts
  <2>1. /\ box' = NewPlane(box.idle) /\ post.left.lapses > 0
        /\ post' = [post EXCEPT !.left.lapses = @ - 1, !.old = @ \union box.seen,
                                !.taken = SubSeq(@, 1, Len(@) - Len(box.queue))]
    BY <1>3 DEF BoxRestarts
  <2>2. h \o q = t
    BY <1>1 DEF Kept
  <2>3. SubSeq(t, 1, Len(t) - Len(q)) = h
    <3> HIDE DEF q, h, t
    <3>1. Len(q) \in Nat /\ Len(h) \in Nat /\ Len(t) = Len(h) + Len(q)
      BY <1>1, <2>2
    <3>2. Len(t) - Len(q) = Len(h)
      BY <3>1
    <3>3. CASE h = <<>>
      BY <3>1, <3>2, <3>3, SubSeqEmpty
    <3>4. CASE h # <<>>
      <4>1. Len(h) >= 1
        BY <1>1, <3>4, EmptySeq
      <4>2. SubSeq(h \o q, 1, Len(h)) = SubSeq(h, 1, Len(h))
        BY <1>1, <3>1, <4>1, SubSeqOfConcat1
      <4>3. SubSeq(h, 1, Len(h)) = h
        BY <1>1, SubSeqFull
      <4> QED BY <2>2, <3>2, <4>2, <4>3
    <3> QED BY <3>3, <3>4
  <2>4. box' \in Boxes /\ box'.queue = <<>> /\ box'.seen = {}
    <3>1. <<>> \in Seq(Lettered) /\ Nothing \in [msgs : Nat, bytes : Nat]
      BY DEF Nothing
    <3>2. box.idle \in BOOLEAN
      BY <1>1 DEF Boxes
    <3> QED BY <2>1, <3>1, <3>2 DEF NewPlane, Boxes
  <2>5. /\ post' \in Posts /\ post'.heard = h /\ post'.taken = h /\ post'.batch = post.batch
        /\ post'.old = post.old \union box.seen
    <3>1. post.left.lapses - 1 \in Nat
      BY <1>1, <2>1 DEF Posts
    <3>2. post' = [post EXCEPT !.left.lapses = @ - 1, !.old = @ \union box.seen, !.taken = h]
      BY <2>1, <2>3
    <3>3. box.seen \in SUBSET Lettered
      BY <1>1 DEF Boxes
    <3> HIDE DEF h
    <3>4. h = post.heard
      BY DEF h
    <3> QED BY <1>1, <3>1, <3>2, <3>3, <3>4 DEF Posts
  <2>6. Kept(<<>>, {}, post')
    <3> HIDE DEF q, h, t
    <3>1. h \o <<>> = h
      BY <1>1, ConcatEmptySeq
    <3>2. /\ Len(h) \in Nat /\ DOMAIN h = 1..Len(h) /\ DOMAIN t = 1..Len(t) /\ Len(t) \in Nat /\ Len(t) >= Len(h)
          /\ \A i \in 1..Len(h) : h[i] = t[i]
      <4>1. Len(q) \in Nat /\ Len(h) \in Nat /\ Len(t) = Len(h) + Len(q)
        BY <1>1, <2>2
      <4>2. \A i \in 1..Len(h) : (h \o q)[i] = h[i]
        BY <1>1, <4>1, ConcatProperties
      <4> QED BY <1>1, <2>2, <4>1, <4>2
    <3>3. /\ \A i \in DOMAIN t : t[i] \in box.seen \union post.old
          /\ \A i, j \in DOMAIN t : i # j /\ t[i] = t[j] => t[i] \in post.old
          /\ Len(post.batch) > 1 => SizeOf(post.batch) <= BatchRoom
      BY <1>1 DEF Kept, t
    <3>4. \A i \in DOMAIN h : i \in DOMAIN t /\ h[i] = t[i]
      BY <3>2
    <3> QED BY <2>5, <3>1, <3>3, <3>4 DEF Kept
  <2> QED BY <2>4, <2>5, <2>6 DEF InboxInv, BoxIsTyped
<1> QED BY <1>2, <1>3

LEMMA InboxStarts == InboxInit => InboxInv
<1> SUFFICES ASSUME InboxInit PROVE InboxInv
  OBVIOUS
<1>1. <<>> \in Seq(Lettered) /\ Nothing \in [msgs : Nat, bytes : Nat] /\ Len(<<>>) = 0 /\ <<>> \o <<>> = <<>>
      /\ DOMAIN <<>> = {}
  <2>1. <<>> \in Seq(Lettered) /\ DOMAIN <<>> = {}
    OBVIOUS
  <2> QED BY <2>1, ConcatEmptySeq, EmptySeq DEF Nothing
<1>2. box \in Boxes /\ box.queue = <<>> /\ box.seen = {}
  BY <1>1 DEF InboxInit, NewPlane, Boxes
<1>3. post \in Posts /\ post.taken = <<>> /\ post.heard = <<>> /\ post.batch = <<>>
  BY <1>1, BudgetAssumption DEF InboxInit, Posts
<1> QED BY <1>1, <1>2, <1>3 DEF InboxInv, BoxIsTyped, Kept

LEMMA InboxSteps == InboxInv /\ [InboxNext]_boxVars => InboxInv'
<1> SUFFICES ASSUME InboxInv, [InboxNext]_boxVars PROVE InboxInv'
  OBVIOUS
<1>1. box \in Boxes
  BY DEF InboxInv, BoxIsTyped
<1>2. ASSUME NEW f \in Froms, WindowPasses(f) PROVE InboxInv'
  <2>1. box' = [box EXCEPT !.spent[f] = Nothing] /\ post' = post /\ Nothing \in [msgs : Nat, bytes : Nat]
    BY <1>2 DEF WindowPasses, Nothing
  <2>2. box' \in Boxes /\ box'.queue = box.queue /\ box'.seen = box.seen
    BY <1>1, <2>1 DEF Boxes
  <2> QED BY <2>1, <2>2, NothingComes
<1>3. CASE TurnStarts \/ Cools
  <2>1. post' = post /\ (box' = [box EXCEPT !.idle = FALSE] \/ box' = [box EXCEPT !.cooling = FALSE])
    BY <1>3 DEF TurnStarts, Cools
  <2>2. box' \in Boxes /\ box'.queue = box.queue /\ box'.seen = box.seen
    BY <1>1, <2>1 DEF Boxes
  <2> QED BY <2>1, <2>2, NothingComes
<1>4. CASE BoxTimer
  BY <1>1, <1>4, Flushed DEF BoxTimer
<1>5. CASE TurnEnds
  <2>1. PICK b : b = [box EXCEPT !.idle = TRUE]
    OBVIOUS
  <2>2. Flush(b)
    BY <1>5, <2>1 DEF TurnEnds
  <2>3. b \in Boxes /\ b.queue = box.queue /\ b.seen = box.seen
    BY <1>1, <2>1 DEF Boxes
  <2> QED BY <2>2, <2>3, Flushed
<1>6. CASE MinutePasses
  <2>1. PICK b : b = [box EXCEPT !.wakes = 0]
    OBVIOUS
  <2>2. Flush(b)
    BY <1>6, <2>1 DEF MinutePasses
  <2>3. b \in Boxes /\ b.queue = box.queue /\ b.seen = box.seen
    BY <1>1, <2>1 DEF Boxes
  <2> QED BY <2>2, <2>3, Flushed
<1>7. CASE UNCHANGED boxVars
  BY <1>1, <1>7, NothingComes DEF boxVars
<1>8. CASE \E l \in Lettered : Comes(l) \/ SeenFades(l)
  BY <1>8, LetterComes, Forgotten
<1> QED BY <1>2, <1>3, <1>4, <1>5, <1>6, <1>7, <1>8, Forgotten DEF InboxNext, Lettered

LEMMA InboxKeepsTrue == InboxInv => InboxIsTrue
BY DEF InboxInv, Kept, InboxIsTrue

---------------------------------------------------------------------------
(* Waits, any number of them.  The invariant ties the stage of a call to its *)
(* timer and its place in the list of waiters, and an answer that was        *)
(* returned, or seen at the registration, to the ledger, where answers stay. *)

WaitEndings == {"returned", "threw", "left", "answer", "timed out", "unreadable", "cancelled"}
WaitRecords ==
  [at : {"free", "read", "registered", "armed", "over"}, since : {"pending", "answered", "gone"},
   timer : BOOLEAN, listed : BOOLEAN, ends : {<<>>} \union {<<e>> : e \in WaitEndings}]

\* What a call has come to: listed and timed while it waits, over when it ended.
CallInv(r) ==
  /\ r.at = "over" <=> r.ends # <<>>
  /\ r.listed <=> r.at \in {"registered", "armed"}
  /\ r.timer = r.listed
  /\ r.at = "armed" => r.since # "answered"

\* An answer, once in the ledger, stays: what was returned remains so.
AnswerInv(r) ==
  /\ r.since = "answered" => ask = "answered"
  /\ r.ends = <<"returned">> => ask = "answered" /\ notices \cap {"timed out", "left"} = {}

\* The calls, the ledger and the notices agree.
WaitsInv ==
  /\ ask \in {"pending", "answered", "gone"} /\ wait \in [Waits -> WaitRecords]
  /\ \A w \in Waits : CallInv(wait[w]) /\ AnswerInv(wait[w])

\* install.ts:515: a waiter that ends, whoever ends it, leaves no timer and no entry.
LEMMA EndedOnce ==
  ASSUME NEW r \in WaitRecords, CallInv(r), r.at # "over", NEW how \in WaitEndings
  PROVE  /\ Ended(r, how) \in WaitRecords /\ CallInv(Ended(r, how))
         /\ Ended(r, how).ends = <<how>> /\ Ended(r, how).since = r.since
<1>1. r.ends = <<>> BY DEF WaitRecords, CallInv
<1>2. Append(r.ends, how) = <<how>> BY <1>1
<1>3. Ended(r, how).ends = <<how>> BY <1>2 DEF Ended, WaitRecords
<1>4. Ended(r, how) \in WaitRecords BY <1>2 DEF Ended, WaitRecords
<1> QED BY <1>3, <1>4 DEF Ended, WaitRecords, CallInv

\* expireWaiters: those that are gone end, the others stay as they are.
LEMMA ExpiringKeeps ==
  ASSUME NEW ws \in [Waits -> WaitRecords], NEW gone \in SUBSET Waits,
         \A w \in Waits : CallInv(ws[w]), \A w \in gone : ws[w].at # "over"
  PROVE  /\ Expiring(gone, ws) \in [Waits -> WaitRecords]
         /\ \A w \in Waits : CallInv(Expiring(gone, ws)[w]) /\ Expiring(gone, ws)[w].since = ws[w].since
         /\ \A w \in Waits : Expiring(gone, ws)[w].ends = ws[w].ends \/ Expiring(gone, ws)[w].ends = <<"left">>
<1>1. ASSUME NEW w \in Waits
      PROVE  /\ Expiring(gone, ws)[w] \in WaitRecords /\ CallInv(Expiring(gone, ws)[w])
             /\ Expiring(gone, ws)[w].since = ws[w].since
             /\ Expiring(gone, ws)[w].ends = ws[w].ends \/ Expiring(gone, ws)[w].ends = <<"left">>
  <2>1. CASE w \in gone
    <3>1. Expiring(gone, ws)[w] = Ended(ws[w], "left") BY <2>1 DEF Expiring
    <3>2. ws[w] \in WaitRecords /\ CallInv(ws[w]) /\ ws[w].at # "over" /\ "left" \in WaitEndings BY <2>1 DEF WaitEndings
    <3> QED BY <3>1, <3>2, EndedOnce
  <2>2. CASE w \notin gone BY <2>2 DEF Expiring
  <2> QED BY <2>1, <2>2
<1>2. Expiring(gone, ws) = [w \in Waits |-> Expiring(gone, ws)[w]] BY DEF Expiring
<1> QED BY <1>1, <1>2

\* What the whole invariant needs of a step: each call keeps its own part, and
\* the notices and the ask contradict no answer that was returned.
LEMMA StepByStep ==
  ASSUME WaitsInv, ask' \in {"pending", "answered", "gone"}, ask = "answered" => ask' = "answered",
         wait' \in [Waits -> WaitRecords],
         ask = "answered" => notices' \cap {"timed out", "left"} \subseteq notices,
         \A w \in Waits : CallInv(wait'[w]) /\ (wait'[w].since = wait[w].since \/ wait'[w].since = ask),
         \A w \in Waits : wait'[w].ends = <<"returned">> =>
            wait[w].ends = <<"returned">> \/ (ask = "answered" /\ notices' \cap {"timed out", "left"} = {})
  PROVE  WaitsInv'
BY DEF WaitsInv, AnswerInv, CallInv

\* One call moves to r.
LEMMA OneMoves ==
  ASSUME WaitsInv, NEW w \in Waits, NEW r \in WaitRecords, CallInv(r)
  PROVE  /\ [wait EXCEPT ![w] = r] \in [Waits -> WaitRecords]
         /\ \A v \in Waits : CallInv([wait EXCEPT ![w] = r][v])
         /\ \A v \in Waits : [wait EXCEPT ![w] = r][v] = IF v = w THEN r ELSE wait[v]
BY DEF WaitsInv

\* A call w moves to r, and a reading of the ledger ends the waiters gone.
LEMMA OneMovesSomeExpire ==
  ASSUME WaitsInv, NEW w \in Waits, NEW r \in WaitRecords, CallInv(r), NEW gone \in SUBSET Waits,
         \A v \in gone : wait[v].at # "over", w \in gone => r.at # "over",
         wait' = Expiring(gone, [wait EXCEPT ![w] = r]), ask' = ask,
         ask = "answered" => notices' \cap {"timed out", "left"} \subseteq notices,
         r.since = wait[w].since, r.ends # <<"returned">>
  PROVE  WaitsInv'
<1> DEFINE ws == [wait EXCEPT ![w] = r]
<1> DEFINE es == Expiring(gone, ws)
<1>1. /\ ws \in [Waits -> WaitRecords] /\ \A v \in Waits : CallInv(ws[v])
      /\ \A v \in Waits : ws[v] = IF v = w THEN r ELSE wait[v]
  BY OneMoves
<1>2. wait' = es /\ \A v \in gone : ws[v].at # "over" BY <1>1
<1> HIDE DEF ws
<1>3. ws \in [Waits -> WaitRecords] BY <1>1
<1>4. \A v \in Waits : CallInv(ws[v]) BY <1>1
<1>5. /\ es \in [Waits -> WaitRecords]
      /\ \A v \in Waits : CallInv(es[v]) /\ es[v].since = ws[v].since
      /\ \A v \in Waits : es[v].ends = ws[v].ends \/ es[v].ends = <<"left">>
  BY <1>2, <1>3, <1>4, ExpiringKeeps, Zenon
<1> HIDE DEF es
<1>6. <<"left">> # <<"returned">> OBVIOUS
<1>7. \A v \in Waits : wait'[v].since = wait[v].since \/ wait'[v].since = ask BY <1>1, <1>2, <1>5
<1>8. \A v \in Waits : wait'[v].ends = <<"returned">> => wait[v].ends = <<"returned">> BY <1>1, <1>2, <1>5, <1>6
<1>9. ask' \in {"pending", "answered", "gone"} /\ (ask = "answered" => ask' = "answered") BY DEF WaitsInv
<1> QED BY <1>2, <1>5, <1>7, <1>8, <1>9, StepByStep

\* The leavers are waiters of a pending ask, and the notice of it is theirs.
LEMMA LeaversWait ==
  ASSUME WaitsInv, NEW sees \in BOOLEAN
  PROVE  /\ Leavers(sees) \in SUBSET Waits
         /\ \A w \in Leavers(sees) : wait[w].at \in {"registered", "armed"} /\ wait[w].at # "over"
         /\ ask = "answered" => Leavers(sees) = {} /\ LeftNotice(Leavers(sees)) = {}
BY DEF WaitsInv, CallInv, Leavers, Waiters, LeftNotice

\* A call that returns the answer takes the notices about it along.
LEMMA OneReturns ==
  ASSUME WaitsInv, NEW w \in Waits, CallInv(wait[w]), wait[w].at # "over", ask = "answered", ask' = ask,
         wait' = [wait EXCEPT ![w] = Ended(@, "returned")], notices' = notices \ Stale
  PROVE  WaitsInv'
<1>1. wait[w] \in WaitRecords /\ "returned" \in WaitEndings BY DEF WaitsInv, WaitEndings
<1>2. /\ Ended(wait[w], "returned") \in WaitRecords /\ CallInv(Ended(wait[w], "returned"))
      /\ Ended(wait[w], "returned").since = wait[w].since
  BY <1>1, EndedOnce
<1>3. /\ wait' \in [Waits -> WaitRecords] /\ \A v \in Waits : CallInv(wait'[v])
      /\ \A v \in Waits : wait'[v] = IF v = w THEN Ended(wait[w], "returned") ELSE wait[v]
  BY <1>2, OneMoves
<1>4. notices' = {} BY DEF Stale
<1> QED BY <1>2, <1>3, <1>4, StepByStep DEF WaitsInv

\* A call ends by itself, without the answer.
LEMMA OneEnds ==
  ASSUME WaitsInv, NEW w \in Waits, CallInv(wait[w]), wait[w].at # "over", ask' = ask,
         NEW how \in WaitEndings \ {"returned"}, wait' = [wait EXCEPT ![w] = Ended(@, how)],
         ask = "answered" => notices' \cap {"timed out", "left"} \subseteq notices
  PROVE  WaitsInv'
<1>1. wait[w] \in WaitRecords BY DEF WaitsInv
<1>2. /\ Ended(wait[w], how) \in WaitRecords /\ CallInv(Ended(wait[w], how))
      /\ Ended(wait[w], how).since = wait[w].since /\ Ended(wait[w], how).ends = <<how>>
  BY <1>1, EndedOnce
<1>3. /\ wait' \in [Waits -> WaitRecords] /\ \A v \in Waits : CallInv(wait'[v])
      /\ \A v \in Waits : wait'[v] = IF v = w THEN Ended(wait[w], how) ELSE wait[v]
  BY <1>2, OneMoves
<1>4. <<how>> # <<"returned">> OBVIOUS
<1> QED BY <1>2, <1>3, <1>4, StepByStep DEF WaitsInv

\* The answer's frame, or a stop, ends every waiter.
LEMMA AllEnd ==
  ASSUME WaitsInv, NEW how \in WaitEndings \ {"returned"},
         wait' = [w \in Waits |-> IF w \in Waiters THEN Ended(wait[w], how) ELSE wait[w]],
         ask' \in {"pending", "answered", "gone"}, ask = "answered" => ask' = "answered",
         notices' \subseteq notices \union {"answer"}
  PROVE  WaitsInv'
<1>1. ASSUME NEW w \in Waits
      PROVE  /\ wait'[w] \in WaitRecords /\ CallInv(wait'[w]) /\ wait'[w].since = wait[w].since
             /\ wait'[w].ends = wait[w].ends \/ wait'[w].ends = <<how>>
  <2>1. wait[w] \in WaitRecords /\ CallInv(wait[w]) BY DEF WaitsInv
  <2>2. CASE w \in Waiters
    <3>1. wait[w].at # "over" BY <2>1, <2>2 DEF Waiters, CallInv
    <3> QED BY <2>1, <2>2, <3>1, EndedOnce
  <2>3. CASE w \notin Waiters BY <2>1, <2>3
  <2> QED BY <2>2, <2>3
<1>2. wait' = [w \in Waits |-> wait'[w]] OBVIOUS
<1>3. wait' \in [Waits -> WaitRecords] BY <1>1, <1>2
<1>4. <<how>> # <<"returned">> OBVIOUS
<1> QED BY <1>1, <1>3, <1>4, StepByStep DEF WaitsInv

LEMMA WaitsStarts == ASSUME NEW open, WaitsStart(open) PROVE WaitsInv
<1>1. NoWait \in WaitRecords /\ CallInv(NoWait) /\ NoWait.since = "pending" /\ NoWait.ends = <<>>
  BY DEF NoWait, WaitRecords, CallInv
<1>2. <<>> # <<"returned">> OBVIOUS
<1>3. \A w \in Waits : wait[w] = NoWait BY DEF WaitsStart
<1>4. wait \in [Waits -> WaitRecords] BY <1>1 DEF WaitsStart
<1>5. ask = "pending" BY DEF WaitsStart
<1>6. ASSUME NEW w \in Waits PROVE CallInv(wait[w]) /\ AnswerInv(wait[w])
  BY <1>1, <1>2, <1>3, <1>5 DEF AnswerInv
<1> QED BY <1>4, <1>5, <1>6 DEF WaitsInv

\* However calls, timers, frames, prunings, commits and a stop interleave, the
\* calls, the ledger and the notices agree (install.ts, exocom_wait).
LEMMA WaitsSteps == WaitsInv /\ [WaitsNext]_waitVars => WaitsInv'
<1> SUFFICES ASSUME WaitsInv, [WaitsNext]_waitVars PROVE WaitsInv' OBVIOUS
<1>0. ASSUME NEW w \in Waits PROVE wait[w] \in WaitRecords /\ CallInv(wait[w]) BY DEF WaitsInv
<1>1. ASSUME NEW w \in Waits, FirstRead(w) PROVE WaitsInv'
  <2>1. wait[w] \in WaitRecords /\ CallInv(wait[w]) /\ wait[w].at = "free" /\ ask' = ask
    BY <1>0, <1>1 DEF FirstRead
  <2>2. CASE ask = "answered" /\ wait' = [wait EXCEPT ![w] = Ended(@, "returned")] /\ notices' = notices \ Stale
    BY <2>1, <2>2, OneReturns
  <2>3. ASSUME NEW sees \in BOOLEAN, ask # "answered", notices' = notices \union LeftNotice(Leavers(sees)),
               wait' = Expiring(Leavers(sees), [wait EXCEPT ![w] =
                         IF Pending(sees) THEN [@ EXCEPT !.at = "read"] ELSE Ended(@, "threw")])
        PROVE  WaitsInv'
    <3> DEFINE r == IF Pending(sees) THEN [wait[w] EXCEPT !.at = "read"] ELSE Ended(wait[w], "threw")
    <3>1. r \in WaitRecords /\ CallInv(r) /\ r.since = wait[w].since /\ r.ends # <<"returned">>
      <4>1. CASE Pending(sees)
        BY <2>1, <4>1 DEF WaitRecords, CallInv
      <4>2. CASE ~Pending(sees)
        <5>1. r = Ended(wait[w], "threw") BY <4>2
        <5>2. <<"threw">> # <<"returned">> /\ "threw" \in WaitEndings BY DEF WaitEndings
        <5>3. /\ Ended(wait[w], "threw") \in WaitRecords /\ CallInv(Ended(wait[w], "threw"))
              /\ Ended(wait[w], "threw").since = wait[w].since /\ Ended(wait[w], "threw").ends # <<"returned">>
          BY <2>1, <5>2, EndedOnce
        <5> HIDE DEF r
        <5> QED BY <5>1, <5>3
      <4> QED BY <4>1, <4>2
    <3>2. wait' = Expiring(Leavers(sees), [wait EXCEPT ![w] = r]) BY <2>3
    <3> HIDE DEF r
    <3>3. ~wait[w].listed BY <2>1 DEF CallInv
    <3>4. Leavers(sees) \in SUBSET Waits /\ \A v \in Leavers(sees) : wait[v].at # "over" BY LeaversWait
    <3>5. w \notin Leavers(sees) BY <3>3 DEF Leavers, Waiters
    <3>6. ask = "answered" => notices' \cap {"timed out", "left"} \subseteq notices BY <2>3
    <3> QED BY <2>1, <3>1, <3>2, <3>4, <3>5, <3>6, OneMovesSomeExpire, ZenonT(30)
  <2>4. CASE wait' = [wait EXCEPT ![w] = Ended(@, "threw")] /\ UNCHANGED notices
    BY <2>1, <2>4, OneEnds DEF WaitEndings
  <2> QED BY <1>1, <2>2, <2>3, <2>4 DEF FirstRead
<1>2. ASSUME NEW w \in Waits, Register(w) PROVE WaitsInv'
  <2> DEFINE r == [wait[w] EXCEPT !.at = "registered", !.since = ask, !.timer = TRUE, !.listed = TRUE]
  <2>1. wait[w] \in WaitRecords /\ CallInv(wait[w]) BY <1>0
  <2>2. r \in WaitRecords /\ CallInv(r) /\ r.since = ask /\ r.ends = <<>>
    BY <1>2, <2>1 DEF Register, WaitRecords, CallInv, WaitsInv
  <2>3. wait' = [wait EXCEPT ![w] = r] /\ ask' = ask /\ notices' = notices BY <1>2 DEF Register
  <2> HIDE DEF r
  <2>4. /\ wait' \in [Waits -> WaitRecords] /\ \A v \in Waits : CallInv(wait'[v])
        /\ \A v \in Waits : wait'[v] = IF v = w THEN r ELSE wait[v]
    BY <2>2, <2>3, OneMoves
  <2>5. <<>> # <<"returned">> OBVIOUS
  <2> QED BY <2>2, <2>3, <2>4, <2>5, StepByStep DEF WaitsInv
<1>3. ASSUME NEW w \in Waits, SecondRead(w) PROVE WaitsInv'
  <2>1. wait[w] \in WaitRecords /\ CallInv(wait[w]) /\ wait[w].at = "registered" /\ ask' = ask
    BY <1>0, <1>3 DEF SecondRead
  <2>2. CASE SeesAnswer /\ wait' = [wait EXCEPT ![w] = Ended(@, "returned")] /\ notices' = notices \ Stale
    BY <2>1, <2>2, OneReturns DEF SeesAnswer
  <2>3. ASSUME NEW sees \in BOOLEAN, ~SeesAnswer, notices' = notices \union LeftNotice(Leavers(sees)),
               wait' = Expiring(Leavers(sees), [wait EXCEPT ![w].at = "armed"])
        PROVE  WaitsInv'
    <3> DEFINE r == [wait[w] EXCEPT !.at = "armed"]
    <3>1. r \in WaitRecords /\ CallInv(r) /\ r.since = wait[w].since /\ r.ends # <<"returned">>
      <4>1. wait[w].since # "answered" BY <1>0, <2>3 DEF SeesAnswer, WaitsInv, AnswerInv
      <4>2. <<>> # <<"returned">> OBVIOUS
      <4> QED BY <2>1, <4>1, <4>2 DEF WaitRecords, CallInv
    <3>2. wait' = Expiring(Leavers(sees), [wait EXCEPT ![w] = r]) BY <2>3
    <3>3. r.at # "over" BY <2>1 DEF WaitRecords
    <3> HIDE DEF r
    <3>4. Leavers(sees) \in SUBSET Waits /\ \A v \in Leavers(sees) : wait[v].at # "over" BY LeaversWait
    <3>5. ask = "answered" => notices' \cap {"timed out", "left"} \subseteq notices BY <2>3 DEF SeesAnswer
    <3> QED BY <2>1, <3>1, <3>2, <3>3, <3>4, <3>5, OneMovesSomeExpire, ZenonT(30)
  <2>4. CASE wait' = [wait EXCEPT ![w] = Ended(@, "threw")] /\ UNCHANGED notices
    BY <2>1, <2>4, OneEnds DEF WaitEndings
  <2> QED BY <1>3, <2>2, <2>3, <2>4 DEF SecondRead
<1>4. ASSUME NEW w \in Waits, WaitTimesOut(w) PROVE WaitsInv'
  <2>1. wait[w] \in WaitRecords /\ CallInv(wait[w]) /\ wait[w].at # "over" /\ ask' = ask
    BY <1>0, <1>4 DEF WaitTimesOut, CallInv
  <2>2. ASSUME NEW sees \in BOOLEAN,
               wait' = Expiring(Leavers(sees) \ {w}, [wait EXCEPT ![w] = Ended(@, TimerFinds)]),
               notices' = notices \union LeftNotice(Leavers(sees) \ {w}) \union {TimerFinds}
        PROVE  WaitsInv'
    <3> DEFINE r == Ended(wait[w], TimerFinds)
    <3> DEFINE others == Leavers(sees) \ {w}
    <3>1. TimerFinds \in WaitEndings \ {"returned"} /\ (ask = "answered" => TimerFinds = "answer")
      BY DEF TimerFinds, WaitEndings
    <3>2. <<TimerFinds>> # <<"returned">> BY <3>1
    <3>3. r \in WaitRecords /\ CallInv(r) /\ r.since = wait[w].since /\ r.ends # <<"returned">>
      BY <2>1, <3>1, <3>2, EndedOnce
    <3>4. wait' = Expiring(others, [wait EXCEPT ![w] = r]) BY <2>2
    <3>5. others \in SUBSET Waits /\ w \notin others /\ \A v \in others : wait[v].at # "over" BY LeaversWait
    <3>6. ask = "answered" => LeftNotice(others) = {} BY LeaversWait DEF LeftNotice
    <3>7. ask = "answered" => notices' \cap {"timed out", "left"} \subseteq notices BY <2>2, <3>1, <3>6
    <3> HIDE DEF r, others
    <3> QED BY <2>1, <3>3, <3>4, <3>5, <3>7, OneMovesSomeExpire, ZenonT(30)
  <2>3. CASE wait' = [wait EXCEPT ![w] = Ended(@, "unreadable")] /\ notices' = notices \union {"unreadable"}
    BY <2>1, <2>3, OneEnds DEF WaitEndings
  <2> QED BY <1>4, <2>2, <2>3 DEF WaitTimesOut
<1>5. ASSUME NEW b \in BOOLEAN, PeerAnswers(b) PROVE WaitsInv'
  BY <1>5 DEF PeerAnswers, WaitsInv, AnswerInv
<1>6. ASSUME NEW b \in BOOLEAN, WakeArrives(b) PROVE WaitsInv'
  <2>1. CASE b
    BY <1>6, <2>1, AllEnd DEF WakeArrives, WaitEndings, WaitsInv
  <2>2. CASE ~b BY <1>6, <2>2 DEF WakeArrives, WaitsInv, AnswerInv
  <2> QED BY <2>1, <2>2
<1>7. CASE Upkeep
  <2>1. PICK sees \in BOOLEAN : /\ Leavers(sees) # {} /\ wait' = Expiring(Leavers(sees), wait)
                                /\ notices' = notices \union LeftNotice(Leavers(sees))
    BY <1>7 DEF Upkeep
  <2>2. /\ Leavers(sees) \in SUBSET Waits /\ \A v \in Leavers(sees) : wait[v].at # "over"
        /\ ask # "answered"
    BY <2>1, LeaversWait
  <2>3. wait \in [Waits -> WaitRecords] /\ \A v \in Waits : CallInv(wait[v]) BY DEF WaitsInv
  <2>4. /\ wait' \in [Waits -> WaitRecords]
        /\ \A v \in Waits : CallInv(wait'[v]) /\ wait'[v].since = wait[v].since
        /\ \A v \in Waits : wait'[v].ends = wait[v].ends \/ wait'[v].ends = <<"left">>
    BY <2>1, <2>2, <2>3, ExpiringKeeps, Zenon
  <2>5. <<"left">> # <<"returned">> /\ ask' = ask BY <1>7 DEF Upkeep
  <2> QED BY <2>2, <2>4, <2>5, StepByStep DEF WaitsInv
<1>8. CASE Pruned BY <1>8 DEF Pruned, WaitsInv, AnswerInv
<1>9. CASE PoolChanges BY <1>9 DEF PoolChanges, WaitsInv, AnswerInv
<1>10. CASE Told BY <1>10 DEF Told, WaitsInv, AnswerInv
<1>11. CASE StopExocom
  <2>1. /\ ask' \in {"pending", "answered", "gone"} /\ (ask = "answered" => ask' = "answered")
        /\ notices' = {} /\ wait' = [w \in Waits |-> IF w \in Waiters THEN Ended(wait[w], "cancelled") ELSE wait[w]]
    BY <1>11 DEF StopExocom, WaitsInv
  <2>2. "cancelled" \in WaitEndings \ {"returned"} /\ notices' \subseteq notices \union {"answer"}
    BY <2>1 DEF WaitEndings
  <2> QED BY <2>1, <2>2, AllEnd
<1>12. CASE UNCHANGED waitVars BY <1>12 DEF waitVars, WaitsInv, AnswerInv
<1> QED BY <1>1, <1>2, <1>3, <1>4, <1>5, <1>6, <1>7, <1>8, <1>9, <1>10, <1>11, <1>12 DEF WaitsNext

LEMMA WaitsKeepTrue == WaitsInv => WaitsAreTrue
<1> SUFFICES ASSUME WaitsInv, NEW w \in Waits
             PROVE  LET r == wait[w]  ends == {r.ends[i] : i \in DOMAIN r.ends} IN
                    /\ Len(r.ends) <= 1 /\ (r.listed <=> r.timer) /\ (r.at = "armed" => r.listed)
                    /\ r.at = "armed" => r.since # "answered"
                    /\ "returned" \in ends => notices \cap {"timed out", "left"} = {}
  BY DEF WaitsAreTrue
<1>1. wait[w] \in WaitRecords /\ CallInv(wait[w]) /\ AnswerInv(wait[w]) BY DEF WaitsInv
<1>2. wait[w].ends = <<>> \/ \E e \in WaitEndings : wait[w].ends = <<e>> BY <1>1 DEF WaitRecords
<1>3. CASE wait[w].ends = <<>> BY <1>1, <1>3 DEF CallInv, WaitRecords
<1>4. ASSUME NEW e \in WaitEndings, wait[w].ends = <<e>> PROVE
         /\ Len(wait[w].ends) <= 1
         /\ "returned" \in {wait[w].ends[i] : i \in DOMAIN wait[w].ends} => wait[w].ends = <<"returned">>
  BY <1>4
<1> QED BY <1>1, <1>2, <1>3, <1>4 DEF CallInv, AnswerInv, WaitRecords

---------------------------------------------------------------------------
(* The whole *)

SessionsInv == QueueInv /\ EntriesInv /\ MailInv /\ InboxInv /\ WaitsInv

\* A step of the whole is a step, or a rest, of each part.
LEMMA PartsMove ==
  ASSUME [Next]_vars
  PROVE  [PoolNext]_poolVars /\ [MailNext]_mailVars /\ [InboxNext]_boxVars /\ [WaitsNext]_waitVars
BY DEF Next, vars

LEMMA PartsStart ==
  ASSUME Init
  PROVE  /\ \E l \in {"on", "dead"} : Starting(l)
         /\ MailInit /\ InboxInit /\ \E open \in BOOLEAN : WaitsStart(open)
BY DEF Init, PoolInit, NoPool, NoMail, NoWaits, WaitsInit

\* The invariants of the parts hold throughout.
THEOREM SessionsInvariant == Spec => []SessionsInv
<1>1. Init => SessionsInv
  BY PartsStart, QueueStarts, EntriesStart, MailStarts, InboxStarts, WaitsStarts DEF SessionsInv
<1>2. SessionsInv /\ [Next]_vars => SessionsInv'
  BY PartsMove, QueueSteps, EntriesSteps, MailSteps, InboxSteps, WaitsSteps DEF SessionsInv
<1> QED BY <1>1, <1>2, PTL DEF Spec

\* plane.ts:1003, install.ts:497, inbound.ts:96: whatever is lost, late, repeated, pruned or
\* restarted, what a session is told of its messages and its waits is so, their
\* files match it, and it hears what it accepted, in order and once.
THEOREM SessionsAreToldTheTruth == Spec => []ToldTheTruth
<1>1. SessionsInv => ToldTheTruth
  BY MailIsTrue, InboxKeepsTrue, WaitsKeepTrue DEF SessionsInv, ToldTheTruth
<1> QED BY <1>1, SessionsInvariant, PTL

\* hooks.ts:325: in any number of sessions, a session that was shut down ends without a plane.
THEOREM ShutdownEndsPlane == Spec => []ShutdownLeavesNoPlane
<1>1. SessionsInv => ShutdownLeavesNoPlane
  BY QueueIsObeyed DEF SessionsInv
<1> QED BY <1>1, SessionsInvariant, PTL

\* registry.ts:277: among any number of sessions, however often their planes start,
\* end, are pruned or said goodbye, no removal takes an entry but the one it was
\* meant for, and between two none is displaced.
THEOREM RegistryKeepsEntries == Spec => []RegistryIsTrue
<1>1. SessionsInv => RegistryIsTrue
  BY QueueIsObeyed, EntriesAreKept DEF SessionsInv, RegistryIsTrue
<1> QED BY <1>1, SessionsInvariant, PTL
====
