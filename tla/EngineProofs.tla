---- MODULE EngineProofs ----
(***************************************************************************)
(* For any legs, readers and bounds: the recursion guard stands exactly    *)
(* while some session is being built, a settled leg of either engine has   *)
(* nothing left, both engines keep the contract of a leg, and no run turns *)
(* to a provider it may not or twice.                                      *)
(***************************************************************************)
EXTENDS EngineRuns, FiniteSetTheorems, TLAPS

Fields == {"life", "cause", "verdict", "signal", "listening", "armed", "progressed", "factory",
           "session", "host", "grant", "handle", "ask", "mail", "calls"}
Shaped(x) == x = [f \in Fields |-> x[f]]

\* What is said of one in-process leg, from before its beginning to after its
\* end.  A factory still at work in a settled leg is one the leg was cut from.
LegFits(x) ==
  /\ Shaped(x)
  /\ x.life = "idle" => x.factory = "none"
  /\ x.life = "building" /\ x.factory = "made" /\ x.cause = "none" => x.session = "live"
  /\ x.life = "running" => x.mail = 0 /\ x.session = "live" /\ x.factory = "made"
  /\ x.life = "settled" /\ x.factory = "building" =>
       x.cause # "none" /\ x.verdict # "provider"
  /\ x.life \in {"idle", "settled"} =>
       /\ x.armed = {} /\ ~x.listening /\ ~x.handle
       /\ x.ask # "pending" /\ x.session # "live"
       /\ x.grant => x.factory = "none"

LegsInv ==
  /\ leg = [l \in Legs |-> leg[l]]
  /\ \A l \in Legs : LegFits(leg[l])

\* The legs whose session factory has not come back.
Building == {l \in Legs : leg[l].factory = "building"}

GuardInv ==
  /\ depth = Cardinality(Building)
  /\ disable = IF Building = {} THEN "user" ELSE "on"
  /\ Building # {} => saved = "user"

ChildFields == {"life", "cause", "verdict", "signal", "listening", "armed", "progressed", "grant",
                "handle", "promptFile", "ask", "killing", "forced", "flooded", "root", "exit",
                "exited", "kid", "pipe", "calls"}
ChildShaped(x) == x = [f \in ChildFields |-> x[f]]

Stages == {"idle", "preparing", "prompting", "running", "settled"}

\* What is said of the child leg.
ChildFits(x) ==
  /\ ChildShaped(x) /\ x.life \in Stages
  /\ x.life \in {"idle", "preparing", "prompting"} =>
       /\ x.armed = {} /\ ~x.listening /\ ~x.promptFile /\ ~x.killing
       /\ x.ask = "none" /\ x.root = "none" /\ ~x.exited
  /\ x.life \in {"idle", "preparing"} => ~x.grant /\ ~x.handle
  /\ x.life = "running" =>
       /\ ~x.exited
       /\ "lastResort" \in x.armed => x.killing
       /\ x.killing /\ x.root # "none" => "grace" \in x.armed \/ x.forced
  /\ x.life = "settled" =>
       /\ x.armed = {} /\ ~x.listening /\ ~x.handle /\ ~x.grant /\ ~x.promptFile
       /\ x.ask # "pending"
       /\ x.root # "none" => x.exited \/ x.killing
       /\ x.root = "alive" => x.forced

EngineInv == LegsInv /\ GuardInv /\ ChildFits(child)

---------------------------------------------------------------------------
\* A leg that has not begun has nothing.
LEMMA FreshLegFits ==
  ASSUME NEW s
  PROVE  LegFits(FreshLeg(s)) /\ FreshLeg(s).factory = "none"
BY DEF FreshLeg, LegFits, Shaped, Fields

\* Tearing a leg down takes all that it held.
LEMMA TornDownIs ==
  ASSUME NEW x, Shaped(x)
  PROVE  LET y == TornDown(x) IN
         /\ Shaped(y)
         /\ y.life = "settled" /\ y.armed = {} /\ ~y.listening /\ ~y.handle /\ ~y.grant
         /\ y.ask = "none" /\ y.session # "live"
         /\ y.factory = x.factory /\ y.cause = x.cause
BY DEF TornDown, Released, Fields, Shaped

\* However a leg is torn down it fits, if whatever still builds was cut from it.
LEMMA TornDownFits ==
  ASSUME NEW x, Shaped(x), NEW v,
         x.factory = "building" => x.cause # "none" /\ v # "provider"
  PROVE  LET y == [TornDown(x) EXCEPT !.verdict = v] IN
         LegFits(y) /\ y.factory = x.factory
<1> DEFINE z == TornDown(x)
<1>1. /\ Shaped(z)
      /\ z.life = "settled" /\ z.armed = {} /\ ~z.listening /\ ~z.handle /\ ~z.grant
      /\ z.ask = "none" /\ z.session # "live"
      /\ z.factory = x.factory /\ z.cause = x.cause
  BY TornDownIs
<1> HIDE DEF z
<1>2. LET y == [z EXCEPT !.verdict = v] IN LegFits(y) /\ y.factory = x.factory
  BY <1>1 DEF LegFits, Shaped, Fields
<1> QED BY <1>2 DEF z

---------------------------------------------------------------------------
\* A step of one leg that neither starts nor ends a build.
LEMMA LegMoves ==
  ASSUME LegsInv, GuardInv, NEW l \in Legs, NEW x, Becomes(l, x), UNCHANGED guard,
         LegFits(x), x.factory = "building" <=> leg[l].factory = "building"
  PROVE  LegsInv' /\ GuardInv'
<1>1. leg' = [k \in Legs |-> IF k = l THEN x ELSE leg[k]]
  BY DEF LegsInv, Becomes
<1>2. LegsInv'
  BY <1>1 DEF LegsInv
<1>3. Building' = Building
  BY <1>1 DEF Building
<1> QED BY <1>2, <1>3 DEF GuardInv, guard

\* The number of builds goes up and down by one.
LEMMA BuildsCounted ==
  ASSUME NEW S \in SUBSET Legs, NEW l \in Legs
  PROVE  /\ Cardinality(S) \in Nat
         /\ Cardinality(S) = 0 <=> S = {}
         /\ l \notin S => Cardinality(S \cup {l}) = Cardinality(S) + 1
         /\ l \in S => Cardinality(S \ {l}) = Cardinality(S) - 1
<1>1. IsFiniteSet(S)
  BY LegAssumption, FS_Subset
<1> QED BY <1>1, FS_CardinalityType, FS_EmptySet, FS_AddElement, FS_RemoveElement

\* A build starts and takes the guard.
LEMMA BuildStarts ==
  ASSUME LegsInv, GuardInv, NEW l \in Legs, NEW x, Becomes(l, x), Push,
         LegFits(x), x.factory = "building", leg[l].factory # "building"
  PROVE  LegsInv' /\ GuardInv'
<1>1. leg' = [k \in Legs |-> IF k = l THEN x ELSE leg[k]]
  BY DEF LegsInv, Becomes
<1>2. LegsInv'
  BY <1>1 DEF LegsInv
<1>3. Building' = Building \cup {l} /\ l \notin Building /\ Building \in SUBSET Legs
  BY <1>1 DEF Building
<1>4. depth' = Cardinality(Building')
  BY <1>3, BuildsCounted DEF GuardInv, Push
<1>5. saved' = "user"
  BY <1>3, BuildsCounted DEF GuardInv, Push
<1>6. disable' = "on"
  BY DEF Push
<1> QED BY <1>2, <1>3, <1>4, <1>5, <1>6 DEF GuardInv

\* A build ends, whatever became of its leg, and gives its guard back.
LEMMA BuildStops ==
  ASSUME LegsInv, GuardInv, NEW l \in Legs, NEW x, Becomes(l, x), Pop,
         LegFits(x), x.factory # "building", leg[l].factory = "building"
  PROVE  LegsInv' /\ GuardInv'
<1>1. leg' = [k \in Legs |-> IF k = l THEN x ELSE leg[k]]
  BY DEF LegsInv, Becomes
<1>2. LegsInv'
  BY <1>1 DEF LegsInv
<1>3. Building' = Building \ {l} /\ l \in Building /\ Building \in SUBSET Legs
  BY <1>1 DEF Building
<1>4. depth' = Cardinality(Building')
  BY <1>3, BuildsCounted DEF GuardInv, Pop
<1>5. saved = "user" /\ saved' = saved /\ disable = "on"
  BY <1>3 DEF GuardInv, Pop
<1>6. depth = 1 <=> Building' = {}
  BY <1>3, <1>4, BuildsCounted DEF GuardInv, Pop
<1>7. disable' = IF Building' = {} THEN "user" ELSE "on"
  BY <1>5, <1>6 DEF Pop
<1> QED BY <1>2, <1>4, <1>5, <1>7 DEF GuardInv

---------------------------------------------------------------------------
\* A leg that begins, for the first time or again, has no build behind it.
LEMMA BeginLegKeeps ==
  ASSUME LegsInv, GuardInv, NEW l \in Legs, BeginLeg(l), leg[l].factory # "building"
  PROVE  LegsInv' /\ GuardInv'
<1> DEFINE x == FreshLeg(leg[l].signal)
<1>1. LegFits(x) /\ x.factory = "none" /\ Shaped(x)
  BY FreshLegFits DEF LegFits
<1>2. x.armed = {} /\ ~x.listening /\ ~x.handle /\ x.ask = "none" /\ x.session = "none" /\ x.life = "idle"
  BY DEF FreshLeg
<1> HIDE DEF x
<1>3. CASE Becomes(l, Turned(x, "refused")) /\ UNCHANGED guard
  <2>1. LegFits(Turned(x, "refused")) /\ Turned(x, "refused").factory = "none"
    BY <1>1, <1>2 DEF LegFits, Turned, Shaped, Fields
  <2> QED BY <1>3, <2>1, LegMoves
<1>4. CASE Becomes(l, [Turned(x, "abort") EXCEPT !.grant = (l \in Readers)]) /\ UNCHANGED guard
  <2> DEFINE y == [Turned(x, "abort") EXCEPT !.grant = (l \in Readers)]
  <2>1. LegFits(y) /\ y.factory = "none"
    BY <1>1, <1>2 DEF LegFits, Turned, Shaped, Fields
  <2> QED BY <1>4, <2>1, LegMoves
<1>5. CASE /\ Becomes(l, [x EXCEPT !.life = "building", !.listening = TRUE, !.armed = Deadlines,
                             !.factory = "building",
                             !.grant = (l \in Readers), !.handle = (l \in Talkers)])
           /\ Push
  <2> DEFINE y == [x EXCEPT !.life = "building", !.listening = TRUE, !.armed = Deadlines,
                             !.factory = "building",
                             !.grant = (l \in Readers), !.handle = (l \in Talkers)]
  <2>1. LegFits(y) /\ y.factory = "building"
    BY <1>1, <1>2 DEF LegFits, Shaped, Fields
  <2> QED BY <1>5, <2>1, BuildStarts
<1> QED BY <1>3, <1>4, <1>5 DEF BeginLeg, x

\* A cut is remembered and changes nothing else.
LEMMA CutLegIs ==
  ASSUME NEW x, Shaped(x), NEW c, c # "none"
  PROVE  LET y == CutLeg(x, c) IN
         /\ Shaped(y) /\ y.cause # "none"
         /\ \A f \in Fields \ {"cause"} : y[f] = x[f]
BY DEF CutLeg, Shaped, Fields

\* Either signal may fire at any time.
LEMMA AbortLegKeeps ==
  ASSUME LegsInv, GuardInv, NEW l \in Legs, NEW s, AbortLeg(l, s)
  PROVE  LegsInv' /\ GuardInv'
<1> DEFINE x == [leg[l] EXCEPT !.signal = s, !.listening = FALSE]
<1>1. LegFits(leg[l]) /\ Shaped(leg[l])
  BY DEF LegsInv, LegFits
<1>2. LegFits(x) /\ Shaped(x) /\ x.factory = leg[l].factory /\ x.life = leg[l].life
  BY <1>1 DEF LegFits, Shaped, Fields
<1> HIDE DEF x
<1>3. CASE leg[l].listening
  <2>1. x.life \notin {"idle", "settled"}
    BY <1>1, <1>2, <1>3 DEF LegFits
  <2>2. LegFits(CutLeg(x, "abort")) /\ CutLeg(x, "abort").factory = x.factory
    BY <1>2, <2>1, CutLegIs DEF LegFits, Fields
  <2>3. Becomes(l, CutLeg(x, "abort")) /\ UNCHANGED guard
    BY <1>3 DEF AbortLeg, x
  <2> QED BY <1>2, <2>2, <2>3, LegMoves
<1>4. CASE ~leg[l].listening
  <2>1. Becomes(l, x) /\ UNCHANGED guard
    BY <1>4 DEF AbortLeg, x
  <2> QED BY <1>2, <2>1, LegMoves
<1> QED BY <1>3, <1>4

\* A deadline only cuts a leg that is still on its way.
LEMMA LegTimesOutKeeps ==
  ASSUME LegsInv, GuardInv, NEW l \in Legs, NEW d \in Deadlines, LegTimesOut(l, d)
  PROVE  LegsInv' /\ GuardInv'
<1>1. LegFits(leg[l]) /\ Shaped(leg[l]) /\ d # "none"
  BY DEF LegsInv, LegFits, Deadlines
<1>2. leg[l].life \notin {"idle", "settled"}
  BY <1>1 DEF LegTimesOut, LegFits
<1>3. LegFits(CutLeg(leg[l], d)) /\ CutLeg(leg[l], d).factory = leg[l].factory
  BY <1>1, <1>2, CutLegIs DEF LegFits, Fields
<1> QED BY <1>3, LegMoves DEF LegTimesOut

\* The factory comes back: too late, its session is disposed.
LEMMA FactoryKeeps ==
  ASSUME LegsInv, GuardInv, NEW l \in Legs, FactoryMakes(l) \/ FactoryFails(l)
  PROVE  LegsInv' /\ GuardInv'
<1>1. LegFits(leg[l]) /\ leg[l].factory = "building"
  BY DEF LegsInv, FactoryMakes, FactoryFails
<1>2. CASE FactoryMakes(l)
  <2>1. LegFits(MadeSession(leg[l])) /\ MadeSession(leg[l]).factory = "made"
    BY <1>1 DEF MadeSession, LegFits, Shaped, Fields
  <2> QED BY <1>1, <1>2, <2>1, BuildStops DEF FactoryMakes
<1>3. CASE FactoryFails(l)
  <2> DEFINE x == [leg[l] EXCEPT !.factory = "failed"]
  <2>1. LegFits(x) /\ x.factory = "failed"
    BY <1>1 DEF LegFits, Shaped, Fields
  <2> QED BY <1>1, <1>3, <2>1, BuildStops DEF FactoryFails
<1> QED BY <1>2, <1>3

\* Giving up leaves the factory its guard.
LEMMA BuildGivesUpKeeps ==
  ASSUME LegsInv, GuardInv, NEW l \in Legs, BuildGivesUp(l)
  PROVE  LegsInv' /\ GuardInv'
<1> DEFINE v == IF leg[l].cause = "none" THEN "threw" ELSE CutVerdict(leg[l])
           y == [TornDown(leg[l]) EXCEPT !.verdict = v]
<1>1. Shaped(leg[l])
  BY DEF LegsInv, LegFits
<1>2. leg[l].factory = "building" => leg[l].cause # "none" /\ v # "provider"
  BY DEF BuildGivesUp, CutVerdict
<1>3. LegFits(y) /\ y.factory = leg[l].factory
  BY <1>1, <1>2, TornDownFits
<1> QED BY <1>3, LegMoves DEF BuildGivesUp

\* The session opens, or whoever is told of it throws.
LEMMA SessionOpensKeeps ==
  ASSUME LegsInv, GuardInv, NEW l \in Legs, SessionOpens(l)
  PROVE  LegsInv' /\ GuardInv'
<1>1. LegFits(leg[l]) /\ Shaped(leg[l]) /\ leg[l].factory = "made"
  BY DEF LegsInv, LegFits, SessionOpens
<1>2. CASE Becomes(l, Opened(leg[l]))
  <2>1. LegFits(Opened(leg[l])) /\ Opened(leg[l]).factory = "made"
    BY <1>1 DEF SessionOpens, Opened, LegFits, Shaped, Fields
  <2> QED BY <1>1, <1>2, <2>1, LegMoves DEF SessionOpens
<1>3. CASE Becomes(l, [TornDown(leg[l]) EXCEPT !.verdict = "threw"])
  <2> DEFINE y == [TornDown(leg[l]) EXCEPT !.verdict = "threw"]
  <2>1. LegFits(y) /\ y.factory = leg[l].factory
    BY <1>1, TornDownFits
  <2> QED BY <1>1, <1>3, <2>1, LegMoves DEF SessionOpens
<1> QED BY <1>2, <1>3 DEF SessionOpens

\* Output, tool calls, questions, mail and the session's end.
LEMMA TrafficKeeps ==
  ASSUME LegsInv, GuardInv, NEW l \in Legs,
         \/ LegSpeaks(l) \/ LegAsks(l) \/ LegAnswered(l) \/ MailArrives(l) \/ HostEnds(l)
         \/ \E c \in Calls : LegCalls(l, c)
  PROVE  LegsInv' /\ GuardInv'
<1>1. LegFits(leg[l]) /\ Shaped(leg[l])
  BY DEF LegsInv, LegFits
<1>2. ASSUME NEW x, Becomes(l, x), LegFits(x), x.factory = leg[l].factory, UNCHANGED guard
      PROVE  LegsInv' /\ GuardInv'
  BY <1>2, LegMoves
<1>3. ASSUME NEW x, LegFits(x), x.life = "running"
      PROVE  LegFits(Active(x)) /\ Active(x).factory = x.factory
  BY <1>3 DEF Active, LegFits, Shaped, Fields
<1>4. CASE LegSpeaks(l)
  BY <1>1, <1>2, <1>3, <1>4 DEF LegSpeaks, Live
<1>5. CASE LegAsks(l)
  <2> DEFINE x == [leg[l] EXCEPT !.ask = "pending"]
  <2>1. LegFits(x) /\ x.factory = leg[l].factory
    BY <1>1, <1>5 DEF LegAsks, Live, LegFits, Shaped, Fields
  <2> QED BY <1>2, <1>5, <2>1 DEF LegAsks
<1>6. CASE LegAnswered(l)
  <2> DEFINE x == [leg[l] EXCEPT !.ask = "settled"]
  <2>1. LegFits(x) /\ x.factory = leg[l].factory
    BY <1>1, <1>6 DEF LegAnswered, LegFits, Shaped, Fields
  <2> QED BY <1>2, <1>6, <2>1 DEF LegAnswered
<1>7. CASE MailArrives(l)
  <2> DEFINE x == [leg[l] EXCEPT !.mail = @ + 1]
  <2>1. LegFits(x) /\ x.factory = leg[l].factory
    BY <1>1, <1>7 DEF MailArrives, LegFits, Shaped, Fields
  <2> QED BY <1>2, <1>7, <2>1 DEF MailArrives
<1>8. CASE HostEnds(l)
  <2>1. PICK how \in {"clean", "error", "stopped", "threw"} :
               Becomes(l, [leg[l] EXCEPT !.host = how])
    BY <1>8 DEF HostEnds
  <2> DEFINE x == [leg[l] EXCEPT !.host = how]
  <2>2. LegFits(x) /\ x.factory = leg[l].factory
    BY <1>1 DEF LegFits, Shaped, Fields
  <2> QED BY <1>2, <1>8, <2>1, <2>2 DEF HostEnds
<1>9. CASE \E c \in Calls : LegCalls(l, c)
  <2>1. PICK c \in Calls : LegCalls(l, c)
    BY <1>9
  <2>2. PICK how \in {"open", "ended"} : Becomes(l, Active([leg[l] EXCEPT !.calls[c] = how]))
    BY <2>1 DEF LegCalls
  <2> DEFINE x == [leg[l] EXCEPT !.calls[c] = how]
  <2>3. LegFits(x) /\ x.factory = leg[l].factory /\ x.life = "running"
    BY <1>1, <2>1 DEF LegCalls, Live, LegFits, Shaped, Fields
  <2> QED BY <1>2, <1>3, <2>1, <2>2, <2>3 DEF LegCalls
<1> QED BY <1>4, <1>5, <1>6, <1>7, <1>8, <1>9

\* A running leg settles: its factory has long come back.
LEMMA LegSettlesKeeps ==
  ASSUME LegsInv, GuardInv, NEW l \in Legs, LegSettles(l)
  PROVE  LegsInv' /\ GuardInv'
<1>1. Shaped(leg[l]) /\ leg[l].factory = "made"
  BY DEF LegsInv, LegFits, LegSettles
<1>2. PICK v : Becomes(l, [TornDown(leg[l]) EXCEPT !.verdict = v, !.calls = ClosedCalls(leg[l])])
  BY DEF LegSettles
<1> DEFINE y == [TornDown(leg[l]) EXCEPT !.verdict = v]
           z == [TornDown(leg[l]) EXCEPT !.verdict = v, !.calls = ClosedCalls(leg[l])]
<1>3. LegFits(y) /\ y.factory = "made"
  BY <1>1, TornDownFits
<1>4. z = [y EXCEPT !.calls = ClosedCalls(leg[l])]
  BY <1>1, TornDownIs DEF Shaped, Fields
<1> HIDE DEF y, z
<1>5. LegFits(z) /\ z.factory = "made"
  BY <1>3, <1>4 DEF LegFits, Shaped, Fields
<1>6. Becomes(l, z) /\ UNCHANGED guard
  BY <1>2 DEF LegSettles, z
<1> QED BY <1>1, <1>5, <1>6, LegMoves

\* Every step of a leg.
LEMMA LegStepKeeps ==
  ASSUME LegsInv, GuardInv, NEW l \in Legs, LegStep(l)
  PROVE  LegsInv' /\ GuardInv'
BY LegTimesOutKeeps, FactoryKeeps, BuildGivesUpKeeps, SessionOpensKeeps, TrafficKeeps,
   LegSettlesKeeps DEF LegStep

---------------------------------------------------------------------------
\* The child leg.  A kill leaves it a timer that ends in a signal no process
\* can ignore, unless that signal went out at once or there is no process.
LEMMA KilledFits ==
  ASSUME NEW x, ChildFits(x), x.life = "running" \/ (x.life = "settled" /\ x.killing)
  PROVE  /\ ChildFits(Killed(x))
         /\ Killed(x).killing /\ Killed(x).life = x.life
BY DEF Killed, ChildFits, ChildShaped, ChildFields, Stages, ChildDeadlines

\* The first cause stays, the kill is as above.
LEMMA StoppedFits ==
  ASSUME NEW x, ChildFits(x), x.life = "running" \/ (x.life = "settled" /\ x.killing), NEW c
  PROVE  ChildFits(Stopped(x, c))
<1> DEFINE y == [x EXCEPT !.cause = IF @ = "none" THEN c ELSE @]
<1>1. ChildFits(y) /\ y.life = x.life /\ y.killing = x.killing
  BY DEF ChildFits, ChildShaped, ChildFields
<1> HIDE DEF y
<1>2. ChildFits(Killed(y))
  BY <1>1, KilledFits
<1> QED BY <1>2 DEF Stopped, y

\* Settling leaves nothing, if what is still alive was killed by force.
LEMMA FinishedFits ==
  ASSUME NEW x, ChildShaped(x), NEW v,
         x.root # "none" => x.exited \/ x.killing, x.root = "alive" => x.forced
  PROVE  ChildFits(Finished(x, v))
BY DEF Finished, GivenBack, ChildFits, ChildShaped, ChildFields, Stages

\* The attempt begins anew, with nothing.
LEMMA BeginChildFits ==
  ASSUME BeginChild
  PROVE  ChildFits(child')
<1> DEFINE x == FreshChild(child.signal)
<1>1. /\ ChildShaped(x) /\ x.armed = {} /\ ~x.listening /\ ~x.promptFile /\ ~x.killing
      /\ x.ask = "none" /\ x.root = "none" /\ ~x.exited /\ ~x.grant /\ ~x.handle
  BY DEF FreshChild, ChildShaped, ChildFields
<1> HIDE DEF x
<1>2. CASE child' = [x EXCEPT !.life = "settled", !.verdict = "refused"]
  BY <1>1, <1>2 DEF ChildFits, ChildShaped, ChildFields, Stages
<1>3. CASE \E broker \in Brokers : child' = [x EXCEPT !.life = "prompting", !.handle = broker]
  BY <1>1, <1>3 DEF ChildFits, ChildShaped, ChildFields, Stages
<1>4. CASE child' = [x EXCEPT !.life = "preparing"]
  BY <1>1, <1>4 DEF ChildFits, ChildShaped, ChildFields, Stages
<1> QED BY <1>2, <1>3, <1>4 DEF BeginChild, ChildBecomes, x

\* Before the process: the reader's preparation and the prompt file.
LEMMA PreparationFits ==
  ASSUME ChildFits(child), Prepares \/ Spawns \/ PromptFails
  PROVE  ChildFits(child')
<1>1. CASE Prepares
  BY <1>1 DEF Prepares, ChildBecomes, ChildFits, ChildShaped, ChildFields, Stages
<1>2. CASE Spawns
  <2>1. PICK root \in {"none", "alive"} :
          LET x == [Spawned(child) EXCEPT !.root = root] IN
          child' = IF x.signal = "live" THEN x ELSE Stopped(x, "abort")
    BY <1>2 DEF Spawns, ChildBecomes
  <2> DEFINE x == [Spawned(child) EXCEPT !.root = root]
  <2>2. ChildFits(x) /\ x.life = "running"
    BY <1>2 DEF Spawns, Spawned, ChildFits, ChildShaped, ChildFields, Stages, ChildDeadlines
  <2>3. ChildFits(Stopped(x, "abort"))
    BY <2>2, StoppedFits
  <2> QED BY <2>1, <2>2, <2>3
<1>3. CASE PromptFails
  BY <1>3 DEF PromptFails, GivenBack, ChildBecomes, ChildFits, ChildShaped, ChildFields, Stages
<1> QED BY <1>1, <1>2, <1>3

\* Output, also after the leg is settled.
LEMMA OutputFits ==
  ASSUME ChildFits(child),
         ChildSpeaks \/ ChildFloods \/ ChildAsks \/ ChildAnswered \/ (\E c \in ToolCalls : ChildCalls(c))
  PROVE  ChildFits(child')
<1>1. ASSUME NEW x, ChildFits(x), x.life \in {"running", "settled"}
      PROVE  ChildFits(Heard(x))
  BY <1>1 DEF Heard, ChildFits, ChildShaped, ChildFields, Stages
<1>2. Reads => child.life = "running" \/ (child.life = "settled" /\ child.killing)
  BY DEF Reads, ChildFits, Stages
<1>3. CASE ChildSpeaks
  BY <1>1, <1>2, <1>3 DEF ChildSpeaks, ChildBecomes
<1>4. CASE \E c \in ToolCalls : ChildCalls(c)
  <2>1. PICK c \in ToolCalls : ChildCalls(c)
    BY <1>4
  <2>2. PICK how \in {"open", "ended"} : child' = Heard([child EXCEPT !.calls[c] = how])
    BY <2>1 DEF ChildCalls, ChildBecomes
  <2> DEFINE x == [child EXCEPT !.calls[c] = how]
  <2>3. ChildFits(x) /\ x.life = child.life
    BY DEF ChildFits, ChildShaped, ChildFields
  <2> QED BY <1>1, <1>2, <2>1, <2>2, <2>3 DEF ChildCalls
<1>5. CASE ChildFloods
  <2> DEFINE x == [child EXCEPT !.flooded = TRUE]
  <2>1. ChildFits(x) /\ x.life = child.life /\ x.killing = child.killing
    BY DEF ChildFits, ChildShaped, ChildFields
  <2>2. ChildFits(Stopped(x, "flood"))
    BY <1>2, <1>5, <2>1, StoppedFits DEF ChildFloods
  <2> QED BY <1>5, <2>2 DEF ChildFloods, FloodStops, ChildBecomes
<1>6. CASE ChildAsks
  BY <1>6 DEF ChildAsks, ChildBecomes, ChildFits, ChildShaped, ChildFields, Stages
<1>7. CASE ChildAnswered
  BY <1>7 DEF ChildAnswered, ChildBecomes, ChildFits, ChildShaped, ChildFields, Stages
<1> QED BY <1>3, <1>4, <1>5, <1>6, <1>7

\* Deadlines and signals.
LEMMA CutFits ==
  ASSUME ChildFits(child),
         (\E d \in ChildDeadlines : ChildTimesOut(d)) \/ (\E s \in {"call", "run"} : AbortChild(s))
  PROVE  ChildFits(child')
<1>1. CASE \E d \in ChildDeadlines : ChildTimesOut(d)
  <2>1. PICK d \in ChildDeadlines : ChildTimesOut(d)
    BY <1>1
  <2> DEFINE x == [child EXCEPT !.armed = @ \ {d}]
  <2>2. child.life = "running"
    BY <2>1 DEF ChildTimesOut, ChildFits, Stages
  <2>3. ChildFits(x) /\ x.life = "running"
    BY <2>2 DEF ChildFits, ChildShaped, ChildFields, ChildDeadlines
  <2>4. ChildFits(Stopped(x, d))
    BY <2>3, StoppedFits
  <2> QED BY <2>1, <2>4 DEF ChildTimesOut, ChildBecomes
<1>2. CASE \E s \in {"call", "run"} : AbortChild(s)
  <2>1. PICK s \in {"call", "run"} : AbortChild(s)
    BY <1>2
  <2> DEFINE x == [child EXCEPT !.signal = s, !.listening = FALSE]
  <2>2. ChildFits(x) /\ x.life = child.life
    BY DEF ChildFits, ChildShaped, ChildFields
  <2>3. child.listening => child.life = "running"
    BY DEF ChildFits, Stages
  <2>4. child.listening => ChildFits(Stopped(x, "abort"))
    BY <2>2, <2>3, StoppedFits
  <2> QED BY <2>1, <2>2, <2>4 DEF AbortChild, ChildBecomes
<1> QED BY <1>1, <1>2

\* The processes, and what the leg does when they end or do not.
LEMMA ProcessFits ==
  ASSUME ChildFits(child),
         \/ \E status \in {"zero", "nonzero", "signal"} : RootExits(status)
         \/ KidStarts \/ KidEnds \/ ChildCloses \/ SpawnErrors \/ GraceEnds \/ LastResort
  PROVE  ChildFits(child')
<1>1. CASE \E status \in {"zero", "nonzero", "signal"} : RootExits(status)
  BY <1>1 DEF RootExits, ChildBecomes, ChildFits, ChildShaped, ChildFields, Stages
<1>2. CASE KidStarts
  BY <1>2 DEF KidStarts, ChildBecomes, ChildFits, ChildShaped, ChildFields
<1>3. CASE KidEnds
  BY <1>3 DEF KidEnds, ChildBecomes, ChildFits, ChildShaped, ChildFields
<1>4. CASE ChildCloses
  <2> DEFINE x == [child EXCEPT !.exited = TRUE]
  <2>1. ChildShaped(x) /\ x.exited /\ x.root = "dead"
    BY <1>4 DEF ChildCloses, ChildFits, ChildShaped, ChildFields
  <2>2. CASE child.life = "running"
    <3> HIDE DEF x
    <3>1. PICK v : child' = Finished(x, v)
      BY <1>4, <2>2 DEF ChildCloses, FinishChild, ChildBecomes, x
    <3> QED BY <2>1, <3>1, FinishedFits
  <2>3. CASE child.life # "running"
    <3>1. ChildFits(x)
      BY <1>4, <2>3 DEF ChildCloses, ChildFits, ChildShaped, ChildFields, Stages
    <3> QED BY <1>4, <2>3, <3>1 DEF ChildCloses, ChildBecomes
  <2> QED BY <2>2, <2>3
<1>5. CASE SpawnErrors
  <2>1. PICK v : child' = Finished(child, v)
    BY <1>5 DEF SpawnErrors, FinishChild, ChildBecomes
  <2> QED BY <1>5, <2>1, FinishedFits DEF SpawnErrors, ChildFits
<1>6. CASE GraceEnds
  BY <1>6 DEF GraceEnds, ChildBecomes, ChildFits, ChildShaped, ChildFields, Stages
<1>7. CASE LastResort
  <2>1. PICK v : child' = Finished(child, v)
    BY <1>7 DEF LastResort, FinishChild, ChildBecomes
  <2>2. child.life = "running" /\ child.killing /\ (child.root # "none" => child.forced)
    BY <1>7 DEF LastResort, ChildFits, Stages
  <2> QED BY <2>1, <2>2, FinishedFits DEF ChildFits
<1> QED BY <1>1, <1>2, <1>3, <1>4, <1>5, <1>6, <1>7

\* Every step of the child.
LEMMA ChildStepFits ==
  ASSUME ChildFits(child), ChildStep
  PROVE  ChildFits(child')
BY PreparationFits, OutputFits, CutFits, ProcessFits DEF ChildStep

---------------------------------------------------------------------------
\* A run is started, or tried again, only when its leg has no build behind it:
\* a leg that was cut from its build never failed for its provider.
LEMMA BeginsKeeps ==
  ASSUME EngineInv, NEW r \in Runs, Begins(r),
         RunState(r).life = "idle" \/ (RunState(r).life = "settled" /\ RunState(r).verdict = "provider")
  PROVE  EngineInv'
<1>1. CASE r = ChildRun
  BY <1>1, BeginChildFits DEF Begins, EngineInv, LegsInv, GuardInv, legVars, guard, Building
<1>2. CASE r # ChildRun
  <2>1. r \in Legs /\ RunState(r) = leg[r] /\ BeginLeg(r) /\ UNCHANGED childVars
    BY <1>2 DEF Runs, Begins, RunState
  <2>2. leg[r].factory # "building"
    BY <2>1 DEF EngineInv, LegsInv, LegFits
  <2> QED BY <2>1, <2>2, BeginLegKeeps DEF EngineInv, childVars
<1> QED BY <1>1, <1>2

\* Every step of every run keeps the invariant.
LEMMA StepKeeps ==
  ASSUME EngineInv, [Next]_vars
  PROVE  EngineInv'
<1> USE DEF EngineInv
<1>1. ASSUME NEW r \in Runs, StartRun(r)
      PROVE  EngineInv'
  BY <1>1, BeginsKeeps DEF StartRun
<1>2. ASSUME NEW r \in Runs, Retries(r)
      PROVE  EngineInv'
  BY <1>2, BeginsKeeps DEF Retries, MayRetry
<1>3. UNCHANGED legVars => LegsInv' /\ GuardInv'
  BY DEF LegsInv, GuardInv, Building, legVars, guard
<1>4. UNCHANGED childVars => ChildFits(child')
  BY DEF childVars
<1>5. ASSUME NEW r \in Runs, Returns(r)
      PROVE  EngineInv'
  BY <1>3, <1>4, <1>5 DEF Returns
<1>6. ASSUME NEW r \in Runs, NEW s \in {"call", "run"}, Abort(r, s)
      PROVE  EngineInv'
  <2>1. CASE AbortChild(s) /\ UNCHANGED legVars
    BY <1>3, <2>1, CutFits
  <2>2. CASE r # ChildRun /\ AbortLeg(r, s) /\ UNCHANGED childVars
    BY <1>4, <2>2, AbortLegKeeps DEF Runs
  <2> QED BY <1>6, <2>1, <2>2 DEF Abort
<1>7. ASSUME NEW l \in Legs, LegStep(l), UNCHANGED childVars
      PROVE  EngineInv'
  BY <1>4, <1>7, LegStepKeeps
<1>8. CASE ChildStep /\ UNCHANGED legVars
  BY <1>3, <1>8, ChildStepFits
<1>9. CASE UNCHANGED vars
  BY <1>3, <1>4, <1>9 DEF vars
<1> QED BY <1>1, <1>2, <1>5, <1>6, <1>7, <1>8, <1>9 DEF Next, runVars

\* Before anything has run.
LEMMA InitFits ==
  ASSUME Init
  PROVE  EngineInv
<1>1. leg = [l \in Legs |-> FreshLeg("live")]
  BY DEF Init, LegsInit
<1>2. LegsInv /\ Building = {}
  BY <1>1, FreshLegFits DEF LegsInv, Building
<1>3. GuardInv
  BY <1>2, FS_EmptySet DEF Init, LegsInit, GuardInv
<1>4. ChildFits(child)
  BY DEF Init, ChildInit, FreshChild, ChildFits, ChildShaped, ChildFields, Stages
<1> QED BY <1>2, <1>3, <1>4 DEF EngineInv

\* The inductive invariant: whatever sessions, processes, deadlines, stops and
\* retries do, the builds, the guard and both kinds of leg fit together.
THEOREM EngineInvariant == Spec => []EngineInv
BY InitFits, StepKeeps, PTL DEF Spec

\* inproc.ts:264: for any number of legs, the recursion guard stands exactly
\* while a session is being built, also when that build outlives its leg.
THEOREM GuardAlwaysCovers == Spec => []GuardCovers
<1>1. EngineInv => GuardCovers
  BY DEF EngineInv, GuardInv, Building, GuardCovers
<1> QED BY <1>1, EngineInvariant, PTL

\* inproc.ts:463, adapter.ts:265: a settled leg of either engine holds nothing,
\* a running one has no mail waiting, and a child left alive was force-killed.
THEOREM NothingLeftBehind == Spec => []NothingStranded
<1>1. EngineInv => NothingStranded
  BY DEF EngineInv, LegsInv, LegFits, ChildFits, NothingStranded
<1> QED BY <1>1, EngineInvariant, PTL

---------------------------------------------------------------------------
\* The refinement of the contract of a leg.

\* What the contract lets one run's leg do in a step: nothing, begin, be turned
\* down, be cut, show calls, or settle.
SameLeg(x, y) ==
  LifeOf(y) = LifeOf(x) /\ y.cause = x.cause /\ y.verdict = x.verdict /\ ShownBy(y) = ShownBy(x)
Begun(x, y) ==
  LifeOf(x) # "running" /\ LifeOf(y) = "running" /\ y.cause = "none" /\ y.verdict = "none" /\ ShownBy(y) = {}
TurnedDown(x, y) ==
  /\ LifeOf(x) # "running" /\ LifeOf(y) = "settled" /\ y.cause = "none"
  /\ y.verdict \in {"refused", "abort"} /\ ShownBy(y) = {}
WasCut(x, y) ==
  /\ LifeOf(x) = "running" /\ x.cause = "none" /\ y.cause \in Contract!Cuts
  /\ LifeOf(y) = LifeOf(x) /\ y.verdict = x.verdict /\ ShownBy(y) = ShownBy(x)
Showed(x, y) ==
  LifeOf(x) # "idle" /\ LifeOf(y) = LifeOf(x) /\ y.cause = x.cause /\ y.verdict = x.verdict
SettledWell(x, y) ==
  /\ LifeOf(x) = "running" /\ LifeOf(y) = "settled" /\ y.cause = x.cause
  /\ y.verdict \in Contract!Verdicts(x.cause)
  /\ ShownBy(y) # {} => y.verdict \in {"ok", "contract"}
  /\ ShownBy(y) \in {ShownBy(x), {}}

Permitted(x, y) ==
  \/ SameLeg(x, y) \/ Begun(x, y) \/ TurnedDown(x, y)
  \/ WasCut(x, y) \/ Showed(x, y) \/ SettledWell(x, y)

\* One run does what the contract permits and the others nothing: that is a step
\* of the contract, or none.
LEMMA OneRunMoves ==
  ASSUME NEW r \in Runs, NEW y, RunState(r)' = y,
         \A q \in Runs \ {r} : RunState(q)' = RunState(q),
         Permitted(RunState(r), y)
  PROVE  [Contract!ContractNext]_(Contract!contractVars)
<1> DEFINE x == RunState(r)
<1>1. /\ LifeView' = [LifeView EXCEPT ![r] = LifeOf(y)] /\ LifeView[r] = LifeOf(x)
      /\ LifeView = [LifeView EXCEPT ![r] = LifeOf(x)]
  <2>1. ASSUME NEW q \in Runs
        PROVE  LifeOf(RunState(q))' = IF q = r THEN LifeOf(y) ELSE LifeOf(RunState(q))
    BY DEF LifeOf
  <2> QED BY <2>1 DEF LifeView
<1>2. /\ CauseView' = [CauseView EXCEPT ![r] = y.cause] /\ CauseView[r] = x.cause
      /\ CauseView = [CauseView EXCEPT ![r] = x.cause]
  BY DEF CauseView
<1>3. /\ VerdictView' = [VerdictView EXCEPT ![r] = y.verdict] /\ VerdictView[r] = x.verdict
      /\ VerdictView = [VerdictView EXCEPT ![r] = x.verdict]
  BY DEF VerdictView
<1>4. /\ ShownView' = [ShownView EXCEPT ![r] = ShownBy(y)] /\ ShownView[r] = ShownBy(x)
      /\ ShownView = [ShownView EXCEPT ![r] = ShownBy(x)] /\ ShownView'[r] = ShownBy(y)
      /\ ShownBy(y) \in SUBSET Calls
  <2>1. ASSUME NEW q \in Runs
        PROVE  ShownBy(RunState(q))' = IF q = r THEN ShownBy(y) ELSE ShownBy(RunState(q))
    BY DEF ShownBy
  <2>2. ShownBy(y) \in SUBSET Calls
    BY DEF ShownBy
  <2> QED BY <2>1, <2>2 DEF ShownView
<1> HIDE DEF x
<1>5. CASE SameLeg(x, y)
  BY <1>1, <1>2, <1>3, <1>4, <1>5 DEF SameLeg, Contract!contractVars
<1>6. CASE Begun(x, y)
  <2>1. Contract!Begin(r)
    BY <1>1, <1>2, <1>3, <1>4, <1>6 DEF Begun, Contract!Begin
  <2> QED BY <2>1 DEF Contract!ContractNext
<1>7. CASE TurnedDown(x, y)
  <2>1. Contract!Refuse(r)
    BY <1>1, <1>2, <1>3, <1>4, <1>7 DEF TurnedDown, Contract!Refuse
  <2> QED BY <2>1 DEF Contract!ContractNext
<1>8. CASE WasCut(x, y)
  <2>1. Contract!Cut(r)
    BY <1>1, <1>2, <1>3, <1>4, <1>8 DEF WasCut, Contract!Cut
  <2> QED BY <2>1 DEF Contract!ContractNext
<1>9. CASE Showed(x, y)
  <2>1. Contract!Show(r)
    BY <1>1, <1>2, <1>3, <1>4, <1>9 DEF Showed, Contract!Show
  <2> QED BY <2>1 DEF Contract!ContractNext
<1>10. CASE SettledWell(x, y)
  <2>1. Contract!Settle(r)
    BY <1>1, <1>2, <1>3, <1>4, <1>10 DEF SettledWell, Contract!Settle
  <2> QED BY <2>1 DEF Contract!ContractNext
<1> QED BY <1>5, <1>6, <1>7, <1>8, <1>9, <1>10 DEF Permitted, x

\* A step that leaves stage, cause, verdict and calls alone is none to the contract.
LEMMA NothingSeen ==
  ASSUME NEW x, NEW y, y.life = x.life, y.cause = x.cause, y.verdict = x.verdict, y.calls = x.calls
  PROVE  SameLeg(x, y) /\ Permitted(x, y)
BY DEF SameLeg, Permitted, LifeOf, ShownBy

\* An in-process leg is cut by a stop or a deadline, and shows no call before it runs.
LegTells(x) ==
  /\ x.life \in {"idle", "building", "running", "settled"}
  /\ x.cause \in {"none", "abort"} \cup Deadlines
  /\ x.life \in {"idle", "building"} => ShownBy(x) = {}

\* A torn-down leg tells what it was cut by, and shows what it showed.
LEMMA TornDownTells ==
  ASSUME NEW x, Shaped(x), NEW v
  PROVE  LET y == [TornDown(x) EXCEPT !.verdict = v] IN
         y.life = "settled" /\ y.cause = x.cause /\ y.calls = x.calls /\ y.verdict = v
BY DEF TornDown, Released, Fields, Shaped

LEMMA VerdictsAre ==
  /\ Contract!Verdicts("none") = {"ok", "contract", "provider", "agent", "threw"}
  /\ Contract!Verdicts("abort") = {"abort"}
  /\ Contract!Verdicts("flood") = {"agent", "provider", "abort"}
  /\ \A d \in Deadlines : Contract!Verdicts(d) = {"timeout"}
BY DEF Contract!Verdicts, Deadlines

\* Beginning, for the first time or again.
LEMMA BeginLegTells ==
  ASSUME LegsInv, NEW l \in Legs, BeginLeg(l), LifeOf(leg[l]) # "running"
  PROVE  LegTells(leg'[l]) /\ Permitted(leg[l], leg'[l]) /\ leg' = [leg EXCEPT ![l] = leg'[l]]
<1> DEFINE x == FreshLeg(leg[l].signal)
<1>1. /\ Shaped(x) /\ x.life = "idle" /\ x.cause = "none" /\ x.verdict = "none"
      /\ ShownBy(x) = {}
  BY DEF FreshLeg, Shaped, Fields, ShownBy
<1> HIDE DEF x
<1>2. ASSUME NEW y, Becomes(l, y) PROVE leg'[l] = y /\ leg' = [leg EXCEPT ![l] = leg'[l]]
  BY <1>2 DEF Becomes, LegsInv
<1>3. ASSUME NEW y, Becomes(l, y), y.life \in {"settled", "building"}, y.cause = "none", y.calls = x.calls,
             y.life = "building" => y.verdict = "none",
             y.life = "settled" => y.verdict \in {"refused", "abort"}
      PROVE  LegTells(leg'[l]) /\ Permitted(leg[l], leg'[l]) /\ leg' = [leg EXCEPT ![l] = leg'[l]]
  <2>1. ShownBy(y) = {}
    BY <1>1, <1>3 DEF ShownBy
  <2>2. LegTells(y)
    BY <1>3, <2>1 DEF LegTells
  <2>3. Begun(leg[l], y) \/ TurnedDown(leg[l], y)
    BY <1>3, <2>1 DEF Begun, TurnedDown, LifeOf
  <2> QED BY <1>2, <1>3, <2>2, <2>3 DEF Permitted
<1>4. CASE Becomes(l, Turned(x, "refused"))
  <2> DEFINE y == Turned(x, "refused")
  <2>1. y.life = "settled" /\ y.cause = "none" /\ y.calls = x.calls /\ y.verdict = "refused"
    BY <1>1 DEF Turned, Shaped, Fields
  <2> HIDE DEF y
  <2>2. Becomes(l, y)
    BY <1>4 DEF y
  <2> QED BY <2>1, <2>2, <1>3
<1>5. CASE Becomes(l, [Turned(x, "abort") EXCEPT !.grant = (l \in Readers)])
  <2> DEFINE y == [Turned(x, "abort") EXCEPT !.grant = (l \in Readers)]
  <2>1. y.life = "settled" /\ y.cause = "none" /\ y.calls = x.calls /\ y.verdict = "abort"
    BY <1>1 DEF Turned, Shaped, Fields
  <2> HIDE DEF y
  <2>2. Becomes(l, y)
    BY <1>5 DEF y
  <2> QED BY <2>1, <2>2, <1>3
<1>6. CASE Becomes(l, [x EXCEPT !.life = "building", !.listening = TRUE, !.armed = Deadlines,
                             !.factory = "building",
                             !.grant = (l \in Readers), !.handle = (l \in Talkers)])
  <2> DEFINE y == [x EXCEPT !.life = "building", !.listening = TRUE, !.armed = Deadlines,
                             !.factory = "building",
                             !.grant = (l \in Readers), !.handle = (l \in Talkers)]
  <2>1. y.life = "building" /\ y.cause = "none" /\ y.calls = x.calls /\ y.verdict = "none"
    BY <1>1 DEF Shaped, Fields
  <2> HIDE DEF y
  <2>2. Becomes(l, y)
    BY <1>6 DEF y
  <2> QED BY <2>1, <2>2, <1>3
<1> QED BY <1>4, <1>5, <1>6 DEF BeginLeg, x

\* A stop or a deadline names the first cause of a leg on its way.
LEMMA CutLegTells ==
  ASSUME NEW x, Shaped(x), LegTells(x), x.life \in {"building", "running"},
         NEW c \in {"abort"} \cup Deadlines
  PROVE  LegTells(CutLeg(x, c)) /\ Permitted(x, CutLeg(x, c))
<1> DEFINE y == CutLeg(x, c)
<1>1. /\ y.life = x.life /\ y.verdict = x.verdict /\ y.calls = x.calls
      /\ y.cause = IF x.cause = "none" THEN c ELSE x.cause
  BY DEF CutLeg, Shaped, Fields
<1> HIDE DEF y
<1>2. LifeOf(y) = "running" /\ LifeOf(x) = "running" /\ ShownBy(y) = ShownBy(x)
  BY <1>1 DEF LifeOf, ShownBy
<1>3. LegTells(y)
  BY <1>1, <1>2 DEF LegTells
<1>4. Permitted(x, y)
  <2>1. CASE x.cause = "none"
    BY <1>1, <1>2, <2>1 DEF WasCut, Permitted, Contract!Cuts, Contract!Deadlines, Deadlines
  <2>2. CASE x.cause # "none"
    BY <1>1, <2>2, NothingSeen
  <2> QED BY <2>1, <2>2
<1> QED BY <1>3, <1>4 DEF y

LEMMA AbortLegTells ==
  ASSUME LegsInv, NEW l \in Legs, LegTells(leg[l]), NEW s, AbortLeg(l, s)
  PROVE  LegTells(leg'[l]) /\ Permitted(leg[l], leg'[l]) /\ leg' = [leg EXCEPT ![l] = leg'[l]]
<1> DEFINE x == [leg[l] EXCEPT !.signal = s, !.listening = FALSE]
<1>1. /\ Shaped(x) /\ x.life = leg[l].life /\ x.cause = leg[l].cause
      /\ x.verdict = leg[l].verdict /\ x.calls = leg[l].calls
  BY DEF LegsInv, LegFits, Shaped, Fields
<1>2. leg'[l] = (IF leg[l].listening THEN CutLeg(x, "abort") ELSE x) /\ leg' = [leg EXCEPT ![l] = leg'[l]]
  BY DEF AbortLeg, Becomes, LegsInv
<1> HIDE DEF x
<1>3. LifeOf(x) = LifeOf(leg[l]) /\ ShownBy(x) = ShownBy(leg[l]) /\ LegTells(x)
  BY <1>1 DEF LifeOf, ShownBy, LegTells
<1>4. CASE ~leg[l].listening
  BY <1>1, <1>2, <1>3, <1>4, NothingSeen
<1>5. CASE leg[l].listening
  <2>0. x.life \in {"building", "running"}
    BY <1>1, <1>5 DEF LegTells, LegsInv, LegFits
  <2>1. LegTells(CutLeg(x, "abort")) /\ Permitted(x, CutLeg(x, "abort"))
    BY <1>1, <1>3, <2>0, CutLegTells
  <2>2. Permitted(leg[l], CutLeg(x, "abort"))
    <3> DEFINE y == CutLeg(x, "abort")
    <3> HIDE DEF y
    <3>1. Permitted(x, y)
      BY <2>1 DEF y
    <3>2. Permitted(leg[l], y)
      BY <3>1, <1>1, <1>3 DEF Permitted, SameLeg, Begun, TurnedDown, WasCut, Showed, SettledWell
    <3> QED BY <3>2 DEF y
  <2> QED BY <1>2, <1>5, <2>1, <2>2
<1> QED BY <1>4, <1>5

\* Settling: the verdict is one the cause allows, and open calls are closed
\* unless the leg ended well.
LEMMA LegSettlesTells ==
  ASSUME LegsInv, NEW l \in Legs, LegTells(leg[l]), LegSettles(l)
  PROVE  LegTells(leg'[l]) /\ Permitted(leg[l], leg'[l]) /\ leg' = [leg EXCEPT ![l] = leg'[l]]
<1> DEFINE x == leg[l]
           verdicts == IF x.cause = "none" THEN HostVerdicts(x) ELSE {CutVerdict(x)}
<1>1. Shaped(x) /\ x.life = "running"
  BY DEF LegsInv, LegFits, LegSettles
<1>2. PICK v \in verdicts :
        Becomes(l, [TornDown(x) EXCEPT !.verdict = v, !.calls = ClosedCalls(x)])
  BY DEF LegSettles
<1> DEFINE y == [TornDown(x) EXCEPT !.verdict = v, !.calls = ClosedCalls(x)]
<1>3. y.life = "settled" /\ y.cause = x.cause /\ y.verdict = v /\ y.calls = ClosedCalls(x)
  BY <1>1 DEF TornDown, Released, Fields, Shaped
<1>4. leg'[l] = y /\ leg' = [leg EXCEPT ![l] = leg'[l]]
  BY <1>2 DEF Becomes, LegsInv
<1> HIDE DEF y
<1>5. ShownBy(y) = (IF x.cause = "none" /\ x.host = "clean" THEN ShownBy(x) ELSE {})
  BY <1>3 DEF ShownBy, ClosedCalls
<1>6. v \in Contract!Verdicts(x.cause)
  BY VerdictsAre DEF HostVerdicts, CutVerdict, LegTells
<1>7. x.cause = "none" /\ x.host = "clean" => v \in {"ok", "contract"}
  BY DEF HostVerdicts
<1>8. SettledWell(x, y) /\ LegTells(y)
  <2> HIDE DEF x, verdicts
  <2>1. LegTells(x)
    BY DEF x
  <2>2. ShownBy(y) # {} => v \in {"ok", "contract"}
    BY <1>5, <1>7
  <2> QED BY <1>1, <1>3, <1>5, <1>6, <2>1, <2>2 DEF SettledWell, LegTells, LifeOf
<1> QED BY <1>4, <1>8 DEF Permitted

LEMMA GiveUpTells ==
  ASSUME LegsInv, NEW l \in Legs, LegTells(leg[l]), BuildGivesUp(l) \/ SessionOpens(l)
  PROVE  LegTells(leg'[l]) /\ Permitted(leg[l], leg'[l]) /\ leg' = [leg EXCEPT ![l] = leg'[l]]
<1> DEFINE x == leg[l]
<1>1. Shaped(x) /\ x.life = "building" /\ LifeOf(x) = "running" /\ ShownBy(x) = {}
  BY DEF LegsInv, LegFits, BuildGivesUp, SessionOpens, LegTells, LifeOf
<1>2. ASSUME NEW y, Becomes(l, y) PROVE leg'[l] = y /\ leg' = [leg EXCEPT ![l] = leg'[l]]
  BY <1>2 DEF Becomes, LegsInv
<1>3. ASSUME NEW v, v \in Contract!Verdicts(x.cause), Becomes(l, [TornDown(x) EXCEPT !.verdict = v])
      PROVE  LegTells(leg'[l]) /\ Permitted(leg[l], leg'[l])
  <2> DEFINE y == [TornDown(x) EXCEPT !.verdict = v]
  <2>1. y.life = "settled" /\ y.cause = x.cause /\ y.calls = x.calls /\ y.verdict = v
    BY <1>1, TornDownTells
  <2>2. leg'[l] = y
    BY <1>2, <1>3
  <2> HIDE DEF y
  <2>3. ShownBy(y) = {} /\ LifeOf(y) = "settled" /\ LegTells(y)
    BY <1>1, <2>1 DEF ShownBy, LifeOf, LegTells
  <2>4. SettledWell(x, y)
    BY <1>1, <1>3, <2>1, <2>3 DEF SettledWell
  <2> QED BY <2>2, <2>3, <2>4 DEF Permitted
<1>4. CASE BuildGivesUp(l)
  <2> DEFINE v == IF x.cause = "none" THEN "threw" ELSE CutVerdict(x)
  <2>1. v \in Contract!Verdicts(x.cause)
    BY VerdictsAre DEF CutVerdict, LegTells
  <2>2. Becomes(l, [TornDown(x) EXCEPT !.verdict = v])
    BY <1>4 DEF BuildGivesUp
  <2> HIDE DEF v
  <2> QED BY <1>2, <1>3, <2>1, <2>2
<1>5. CASE SessionOpens(l)
  <2>1. "threw" \in Contract!Verdicts(x.cause)
    BY <1>5, VerdictsAre DEF SessionOpens
  <2>2. CASE Becomes(l, [TornDown(x) EXCEPT !.verdict = "threw"])
    BY <1>2, <1>3, <2>1, <2>2
  <2>3. CASE Becomes(l, Opened(x))
    <3> DEFINE y == Opened(x)
    <3>1. y.life = "running" /\ y.cause = x.cause /\ y.verdict = x.verdict /\ y.calls = x.calls
      BY <1>1 DEF Opened, Shaped, Fields
    <3>2. leg'[l] = y /\ leg' = [leg EXCEPT ![l] = leg'[l]]
      BY <1>2, <2>3
    <3> HIDE DEF y
    <3>3. LegTells(y) /\ SameLeg(x, y)
      BY <1>1, <3>1 DEF LegTells, SameLeg, LifeOf, ShownBy
    <3> QED BY <3>2, <3>3 DEF Permitted
  <2> QED BY <1>5, <2>2, <2>3 DEF SessionOpens
<1> QED BY <1>4, <1>5

\* Every other step of a leg shows the contract nothing, or a tool call.
LEMMA LegStepTells ==
  ASSUME LegsInv, NEW l \in Legs, LegTells(leg[l]), LegStep(l)
  PROVE  LegTells(leg'[l]) /\ Permitted(leg[l], leg'[l]) /\ leg' = [leg EXCEPT ![l] = leg'[l]]
<1> DEFINE x == leg[l]
           Good == LegTells(leg'[l]) /\ Permitted(leg[l], leg'[l]) /\ leg' = [leg EXCEPT ![l] = leg'[l]]
<1>1. Shaped(x) /\ LegFits(x)
  BY DEF LegsInv, LegFits
<1>2. ASSUME NEW y, Becomes(l, y) PROVE leg'[l] = y /\ leg' = [leg EXCEPT ![l] = leg'[l]]
  BY <1>2 DEF Becomes, LegsInv
<1>3. ASSUME NEW y, Becomes(l, y), y.life = x.life, y.cause = x.cause, y.verdict = x.verdict,
             y.calls = x.calls
      PROVE  Good
  <2>1. LegTells(y)
    BY <1>3 DEF LegTells, ShownBy
  <2> QED BY <1>2, <1>3, <2>1, NothingSeen
<1> HIDE DEF Good
<1>4. ASSUME NEW d \in Deadlines, LegTimesOut(l, d) PROVE Good
  <2>1. x.life \in {"building", "running"}
    BY <1>1, <1>4 DEF LegTimesOut, LegFits, LegTells
  <2>2. LifeOf(x) = "running"
    BY <2>1 DEF LifeOf
  <2>3. CutLeg(x, d) = [x EXCEPT !.cause = d] /\ x.cause = "none" /\ Becomes(l, CutLeg(x, d))
    BY <1>1, <1>4 DEF LegTimesOut, CutLeg
  <2> DEFINE y == [x EXCEPT !.cause = d]
  <2>4. y.life = x.life /\ y.verdict = x.verdict /\ y.calls = x.calls /\ y.cause = d
    BY <1>1 DEF Shaped, Fields
  <2>5. Becomes(l, y)
    BY <2>3
  <2> HIDE DEF y
  <2>6. WasCut(x, y) /\ LegTells(y)
    BY <2>2, <2>3, <2>4 DEF WasCut, LegTells, LifeOf, ShownBy, Contract!Cuts, Contract!Deadlines, Deadlines
  <2> QED BY <1>2, <2>5, <2>6 DEF Good, Permitted
<1>5. CASE FactoryMakes(l)
  <2> DEFINE y == MadeSession(x)
  <2>1. y.life = x.life /\ y.cause = x.cause /\ y.verdict = x.verdict /\ y.calls = x.calls
    BY <1>1 DEF MadeSession, Shaped, Fields
  <2>2. Becomes(l, y)
    BY <1>5 DEF FactoryMakes
  <2> HIDE DEF y
  <2> QED BY <1>3, <2>1, <2>2 DEF Good
<1>6. CASE FactoryFails(l)
  <2> DEFINE y == [x EXCEPT !.factory = "failed"]
  <2>1. y.life = x.life /\ y.cause = x.cause /\ y.verdict = x.verdict /\ y.calls = x.calls
    BY <1>1 DEF Shaped, Fields
  <2>2. Becomes(l, y)
    BY <1>6 DEF FactoryFails
  <2> HIDE DEF y
  <2> QED BY <1>3, <2>1, <2>2 DEF Good
<1>7. CASE LegSpeaks(l)
  <2> DEFINE y == Active(x)
  <2>1. y.life = x.life /\ y.cause = x.cause /\ y.verdict = x.verdict /\ y.calls = x.calls
    BY <1>1 DEF Active, Shaped, Fields
  <2>2. Becomes(l, y)
    BY <1>7 DEF LegSpeaks
  <2> HIDE DEF y
  <2> QED BY <1>3, <2>1, <2>2 DEF Good
<1>8. CASE LegAsks(l)
  <2> DEFINE y == [x EXCEPT !.ask = "pending"]
  <2>1. y.life = x.life /\ y.cause = x.cause /\ y.verdict = x.verdict /\ y.calls = x.calls
    BY <1>1 DEF Shaped, Fields
  <2>2. Becomes(l, y)
    BY <1>8 DEF LegAsks
  <2> HIDE DEF y
  <2> QED BY <1>3, <2>1, <2>2 DEF Good
<1>9. CASE LegAnswered(l)
  <2> DEFINE y == [x EXCEPT !.ask = "settled"]
  <2>1. y.life = x.life /\ y.cause = x.cause /\ y.verdict = x.verdict /\ y.calls = x.calls
    BY <1>1 DEF Shaped, Fields
  <2>2. Becomes(l, y)
    BY <1>9 DEF LegAnswered
  <2> HIDE DEF y
  <2> QED BY <1>3, <2>1, <2>2 DEF Good
<1>10. CASE MailArrives(l)
  <2> DEFINE y == [x EXCEPT !.mail = @ + 1]
  <2>1. y.life = x.life /\ y.cause = x.cause /\ y.verdict = x.verdict /\ y.calls = x.calls
    BY <1>1 DEF Shaped, Fields
  <2>2. Becomes(l, y)
    BY <1>10 DEF MailArrives
  <2> HIDE DEF y
  <2> QED BY <1>3, <2>1, <2>2 DEF Good
<1>11. CASE HostEnds(l)
  <2>1. PICK how \in {"clean", "error", "stopped", "threw"} : Becomes(l, [x EXCEPT !.host = how])
    BY <1>11 DEF HostEnds
  <2> DEFINE y == [x EXCEPT !.host = how]
  <2>2. y.life = x.life /\ y.cause = x.cause /\ y.verdict = x.verdict /\ y.calls = x.calls
    BY <1>1 DEF Shaped, Fields
  <2>3. Becomes(l, y)
    BY <2>1
  <2> HIDE DEF y
  <2> QED BY <1>3, <2>2, <2>3 DEF Good
<1>12. ASSUME NEW c \in Calls, LegCalls(l, c) PROVE Good
  <2>1. PICK how \in {"open", "ended"} : Becomes(l, Active([x EXCEPT !.calls[c] = how]))
    BY <1>12 DEF LegCalls
  <2> DEFINE y == Active([x EXCEPT !.calls[c] = how])
  <2>2. y.life = x.life /\ y.cause = x.cause /\ y.verdict = x.verdict /\ x.life = "running"
    BY <1>1, <1>12 DEF Active, LegCalls, Live, Shaped, Fields
  <2>3. leg'[l] = y /\ leg' = [leg EXCEPT ![l] = leg'[l]]
    BY <1>2, <2>1
  <2> HIDE DEF y
  <2>4. LegTells(y) /\ Showed(x, y)
    BY <2>2 DEF LegTells, Showed, LifeOf
  <2> QED BY <2>3, <2>4 DEF Good, Permitted
<1>13. CASE BuildGivesUp(l) \/ SessionOpens(l) \/ LegSettles(l)
  BY <1>13, GiveUpTells, LegSettlesTells DEF Good
<1> QED BY <1>4, <1>5, <1>6, <1>7, <1>8, <1>9, <1>10, <1>11, <1>12, <1>13 DEF LegStep, Good

---------------------------------------------------------------------------
\* The child leg: a kill has a cause, an abort a signal, and nothing is shown
\* or cut before there is a process.
ChildTells(x) ==
  /\ x.cause \in {"none"} \cup Cut
  /\ x.cause = "abort" => x.signal # "live"
  /\ x.killing => x.cause # "none"
  /\ x.life \in {"idle", "preparing", "prompting"} => x.cause = "none" /\ ShownBy(x) = {}

\* A kill changes neither stage, verdict nor calls, and keeps the first cause.
LEMMA StoppedTells ==
  ASSUME NEW x, ChildShaped(x), ChildTells(x), NEW c \in Cut,
         x.life = "running" \/ x.cause # "none", x.life \in Stages,
         c = "abort" => x.signal # "live"
  PROVE  ChildTells(Stopped(x, c)) /\ Permitted(x, Stopped(x, c))
<1> DEFINE y == Stopped(x, c)
<1>1. /\ y.life = x.life /\ y.verdict = x.verdict /\ y.calls = x.calls /\ y.signal = x.signal
      /\ y.cause = IF x.cause = "none" THEN c ELSE x.cause
  BY DEF Stopped, Killed, ChildShaped, ChildFields
<1> HIDE DEF y
<1>2. c # "none" /\ c \in Contract!Cuts
  BY DEF Cut, ChildDeadlines, Contract!Cuts, Contract!Deadlines
<1>3. ShownBy(y) = ShownBy(x) /\ LifeOf(y) = LifeOf(x)
  BY <1>1 DEF ShownBy, LifeOf
<1>4. ChildTells(y)
  BY <1>1, <1>2, <1>3 DEF ChildTells
<1>5. Permitted(x, y)
  <2>1. CASE x.cause = "none"
    BY <1>1, <1>2, <1>3, <2>1 DEF WasCut, Permitted, LifeOf
  <2>2. CASE x.cause # "none"
    BY <1>1, <2>2, NothingSeen
  <2> QED BY <2>1, <2>2
<1> QED BY <1>4, <1>5 DEF y

\* What is permitted depends on stage, cause, verdict and calls.
LEMMA PermittedFrom ==
  ASSUME NEW x, NEW z, NEW y, Permitted(z, y),
         LifeOf(z) = LifeOf(x), z.cause = x.cause, z.verdict = x.verdict, z.calls = x.calls
  PROVE  Permitted(x, y)
<1>1. ShownBy(z) = ShownBy(x)
  BY DEF ShownBy
<1> QED BY <1>1 DEF Permitted, SameLeg, Begun, TurnedDown, WasCut, Showed, SettledWell

\* Settling for whatever reason.
LEMMA FinishedTells ==
  ASSUME NEW x, ChildShaped(x), ChildTells(x), x.life = "running", NEW v \in ChildVerdicts(x)
  PROVE  ChildTells(Finished(x, v)) /\ Permitted(x, Finished(x, v))
<1> DEFINE y == Finished(x, v)
<1>1. /\ y.life = "settled" /\ y.cause = x.cause /\ y.verdict = v /\ y.signal = x.signal
      /\ y.killing = x.killing
      /\ y.calls = [c \in ToolCalls |-> IF x.calls[c] = "open" THEN "ended" ELSE x.calls[c]]
  BY DEF Finished, GivenBack, ChildShaped, ChildFields
<1> HIDE DEF y
<1>2. ShownBy(y) = {}
  BY <1>1, RunsAssumption DEF ShownBy
<1>3. v \in Contract!Verdicts(x.cause)
  <2>1. CASE x.cause \in ChildDeadlines
    BY <2>1, VerdictsAre DEF ChildVerdicts, ChildDeadlines, Deadlines
  <2>2. CASE x.cause = "none"
    BY <2>2, VerdictsAre DEF ChildVerdicts, ChildDeadlines
  <2>3. CASE x.cause = "abort"
    BY <2>3, VerdictsAre DEF ChildVerdicts, ChildDeadlines, ChildTells
  <2>4. CASE x.cause = "flood"
    BY <2>4, VerdictsAre DEF ChildVerdicts, ChildDeadlines
  <2> QED BY <2>1, <2>2, <2>3, <2>4 DEF ChildTells, Cut
<1>4. ChildTells(y) /\ SettledWell(x, y)
  BY <1>1, <1>2, <1>3 DEF ChildTells, SettledWell, LifeOf
<1> QED BY <1>4 DEF Permitted, y

LEMMA BeginChildTells ==
  ASSUME BeginChild, LifeOf(child) # "running"
  PROVE  ChildTells(child') /\ Permitted(child, child')
<1> DEFINE x == FreshChild(child.signal)
<1>1. /\ ChildShaped(x) /\ x.life = "idle" /\ x.cause = "none" /\ x.verdict = "none" /\ ~x.killing
      /\ ShownBy(x) = {}
  BY RunsAssumption DEF FreshChild, ChildShaped, ChildFields, ShownBy
<1> HIDE DEF x
<1>2. ASSUME NEW y, child' = y, y.life \in {"settled", "preparing", "prompting"}, y.cause = "none",
             y.calls = x.calls, ~y.killing,
             y.life # "settled" => y.verdict = "none", y.life = "settled" => y.verdict = "refused"
      PROVE  ChildTells(child') /\ Permitted(child, child')
  <2>1. ShownBy(y) = {}
    BY <1>1, <1>2 DEF ShownBy
  <2>2. ChildTells(y)
    BY <1>2, <2>1 DEF ChildTells
  <2>3. Begun(child, y) \/ TurnedDown(child, y)
    BY <1>2, <2>1 DEF Begun, TurnedDown, LifeOf
  <2> QED BY <1>2, <2>2, <2>3 DEF Permitted
<1>3. CASE child' = [x EXCEPT !.life = "settled", !.verdict = "refused"]
  <2> DEFINE y == [x EXCEPT !.life = "settled", !.verdict = "refused"]
  <2>1. y.life = "settled" /\ y.cause = "none" /\ y.calls = x.calls /\ ~y.killing /\ y.verdict = "refused"
    BY <1>1 DEF ChildShaped, ChildFields
  <2> QED BY <1>2, <1>3, <2>1
<1>4. ASSUME NEW broker, child' = [x EXCEPT !.life = "prompting", !.handle = broker]
      PROVE  ChildTells(child') /\ Permitted(child, child')
  <2> DEFINE y == [x EXCEPT !.life = "prompting", !.handle = broker]
  <2>1. y.life = "prompting" /\ y.cause = "none" /\ y.calls = x.calls /\ ~y.killing /\ y.verdict = "none"
    BY <1>1 DEF ChildShaped, ChildFields
  <2> QED BY <1>2, <1>4, <2>1
<1>5. CASE child' = [x EXCEPT !.life = "preparing"]
  <2> DEFINE y == [x EXCEPT !.life = "preparing"]
  <2>1. y.life = "preparing" /\ y.cause = "none" /\ y.calls = x.calls /\ ~y.killing /\ y.verdict = "none"
    BY <1>1 DEF ChildShaped, ChildFields
  <2> QED BY <1>2, <1>5, <2>1
<1> QED BY <1>3, <1>4, <1>5 DEF BeginChild, ChildBecomes, x

\* A child step that leaves what the contract looks at.
LEMMA ChildUnseen ==
  ASSUME ChildTells(child), NEW y, child' = y, y.life = child.life, y.cause = child.cause,
         y.verdict = child.verdict, y.calls = child.calls, y.killing = child.killing,
         child.signal # "live" => y.signal # "live"
  PROVE  ChildTells(child') /\ Permitted(child, child')
<1>1. ChildTells(y)
  BY DEF ChildTells, ShownBy
<1> QED BY <1>1, NothingSeen

\* The child is stopped after a change the contract does not see.
LEMMA ChildStops ==
  ASSUME NEW x, ChildShaped(x), ChildTells(x), NEW c \in Cut, child' = Stopped(x, c),
         x.life = "running" \/ x.cause # "none", x.life \in Stages,
         c = "abort" => x.signal # "live",
         LifeOf(x) = LifeOf(child), x.cause = child.cause, x.verdict = child.verdict,
         x.calls = child.calls
  PROVE  ChildTells(child') /\ Permitted(child, child')
<1>1. ChildTells(child') /\ Permitted(x, child')
  BY StoppedTells
<1> QED BY <1>1, PermittedFrom

\* Before the process: the contract sees at most a settlement.
LEMMA PreparationTells ==
  ASSUME ChildFits(child), ChildTells(child), Prepares \/ Spawns \/ PromptFails
  PROVE  ChildTells(child') /\ Permitted(child, child')
<1>1. /\ ChildShaped(child) /\ child.life \in {"preparing", "prompting"}
      /\ child.cause = "none" /\ ~child.killing /\ ShownBy(child) = {} /\ LifeOf(child) = "running"
  BY DEF ChildFits, ChildTells, Prepares, Spawns, PromptFails, LifeOf
<1>2. ASSUME NEW y, child' = y, y.life = "settled", y.cause = "none", ~y.killing,
             y.calls = child.calls, y.verdict \in {"contract", "threw"}
      PROVE  ChildTells(child') /\ Permitted(child, child')
  <2>1. ShownBy(y) = {} /\ LifeOf(y) = "settled"
    BY <1>1, <1>2 DEF ShownBy, LifeOf
  <2>2. ChildTells(y) /\ SettledWell(child, y)
    BY <1>1, <1>2, <2>1, VerdictsAre DEF ChildTells, SettledWell
  <2> QED BY <1>2, <2>2 DEF Permitted
<1>3. CASE child' = [child EXCEPT !.life = "prompting", !.grant = TRUE, !.handle = TRUE]
  <2> DEFINE y == [child EXCEPT !.life = "prompting", !.grant = TRUE, !.handle = TRUE]
  <2>1. /\ y.life = "prompting" /\ y.cause = child.cause /\ y.verdict = child.verdict
        /\ y.calls = child.calls /\ y.killing = child.killing
    BY <1>1 DEF ChildShaped, ChildFields
  <2>2. child' = y
    BY <1>3
  <2> HIDE DEF y
  <2>3. LifeOf(y) = "running" /\ ShownBy(y) = {}
    BY <1>1, <2>1 DEF LifeOf, ShownBy
  <2>4. ChildTells(y) /\ SameLeg(child, y)
    BY <1>1, <2>1, <2>3 DEF ChildTells, SameLeg
  <2> QED BY <2>2, <2>4 DEF Permitted
<1>4. CASE child' = [child EXCEPT !.life = "settled", !.verdict = "contract"]
  <2> DEFINE y == [child EXCEPT !.life = "settled", !.verdict = "contract"]
  <2>1. /\ y.life = "settled" /\ y.cause = "none" /\ ~y.killing
        /\ y.calls = child.calls /\ y.verdict = "contract"
    BY <1>1 DEF ChildShaped, ChildFields
  <2>2. child' = y
    BY <1>4
  <2> HIDE DEF y
  <2> QED BY <1>2, <2>1, <2>2
<1>5. CASE PromptFails
  <2> DEFINE y == [GivenBack(child) EXCEPT !.life = "settled", !.verdict = "threw"]
  <2>1. /\ y.life = "settled" /\ y.cause = "none" /\ ~y.killing
        /\ y.calls = child.calls /\ y.verdict = "threw"
    BY <1>1 DEF GivenBack, ChildShaped, ChildFields
  <2>2. child' = y
    BY <1>5 DEF PromptFails, ChildBecomes
  <2> HIDE DEF y
  <2> QED BY <1>2, <2>1, <2>2
<1>6. CASE Spawns
  <2>1. PICK root \in {"none", "alive"} :
          LET x == [Spawned(child) EXCEPT !.root = root] IN
          child' = IF x.signal = "live" THEN x ELSE Stopped(x, "abort")
    BY <1>6 DEF Spawns, ChildBecomes
  <2> DEFINE x == [Spawned(child) EXCEPT !.root = root]
  <2>2. /\ ChildShaped(x) /\ x.life = "running" /\ x.cause = "none" /\ x.verdict = child.verdict
        /\ x.calls = child.calls /\ ~x.killing
    BY <1>1 DEF Spawned, ChildShaped, ChildFields
  <2>3. child' = IF x.signal = "live" THEN x ELSE Stopped(x, "abort")
    BY <2>1
  <2> HIDE DEF x
  <2>4. LifeOf(x) = LifeOf(child) /\ ShownBy(x) = ShownBy(child) /\ ChildTells(x)
    BY <1>1, <2>2 DEF LifeOf, ShownBy, ChildTells
  <2>5. CASE x.signal = "live"
    <3>1. SameLeg(child, x)
      BY <1>1, <2>2, <2>4 DEF SameLeg
    <3> QED BY <2>3, <2>4, <2>5, <3>1 DEF Permitted
  <2>6. CASE x.signal # "live"
    BY <1>1, <2>2, <2>3, <2>4, <2>6, ChildStops DEF Cut, Stages
  <2> QED BY <2>5, <2>6
<1> QED BY <1>3, <1>4, <1>5, <1>6 DEF Prepares, ChildBecomes

\* Output and questions: a call shown, a flood, or nothing.
LEMMA OutputTells ==
  ASSUME ChildFits(child), ChildTells(child),
         ChildSpeaks \/ ChildFloods \/ ChildAsks \/ ChildAnswered \/ (\E c \in ToolCalls : ChildCalls(c))
  PROVE  ChildTells(child') /\ Permitted(child, child')
<1>1. ChildShaped(child) /\ child.life \in Stages
  BY DEF ChildFits
<1>2. Reads => child.life = "running" \/ (child.life = "settled" /\ child.cause # "none")
  BY DEF Reads, ChildFits, ChildTells, Stages
<1>3. CASE ChildSpeaks
  <2> DEFINE y == Heard(child)
  <2>1. /\ y.life = child.life /\ y.cause = child.cause /\ y.verdict = child.verdict
        /\ y.calls = child.calls /\ y.killing = child.killing /\ y.signal = child.signal
    BY <1>1 DEF Heard, ChildShaped, ChildFields
  <2>2. child' = y
    BY <1>3 DEF ChildSpeaks, ChildBecomes
  <2> HIDE DEF y
  <2> QED BY <2>1, <2>2, ChildUnseen
<1>4. CASE ChildAsks
  <2> DEFINE y == [child EXCEPT !.ask = "pending"]
  <2>1. /\ y.life = child.life /\ y.cause = child.cause /\ y.verdict = child.verdict
        /\ y.calls = child.calls /\ y.killing = child.killing /\ y.signal = child.signal
    BY <1>1 DEF ChildShaped, ChildFields
  <2>2. child' = y
    BY <1>4 DEF ChildAsks, ChildBecomes
  <2> HIDE DEF y
  <2> QED BY <2>1, <2>2, ChildUnseen
<1>5. CASE ChildAnswered
  <2> DEFINE y == [child EXCEPT !.ask = "settled"]
  <2>1. /\ y.life = child.life /\ y.cause = child.cause /\ y.verdict = child.verdict
        /\ y.calls = child.calls /\ y.killing = child.killing /\ y.signal = child.signal
    BY <1>1 DEF ChildShaped, ChildFields
  <2>2. child' = y
    BY <1>5 DEF ChildAnswered, ChildBecomes
  <2> HIDE DEF y
  <2> QED BY <2>1, <2>2, ChildUnseen
<1>6. CASE ChildFloods
  <2> DEFINE x == [child EXCEPT !.flooded = TRUE]
  <2>1. /\ ChildShaped(x) /\ x.life = child.life /\ x.cause = child.cause /\ x.verdict = child.verdict
        /\ x.calls = child.calls /\ x.killing = child.killing /\ x.signal = child.signal
    BY <1>1 DEF ChildShaped, ChildFields
  <2>2. child' = Stopped(x, "flood")
    BY <1>6 DEF ChildFloods, FloodStops, ChildBecomes
  <2>3. Reads
    BY <1>6 DEF ChildFloods
  <2> HIDE DEF x
  <2>4. LifeOf(x) = LifeOf(child) /\ ShownBy(x) = ShownBy(child)
    BY <2>1 DEF LifeOf, ShownBy
  <2>5. ChildTells(x)
    BY <2>1, <2>4 DEF ChildTells
  <2> QED BY <1>1, <1>2, <2>1, <2>2, <2>3, <2>4, <2>5, ChildStops DEF Cut
<1>7. ASSUME NEW c \in ToolCalls, ChildCalls(c)
      PROVE  ChildTells(child') /\ Permitted(child, child')
  <2>1. PICK how \in {"open", "ended"} : child' = Heard([child EXCEPT !.calls[c] = how])
    BY <1>7 DEF ChildCalls, ChildBecomes
  <2> DEFINE y == Heard([child EXCEPT !.calls[c] = how])
  <2>2. /\ y.life = child.life /\ y.cause = child.cause /\ y.verdict = child.verdict
        /\ y.killing = child.killing /\ y.signal = child.signal
    BY <1>1 DEF Heard, ChildShaped, ChildFields
  <2>3. child' = y
    BY <2>1
  <2> HIDE DEF y
  <2>4. y.life \in {"running", "settled"}
    BY <1>2, <1>7, <2>2 DEF ChildCalls
  <2>5. ChildTells(y) /\ Showed(child, y)
    BY <2>2, <2>4 DEF ChildTells, Showed, LifeOf
  <2> QED BY <2>3, <2>5 DEF Permitted
<1> QED BY <1>3, <1>4, <1>5, <1>6, <1>7

\* Deadlines and signals cut, once.
LEMMA CutTells ==
  ASSUME ChildFits(child), ChildTells(child),
         (\E d \in ChildDeadlines : ChildTimesOut(d)) \/ (\E s \in {"call", "run"} : AbortChild(s))
  PROVE  ChildTells(child') /\ Permitted(child, child')
<1>1. ChildShaped(child) /\ child.life \in Stages
  BY DEF ChildFits
<1>2. ASSUME NEW d \in ChildDeadlines, ChildTimesOut(d)
      PROVE  ChildTells(child') /\ Permitted(child, child')
  <2> DEFINE x == [child EXCEPT !.armed = @ \ {d}]
  <2>1. /\ ChildShaped(x) /\ x.life = child.life /\ x.cause = child.cause /\ x.verdict = child.verdict
        /\ x.calls = child.calls /\ x.killing = child.killing /\ x.signal = child.signal
    BY <1>1 DEF ChildShaped, ChildFields
  <2>2. child' = Stopped(x, d)
    BY <1>2 DEF ChildTimesOut, ChildBecomes
  <2>3. child.life = "running"
    BY <1>2 DEF ChildTimesOut, ChildFits, Stages
  <2> HIDE DEF x
  <2>4. LifeOf(x) = LifeOf(child) /\ ShownBy(x) = ShownBy(child)
    BY <2>1 DEF LifeOf, ShownBy
  <2>5. ChildTells(x)
    BY <2>1, <2>4 DEF ChildTells
  <2>6. d \in Cut /\ d # "abort"
    BY DEF Cut, ChildDeadlines
  <2> QED BY <1>1, <2>1, <2>2, <2>3, <2>4, <2>5, <2>6, ChildStops
<1>3. ASSUME NEW s \in {"call", "run"}, AbortChild(s)
      PROVE  ChildTells(child') /\ Permitted(child, child')
  <2> DEFINE x == [child EXCEPT !.signal = s, !.listening = FALSE]
  <2>1. /\ ChildShaped(x) /\ x.life = child.life /\ x.cause = child.cause /\ x.verdict = child.verdict
        /\ x.calls = child.calls /\ x.killing = child.killing /\ x.signal = s
    BY <1>1 DEF ChildShaped, ChildFields
  <2>2. child' = IF child.listening THEN Stopped(x, "abort") ELSE x
    BY <1>3 DEF AbortChild, ChildBecomes
  <2>3. child.listening => child.life = "running"
    BY DEF ChildFits, Stages
  <2> HIDE DEF x
  <2>4. LifeOf(x) = LifeOf(child) /\ ShownBy(x) = ShownBy(child)
    BY <2>1 DEF LifeOf, ShownBy
  <2>5. ChildTells(x) /\ x.signal # "live"
    BY <2>1, <2>4 DEF ChildTells
  <2>6. CASE child.listening
    BY <1>1, <2>1, <2>2, <2>3, <2>4, <2>5, <2>6, ChildStops DEF Cut
  <2>7. CASE ~child.listening
    BY <2>1, <2>2, <2>5, <2>7, ChildUnseen
  <2> QED BY <2>6, <2>7
<1> QED BY <1>2, <1>3

\* The processes: nothing, or the leg's settlement.
LEMMA ProcessTells ==
  ASSUME ChildFits(child), ChildTells(child),
         \/ \E status \in {"zero", "nonzero", "signal"} : RootExits(status)
         \/ KidStarts \/ KidEnds \/ ChildCloses \/ SpawnErrors \/ GraceEnds \/ LastResort
  PROVE  ChildTells(child') /\ Permitted(child, child')
<1>1. ChildShaped(child) /\ child.life \in Stages
  BY DEF ChildFits
<1>2. ASSUME NEW y, child' = y, y.life = child.life, y.cause = child.cause,
             y.verdict = child.verdict, y.calls = child.calls, y.killing = child.killing,
             y.signal = child.signal
      PROVE  ChildTells(child') /\ Permitted(child, child')
  BY <1>2, ChildUnseen
<1>3. ASSUME NEW status, RootExits(status)
      PROVE  ChildTells(child') /\ Permitted(child, child')
  <2> DEFINE y == [child EXCEPT !.root = "dead", !.exit = status]
  <2>1. /\ y.life = child.life /\ y.cause = child.cause /\ y.verdict = child.verdict
        /\ y.calls = child.calls /\ y.killing = child.killing /\ y.signal = child.signal
    BY <1>1 DEF ChildShaped, ChildFields
  <2>2. child' = y
    BY <1>3 DEF RootExits, ChildBecomes
  <2> HIDE DEF y
  <2> QED BY <1>2, <2>1, <2>2
<1>4. CASE KidStarts
  <2>0. PICK k \in {"tame", "deaf"}, p \in BOOLEAN : child' = [child EXCEPT !.kid = k, !.pipe = p]
    BY <1>4 DEF KidStarts, ChildBecomes
  <2> DEFINE y == [child EXCEPT !.kid = k, !.pipe = p]
  <2>1. /\ y.life = child.life /\ y.cause = child.cause /\ y.verdict = child.verdict
        /\ y.calls = child.calls /\ y.killing = child.killing /\ y.signal = child.signal
    BY <1>1 DEF ChildShaped, ChildFields
  <2>2. child' = y
    BY <2>0
  <2> HIDE DEF y
  <2> QED BY <1>2, <2>1, <2>2
<1>5. CASE KidEnds
  <2> DEFINE y == [child EXCEPT !.kid = "none", !.pipe = FALSE]
  <2>1. /\ y.life = child.life /\ y.cause = child.cause /\ y.verdict = child.verdict
        /\ y.calls = child.calls /\ y.killing = child.killing /\ y.signal = child.signal
    BY <1>1 DEF ChildShaped, ChildFields
  <2>2. child' = y
    BY <1>5 DEF KidEnds, ChildBecomes
  <2> HIDE DEF y
  <2> QED BY <1>2, <2>1, <2>2
<1>6. CASE GraceEnds
  <2> DEFINE y == [child EXCEPT !.armed = @ \ {"grace"},
                            !.forced = @ \/ (~child.exited /\ child.root # "none")]
  <2>1. /\ y.life = child.life /\ y.cause = child.cause /\ y.verdict = child.verdict
        /\ y.calls = child.calls /\ y.killing = child.killing /\ y.signal = child.signal
    BY <1>1 DEF ChildShaped, ChildFields
  <2>2. child' = y
    BY <1>6 DEF GraceEnds, ChildBecomes
  <2> HIDE DEF y
  <2> QED BY <1>2, <2>1, <2>2
<1>7. CASE SpawnErrors \/ LastResort
  <2>1. PICK v \in ChildVerdicts(child) : child' = Finished(child, v)
    BY <1>7 DEF SpawnErrors, LastResort, FinishChild, ChildBecomes
  <2>2. child.life = "running"
    BY <1>7 DEF SpawnErrors, LastResort, ChildFits, Stages
  <2> QED BY <1>1, <2>1, <2>2, FinishedTells
<1>8. CASE ChildCloses
  <2> DEFINE x == [child EXCEPT !.exited = TRUE]
  <2>1. /\ ChildShaped(x) /\ x.life = child.life /\ x.cause = child.cause /\ x.verdict = child.verdict
        /\ x.calls = child.calls /\ x.killing = child.killing /\ x.signal = child.signal
    BY <1>1 DEF ChildShaped, ChildFields
  <2>2. IF child.life = "running" THEN FinishChild(x) ELSE child' = x
    BY <1>8 DEF ChildCloses, ChildBecomes
  <2> HIDE DEF x
  <2>3. LifeOf(x) = LifeOf(child) /\ ShownBy(x) = ShownBy(child)
    BY <2>1 DEF LifeOf, ShownBy
  <2>4. ChildTells(x)
    BY <2>1, <2>3 DEF ChildTells
  <2>5. CASE child.life = "running"
    <3>1. PICK v \in ChildVerdicts(x) : child' = Finished(x, v)
      BY <2>2, <2>5 DEF FinishChild, ChildBecomes
    <3>2. ChildTells(child') /\ Permitted(x, child')
      BY <2>1, <2>4, <2>5, <3>1, FinishedTells
    <3> QED BY <2>1, <2>3, <3>2, PermittedFrom
  <2>6. CASE child.life # "running"
    BY <1>2, <2>1, <2>2, <2>6
  <2> QED BY <2>5, <2>6
<1> QED BY <1>3, <1>4, <1>5, <1>6, <1>7, <1>8

LEMMA ChildStepTells ==
  ASSUME ChildFits(child), ChildTells(child), ChildStep
  PROVE  ChildTells(child') /\ Permitted(child, child')
BY PreparationTells, OutputTells, CutTells, ProcessTells DEF ChildStep

---------------------------------------------------------------------------
\* Every run tells what happened to it.
TellsInv == (\A l \in Legs : LegTells(leg[l])) /\ ChildTells(child)

\* One in-process leg does what is permitted.
LEMMA OneLegMoves ==
  ASSUME LegsInv, TellsInv, NEW l \in Legs, UNCHANGED child,
         LegTells(leg'[l]), Permitted(leg[l], leg'[l]), leg' = [leg EXCEPT ![l] = leg'[l]]
  PROVE  TellsInv' /\ [Contract!ContractNext]_(Contract!contractVars)
<1>1. \A k \in Legs \ {l} : leg'[k] = leg[k]
  <2> DEFINE y == leg'[l]
  <2>1. leg' = [leg EXCEPT ![l] = y]
    OBVIOUS
  <2> HIDE DEF y
  <2> QED BY <2>1 DEF LegsInv
<1>2. TellsInv'
  BY <1>1 DEF TellsInv
<1>3. RunState(l) = leg[l] /\ RunState(l)' = leg'[l] /\ l \in Runs
  BY RunsAssumption DEF RunState, Runs
<1>4. \A q \in Runs \ {l} : RunState(q)' = RunState(q)
  BY <1>1 DEF RunState, Runs
<1> QED BY <1>2, <1>3, <1>4, OneRunMoves

\* The child does.
LEMMA ChildMoves ==
  ASSUME TellsInv, UNCHANGED leg, ChildTells(child'), Permitted(child, child')
  PROVE  TellsInv' /\ [Contract!ContractNext]_(Contract!contractVars)
<1>1. TellsInv'
  BY DEF TellsInv
<1>2. RunState(ChildRun) = child /\ RunState(ChildRun)' = child' /\ ChildRun \in Runs
  BY DEF RunState, Runs
<1>3. \A q \in Runs \ {ChildRun} : RunState(q)' = RunState(q)
  BY DEF RunState
<1> QED BY <1>1, <1>2, <1>3, OneRunMoves

\* Neither does anything.
LEMMA NobodyMoves ==
  ASSUME TellsInv, UNCHANGED <<leg, child>>
  PROVE  TellsInv' /\ [Contract!ContractNext]_(Contract!contractVars)
BY DEF TellsInv, Contract!contractVars, LifeView, CauseView, VerdictView, ShownView, LifeOf, ShownBy, RunState

\* A run begins, or is tried again.
LEMMA BeginsTells ==
  ASSUME EngineInv, TellsInv, NEW r \in Runs, Begins(r), RunState(r).life \in {"idle", "settled"}
  PROVE  TellsInv' /\ [Contract!ContractNext]_(Contract!contractVars)
<1>1. CASE r = ChildRun
  <2>1. LifeOf(child) # "running" /\ BeginChild /\ UNCHANGED leg
    BY <1>1 DEF Begins, RunState, LifeOf, legVars
  <2> QED BY <2>1, BeginChildTells, ChildMoves
<1>2. CASE r # ChildRun
  <2>1. r \in Legs /\ LifeOf(leg[r]) # "running" /\ BeginLeg(r) /\ UNCHANGED child
    BY <1>2 DEF Begins, RunState, Runs, LifeOf, childVars
  <2>2. LegTells(leg'[r]) /\ Permitted(leg[r], leg'[r]) /\ leg' = [leg EXCEPT ![r] = leg'[r]]
    BY <2>1, BeginLegTells DEF EngineInv
  <2> QED BY <2>1, <2>2, OneLegMoves DEF EngineInv
<1> QED BY <1>1, <1>2

\* Every step of every run is a step of the contract, or none.
LEMMA StepTells ==
  ASSUME EngineInv, TellsInv, [Next]_vars
  PROVE  TellsInv' /\ [Contract!ContractNext]_(Contract!contractVars)
<1> DEFINE Good == TellsInv' /\ [Contract!ContractNext]_(Contract!contractVars)
<1>1. ASSUME NEW r \in Runs, StartRun(r) \/ Retries(r)
      PROVE  Good
  BY <1>1, BeginsTells DEF StartRun, Retries
<1>2. ASSUME NEW r \in Runs, Returns(r)
      PROVE  Good
  BY <1>2, NobodyMoves DEF Returns, legVars, childVars
<1>3. ASSUME NEW r \in Runs, NEW s \in {"call", "run"}, Abort(r, s)
      PROVE  Good
  <2>1. CASE AbortChild(s) /\ UNCHANGED legVars
    BY <2>1, CutTells, ChildMoves DEF EngineInv, TellsInv, legVars
  <2>2. CASE r # ChildRun /\ AbortLeg(r, s) /\ UNCHANGED childVars
    <3>1. r \in Legs /\ LegTells(leg[r]) /\ LegsInv /\ UNCHANGED child
      BY <2>2 DEF Runs, EngineInv, TellsInv, childVars
    <3>2. LegTells(leg'[r]) /\ Permitted(leg[r], leg'[r]) /\ leg' = [leg EXCEPT ![r] = leg'[r]]
      BY <2>2, <3>1, AbortLegTells
    <3> QED BY <3>1, <3>2, OneLegMoves
  <2> QED BY <1>3, <2>1, <2>2 DEF Abort
<1>4. ASSUME NEW l \in Legs, LegStep(l), UNCHANGED childVars
      PROVE  Good
  <2>1. LegTells(leg[l]) /\ LegsInv /\ UNCHANGED child
    BY <1>4 DEF EngineInv, TellsInv, childVars
  <2>2. LegTells(leg'[l]) /\ Permitted(leg[l], leg'[l]) /\ leg' = [leg EXCEPT ![l] = leg'[l]]
    BY <1>4, <2>1, LegStepTells
  <2> QED BY <2>1, <2>2, OneLegMoves
<1>5. CASE ChildStep /\ UNCHANGED legVars
  BY <1>5, ChildStepTells, ChildMoves DEF EngineInv, TellsInv, legVars
<1>6. CASE UNCHANGED vars
  BY <1>6, NobodyMoves DEF vars, legVars, childVars
<1> HIDE DEF Good
<1>7. Good
  BY <1>1, <1>2, <1>3, <1>4, <1>5, <1>6 DEF Next, Good
<1> QED BY <1>7 DEF Good

\* Before anything has run, the contract has not begun.
LEMMA InitTells ==
  ASSUME Init
  PROVE  TellsInv /\ Contract!ContractInit
<1>1. leg = [l \in Legs |-> FreshLeg("live")] /\ child = FreshChild("live")
  BY DEF Init, LegsInit, ChildInit
<1>2. /\ FreshLeg("live").life = "idle" /\ FreshLeg("live").cause = "none"
      /\ FreshLeg("live").verdict = "none" /\ ShownBy(FreshLeg("live")) = {}
  BY DEF FreshLeg, ShownBy
<1>3. /\ FreshChild("live").life = "idle" /\ FreshChild("live").cause = "none" /\ ~FreshChild("live").killing
      /\ FreshChild("live").verdict = "none" /\ ShownBy(FreshChild("live")) = {}
  BY RunsAssumption DEF FreshChild, ShownBy
<1>4. TellsInv
  BY <1>1, <1>2, <1>3 DEF TellsInv, LegTells, ChildTells
<1>5. \A r \in Runs : /\ RunState(r).life = "idle" /\ RunState(r).cause = "none"
                      /\ RunState(r).verdict = "none" /\ ShownBy(RunState(r)) = {}
  BY <1>1, <1>2, <1>3 DEF RunState, Runs
<1>6. Contract!ContractInit
  BY <1>5 DEF Contract!ContractInit, LifeView, CauseView, VerdictView, ShownView, LifeOf
<1> QED BY <1>4, <1>6

\* Both engines keep the contract of a leg, for any legs and calls: it settles
\* once, the first cut names its verdict, and one that failed leaves no call
\* looking open.
THEOREM EnginesKeepContract == Spec => RunsKeepContract
<1>1. Init => EngineInv /\ TellsInv /\ Contract!ContractInit
  BY InitFits, InitTells
<1>2. EngineInv /\ TellsInv /\ [Next]_vars
        => EngineInv' /\ TellsInv' /\ [Contract!ContractNext]_(Contract!contractVars)
  BY StepKeeps, StepTells
<1> QED BY <1>1, <1>2, PTL DEF Spec, RunsKeepContract, Contract!ContractSpec

---------------------------------------------------------------------------
\* Where a run may turn.  Every provider it fell back to is one it remembers,
\* and so is the first, unless a child answered for another.
RouteInv ==
  /\ \A r \in Runs : asked[r] \in Seq(Providers)
  /\ tried = [r \in Runs |-> tried[r]] /\ asked = [r \in Runs |-> asked[r]]
  /\ \A r \in Runs :
       /\ Len(asked[r]) > 1 => r \notin Pinned
       /\ \A i \in 2..Len(asked[r]) : asked[r][i] \in tried[r] /\ asked[r][i] \in Allowed
       /\ r # ChildRun /\ Len(asked[r]) > 1 => asked[r][1] \in tried[r]
       /\ \A i, j \in 2..Len(asked[r]) : asked[r][i] = asked[r][j] => i = j
       /\ r # ChildRun => \A i, j \in 1..Len(asked[r]) : asked[r][i] = asked[r][j] => i = j

\* A route is another provider's, permitted, and not tried.
LEMMA NextRouteIs ==
  ASSUME NEW from, NEW done, NEW p \in NextRoute(from, done)
  PROVE  p \in Providers /\ p \in Allowed /\ p # from /\ p \notin done
BY DEF NextRoute, OtherRoutes

\* A run turns to a provider it has not asked.
LEMMA RetryRoutes ==
  ASSUME RouteInv, NEW r \in Runs, Retries(r)
  PROVE  RouteInv'
<1>1. PICK from \in Used(r) : \E p \in NextRoute(from, tried[r] \cup {from}) :
        /\ tried' = [tried EXCEPT ![r] = tried[r] \cup {from, p}]
        /\ asked' = [asked EXCEPT ![r] = Append(asked[r], p)]
  BY DEF Retries, NowTried
<1>2. PICK p \in NextRoute(from, tried[r] \cup {from}) :
        /\ tried' = [tried EXCEPT ![r] = tried[r] \cup {from, p}]
        /\ asked' = [asked EXCEPT ![r] = Append(asked[r], p)]
  BY <1>1
<1>3. p \in Providers /\ p \in Allowed /\ p # from /\ p \notin tried[r]
  BY NextRouteIs
<1> DEFINE s == asked[r]
           t == Append(asked[r], p)
           n == Len(asked[r])
<1>4. s \in Seq(Providers) /\ n \in Nat /\ r \notin Pinned
  BY DEF RouteInv, Retries, MayRetry
<1>5. /\ t \in Seq(Providers) /\ Len(t) = n + 1 /\ t[n + 1] = p
      /\ \A i \in 1..n : t[i] = s[i]
  BY <1>3, <1>4
<1>6. r # ChildRun => from = s[n]
  BY DEF Used, Last
<1>7. \A i \in 2..n : s[i] \in tried[r] /\ s[i] \in Allowed
  BY DEF RouteInv
<1>8. /\ \A i, j \in 2..n : s[i] = s[j] => i = j
      /\ r # ChildRun => \A i, j \in 1..n : s[i] = s[j] => i = j
      /\ r # ChildRun /\ n > 1 => s[1] \in tried[r]
  BY DEF RouteInv
<1>9. /\ asked'[r] = t /\ tried'[r] = tried[r] \cup {from, p}
      /\ \A q \in Runs \ {r} : asked'[q] = asked[q] /\ tried'[q] = tried[q]
      /\ tried' = [q \in Runs |-> tried'[q]] /\ asked' = [q \in Runs |-> asked'[q]]
  BY <1>2 DEF RouteInv
<1> HIDE DEF s, t, n
<1>10. \A i \in 2..n + 1 : t[i] \in tried'[r] /\ t[i] \in Allowed
  BY <1>3, <1>4, <1>5, <1>7, <1>9
<1>11. ASSUME r # ChildRun PROVE \A i \in 1..n : s[i] # p
  <2>1. \A i \in 1..n : i = 1 \/ i \in 2..n
    BY <1>4
  <2>2. n = 1 => s[1] = from
    BY <1>6, <1>11
  <2>3. n > 1 => s[1] \in tried[r]
    BY <1>8, <1>11
  <2>4. \A i \in 1..n : i = 1 => n = 1 \/ n > 1
    BY <1>4
  <2> QED BY <1>3, <1>7, <2>1, <2>2, <2>3, <2>4
<1>12. \A i \in 2..n : s[i] # p
  BY <1>3, <1>7
<1>13. ASSUME NEW i \in 2..n + 1, NEW j \in 2..n + 1, t[i] = t[j] PROVE i = j
  <2>1. (i \in 2..n \/ i = n + 1) /\ (j \in 2..n \/ j = n + 1)
    BY <1>4
  <2> QED BY <1>4, <1>5, <1>8, <1>12, <1>13, <2>1
<1>14. ASSUME r # ChildRun, NEW i \in 1..n + 1, NEW j \in 1..n + 1, t[i] = t[j] PROVE i = j
  <2>1. (i \in 1..n \/ i = n + 1) /\ (j \in 1..n \/ j = n + 1)
    BY <1>4
  <2> QED BY <1>4, <1>5, <1>8, <1>11, <1>14, <2>1
<1>15. ASSUME r # ChildRun, n + 1 > 1 PROVE t[1] \in tried'[r]
  <2>1. n >= 1 /\ t[1] = s[1]
    BY <1>4, <1>5, <1>15
  <2>2. CASE n = 1
    BY <1>6, <1>9, <1>15, <2>1, <2>2
  <2>3. CASE n > 1
    BY <1>8, <1>9, <1>15, <2>1, <2>3
  <2> QED BY <1>4, <2>1, <2>2, <2>3
<1>16. /\ asked'[r] \in Seq(Providers) /\ Len(asked'[r]) = n + 1
       /\ \A i \in 2..Len(asked'[r]) : asked'[r][i] \in tried'[r] /\ asked'[r][i] \in Allowed
       /\ r # ChildRun /\ Len(asked'[r]) > 1 => asked'[r][1] \in tried'[r]
       /\ \A i, j \in 2..Len(asked'[r]) : asked'[r][i] = asked'[r][j] => i = j
       /\ r # ChildRun => \A i, j \in 1..Len(asked'[r]) : asked'[r][i] = asked'[r][j] => i = j
  BY <1>5, <1>9, <1>10, <1>13, <1>14, <1>15
<1>17. \A q \in Runs \ {r} :
         /\ asked'[q] \in Seq(Providers)
         /\ Len(asked'[q]) > 1 => q \notin Pinned
         /\ \A i \in 2..Len(asked'[q]) : asked'[q][i] \in tried'[q] /\ asked'[q][i] \in Allowed
         /\ q # ChildRun /\ Len(asked'[q]) > 1 => asked'[q][1] \in tried'[q]
         /\ \A i, j \in 2..Len(asked'[q]) : asked'[q][i] = asked'[q][j] => i = j
         /\ q # ChildRun => \A i, j \in 1..Len(asked'[q]) : asked'[q][i] = asked'[q][j] => i = j
  BY <1>9 DEF RouteInv
<1> QED BY <1>4, <1>9, <1>16, <1>17 DEF RouteInv

\* A run starts with one provider.
LEMMA StartRoutes ==
  ASSUME RouteInv, NEW r \in Runs, StartRun(r)
  PROVE  RouteInv'
<1>1. PICK p \in First : asked' = [asked EXCEPT ![r] = <<p>>]
  BY DEF StartRun
<1>2. p \in Providers /\ tried' = tried
  BY RunsAssumption DEF StartRun
<1> DEFINE s == <<p>>
<1>3. s \in Seq(Providers) /\ Len(s) = 1 /\ 2..Len(s) = {} /\ 1..Len(s) = {1}
  BY <1>2
<1>4. /\ asked'[r] = s
      /\ \A q \in Runs \ {r} : asked'[q] = asked[q]
      /\ asked' = [q \in Runs |-> asked'[q]]
  BY <1>1 DEF RouteInv
<1> HIDE DEF s
<1>5. /\ asked'[r] \in Seq(Providers) /\ Len(asked'[r]) = 1
      /\ 2..Len(asked'[r]) = {} /\ 1..Len(asked'[r]) = {1}
  BY <1>3, <1>4
<1>6. \A q \in Runs \ {r} :
         /\ asked'[q] \in Seq(Providers)
         /\ Len(asked'[q]) > 1 => q \notin Pinned
         /\ \A i \in 2..Len(asked'[q]) : asked'[q][i] \in tried'[q] /\ asked'[q][i] \in Allowed
         /\ q # ChildRun /\ Len(asked'[q]) > 1 => asked'[q][1] \in tried'[q]
         /\ \A i, j \in 2..Len(asked'[q]) : asked'[q][i] = asked'[q][j] => i = j
         /\ q # ChildRun => \A i, j \in 1..Len(asked'[q]) : asked'[q][i] = asked'[q][j] => i = j
  BY <1>2, <1>4 DEF RouteInv
<1>7. tried' = [q \in Runs |-> tried'[q]]
  BY <1>2 DEF RouteInv
<1>8. ~(Len(asked'[r]) > 1)
  BY <1>5
<1>9. /\ \A i \in 2..Len(asked'[r]) : asked'[r][i] \in tried'[r] /\ asked'[r][i] \in Allowed
      /\ \A i, j \in 2..Len(asked'[r]) : asked'[r][i] = asked'[r][j] => i = j
      /\ \A i, j \in 1..Len(asked'[r]) : asked'[r][i] = asked'[r][j] => i = j
  BY <1>5
<1> QED BY <1>4, <1>5, <1>6, <1>7, <1>8, <1>9 DEF RouteInv

\* fallback.ts:4: for any catalogue, policy and number of providers, no
\* provider is turned to twice, a pinned run asks its own alone, and no
\* fallback is one the policy forbids.
THEOREM RoutesAreRespected == Spec => []RoutesRespected
<1>1. Init => RouteInv
  <2> SUFFICES ASSUME Init PROVE RouteInv
    OBVIOUS
  <2>1. \A r \in Runs : asked[r] = <<>> /\ Len(asked[r]) = 0
    BY DEF Init
  <2> QED BY <2>1 DEF Init, RouteInv
<1>2. RouteInv /\ [Next]_vars => RouteInv'
  <2> SUFFICES ASSUME RouteInv, [Next]_vars PROVE RouteInv'
    OBVIOUS
  <2>1. CASE UNCHANGED <<asked, tried>>
    BY <2>1 DEF RouteInv
  <2> QED BY <2>1, StartRoutes, RetryRoutes DEF Next, vars, runVars, Returns, Abort
<1>3. RouteInv => RoutesRespected
  <2> SUFFICES ASSUME RouteInv, NEW r \in Runs
      PROVE  /\ IsInjective(IF r = ChildRun /\ asked[r] # <<>> THEN Tail(asked[r]) ELSE asked[r])
             /\ r \in Pinned => Len(asked[r]) <= 1
             /\ \A i \in 2..Len(asked[r]) : asked[r][i] \in Allowed
    BY DEF RoutesRespected
  <2> DEFINE s == asked[r]
  <2>1. s \in Seq(Providers) /\ Len(s) \in Nat /\ DOMAIN s = 1..Len(s)
    BY DEF RouteInv
  <2>2. r \in Pinned => Len(s) <= 1
    BY <2>1 DEF RouteInv
  <2>3. \A i \in 2..Len(s) : s[i] \in Allowed
    BY DEF RouteInv
  <2>4. CASE r = ChildRun /\ s # <<>>
    <3>1. \A i, j \in 2..Len(s) : s[i] = s[j] => i = j
      BY DEF RouteInv
    <3>2. /\ DOMAIN Tail(s) = 1..Len(s) - 1
          /\ \A i \in 1..Len(s) - 1 : Tail(s)[i] = s[i + 1] /\ i + 1 \in 2..Len(s)
      BY <2>1, <2>4
    <3> HIDE DEF s
    <3>3. ASSUME NEW i \in DOMAIN Tail(s), NEW j \in DOMAIN Tail(s), Tail(s)[i] = Tail(s)[j]
          PROVE  i = j
      <4>1. i + 1 = j + 1
        BY <3>1, <3>2, <3>3
      <4> QED BY <3>2, <3>3, <4>1, <2>1
    <3>4. IsInjective(Tail(s))
      BY <3>3 DEF IsInjective
    <3> QED BY <2>2, <2>3, <2>4, <3>4 DEF s
  <2>5. CASE r = ChildRun /\ s = <<>>
    <3>1. DOMAIN s = {}
      BY <2>5
    <3> QED BY <2>2, <2>3, <2>5, <3>1 DEF IsInjective
  <2>6. CASE r # ChildRun
    <3>1. \A i, j \in 1..Len(s) : s[i] = s[j] => i = j
      BY <2>6 DEF RouteInv
    <3> QED BY <2>1, <2>2, <2>3, <2>6, <3>1 DEF IsInjective
  <2> QED BY <2>4, <2>5, <2>6
<1> QED BY <1>1, <1>2, <1>3, PTL DEF Spec
====
