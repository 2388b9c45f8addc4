---- MODULE PersonaProofs ----
(***************************************************************************)
(* A persona of a session, the settings it overrides and the models its    *)
(* participants are given, for any scenes; and the waves of a council, for *)
(* any plans.                                                              *)
(***************************************************************************)
EXTENDS DelegationProofs, SequenceTheorems, FiniteSetTheorems, WellFoundedInduction, TLAPS

---------------------------------------------------------------------------
(* A persona and the settings it overrides *)

\* The models and levels a session knows of.
Words ==
  {"none", "own", "new"} \cup
  UNION {{defs[n].model : n \in DOMAIN defs} \cup {defs[n].thinking : n \in DOMAIN defs} : defs \in {scene.defs, scene.edited}}
Definitions == [model : Words, thinking : Words, tools : BOOLEAN]
People == [name : P!Names \cup {None}, load : Nat, def : Definitions]
Settings ==
  [model : Words, thinking : Words, tools : {"all", "none"} \cup P!Names, kept : Words, over : BOOLEAN,
   thought : Words, thinkOver : BOOLEAN, restricted : BOOLEAN]
Flying == [to : People, asks : Words, first : BOOLEAN, saves : BOOLEAN, starts : BOOLEAN]

IsPersona(p) == p \in People /\ (p.name = None => p = P!Nobody)

\* What the persona in force, or the one before it, has put aside is the operator's.
PutAside(c, o) ==
  /\ c \in Settings /\ o \in [model : Words, thinking : Words, held : BOOLEAN]
  /\ c.model # "none" /\ o.model # "none"
  /\ (c.thinkOver => c.thought = o.thinking) /\ (~c.thinkOver => c.thinking = o.thinking)
  /\ ~c.restricted => c.tools = "all"

\* The tools a persona leaves.
ToolsOf(p) == IF p.name # None /\ p.def.tools THEN p.name ELSE "all"

\* With no switch under way.
Rests(c, o, p) ==
  /\ (c.over => c.kept = o.model) /\ (~c.over => c.model = o.model)
  /\ o.held <=> c.over
  /\ p.def.model = "none" => ~c.over
  /\ p.def.thinking = "none" => ~c.thinkOver
  /\ c.tools = ToolsOf(p)

\* While the host sets the model.
Flies(c, o, p, f) ==
  /\ f \in Flying /\ f.to = p /\ f.asks # "none"
  /\ p.name = None => ~c.restricted
  /\ IF P!Overrides(p)
     THEN c.over /\ c.kept = o.model /\ (IF f.first THEN c.model = o.model /\ ~o.held ELSE o.held)
     ELSE p.def.model = "none" /\ ~c.over /\ ~f.first /\ f.asks = o.model

SettingsFit(c, o, p, line) ==
  /\ PutAside(c, o)
  /\ (line = <<>> /\ Rests(c, o, p)) \/ \E f \in Flying : line = <<f>> /\ Flies(c, o, p, f)

OwnerFits(o, s, p) ==
  /\ o \in [bound : BOOLEAN, pending : BOOLEAN, ready : BOOLEAN, heard : P!Names \cup {None, "not ready"}]
  /\ s \in {"new", "starting", "up", "down"}
  /\ o.bound => s \in {"starting", "up"}
  /\ o.ready => o.bound /\ s = "up"
  /\ o.pending => s # "new"
  /\ o.heard = P!Reads(o, p)

PersonaFits ==
  /\ scene \in Scenes
  /\ shelf.files \in {scene.defs, scene.edited} /\ shelf.loaded \in {scene.defs, scene.edited} /\ shelf.load \in Nat
  /\ shelf = [files |-> shelf.files, loaded |-> shelf.loaded, load |-> shelf.load]
  /\ IsPersona(active)
  /\ session = "new" => flights = <<>>
  /\ OwnerFits(owner, session, active)
  /\ ~mixed => SettingsFit(ctl, own, active, flights)

\* What follows the model is the same whether the host had to be asked or not.
Follows(c, d, o, p) ==
  /\ PutAside(d, o) /\ d.model = c.model /\ (d.over <=> c.over) /\ d.kept = c.kept
  /\ p.def.thinking = "none" => ~d.thinkOver
  /\ d.tools = ToolsOf(p)

LEMMA NoneIsWord == "none" \in Words /\ "own" \in Words /\ "new" \in Words
BY DEF Words

LEMMA ThinkingRestored ==
  ASSUME NEW c, NEW o, PutAside(c, o)
  PROVE  LET e == P!RestoresThinking(c) IN
         /\ PutAside(e, o) /\ ~e.thinkOver /\ e.model = c.model /\ (e.over <=> c.over) /\ e.kept = c.kept
         /\ (e.restricted <=> c.restricted) /\ e.tools = c.tools
<1>1. CASE c.thinkOver
  <2> DEFINE e == [c EXCEPT !.thinking = c.thought, !.thinkOver = FALSE, !.thought = "none"]
  <2>1. P!RestoresThinking(c) = e
    BY <1>1 DEF P!RestoresThinking
  <2>2. /\ e \in Settings /\ ~e.thinkOver /\ e.model = c.model /\ (e.over <=> c.over) /\ e.kept = c.kept
        /\ (e.restricted <=> c.restricted) /\ e.tools = c.tools /\ e.thinking = c.thought
    BY <1>1, NoneIsWord DEF PutAside, Settings
  <2> HIDE DEF e
  <2>3. PutAside(e, o)
    BY <1>1, <2>2 DEF PutAside
  <2> QED BY <2>1, <2>2, <2>3
<1>2. CASE ~c.thinkOver
  BY <1>2 DEF P!RestoresThinking
<1> QED BY <1>1, <1>2

LEMMA AfterModelFits ==
  ASSUME NEW c, NEW o, NEW p, PutAside(c, o), IsPersona(p), p.name = None => ~c.restricted
  PROVE  Follows(c, P!AfterModel(c, p, p), o, p)
<1> DEFINE e == P!RestoresThinking(c)
           g == P!AppliesThinking(c, p)
<1>1. PutAside(e, o) /\ ~e.thinkOver /\ e.model = c.model /\ (e.over <=> c.over) /\ e.kept = c.kept /\ (e.restricted <=> c.restricted) /\ e.tools = c.tools
  BY ThinkingRestored
<1>2. PutAside(g, o) /\ (p.def.thinking = "none" => ~g.thinkOver) /\ g.model = c.model /\ (g.over <=> c.over) /\ g.kept = c.kept
      /\ (g.restricted <=> c.restricted) /\ g.tools = c.tools
  <2>1. CASE p.def.thinking = "none"
    BY <1>1, <2>1 DEF P!AppliesThinking
  <2>2. CASE p.def.thinking = "junk"
    <3>1. g = c
      BY <2>2 DEF P!AppliesThinking
    <3> QED BY <2>2, <3>1
  <2>3. CASE p.def.thinking \notin {"none", "junk"}
    <3>1. g = [c EXCEPT !.thinking = p.def.thinking, !.thinkOver = TRUE, !.thought = IF c.thinkOver THEN c.thought ELSE c.thinking]
      BY <2>3 DEF P!AppliesThinking, PutAside, Settings
    <3>2. p.def.thinking \in Words
      BY DEF IsPersona, People, Definitions
    <3> HIDE DEF g
    <3>3. /\ g \in Settings /\ g.thinkOver /\ g.model = c.model /\ (g.over <=> c.over) /\ g.kept = c.kept
          /\ (g.restricted <=> c.restricted) /\ g.tools = c.tools /\ g.thought = (IF c.thinkOver THEN c.thought ELSE c.thinking)
      BY <3>1, <3>2 DEF PutAside, Settings
    <3> QED BY <2>3, <3>3 DEF PutAside
  <2> QED BY <2>1, <2>2, <2>3
<1>3. CASE p.name = None
  <2>1. p.def.thinking = "none" /\ ToolsOf(p) = "all"
    BY <1>3 DEF IsPersona, P!Nobody, P!Plain, ToolsOf
  <2>2. P!AfterModel(c, p, p) = e
    BY <1>3 DEF P!AfterModel
  <2> HIDE DEF e
  <2>3. e.tools = "all"
    BY <1>1, <1>3 DEF PutAside
  <2> QED BY <1>1, <2>1, <2>2, <2>3 DEF Follows
<1>4. CASE p.name # None
  <2> DEFINE d == P!AppliesTools(g, p, p)
  <2>1. P!AfterModel(c, p, p) = d
    BY <1>4 DEF P!AfterModel
  <2> HIDE DEF g
  <2>2. CASE p.def.tools
    <3>1. d = [g EXCEPT !.tools = p.name, !.restricted = TRUE] /\ p.name \in P!Names
      BY <1>4, <2>2 DEF P!AppliesTools, P!Caps, IsPersona, People
    <3>2. ToolsOf(p) = p.name
      BY <1>4, <2>2 DEF ToolsOf
    <3> HIDE DEF d
    <3>3. /\ d \in Settings /\ d.restricted /\ d.model = g.model /\ (d.over <=> g.over) /\ d.kept = g.kept /\ d.tools = p.name
          /\ (d.thinkOver <=> g.thinkOver) /\ d.thought = g.thought /\ d.thinking = g.thinking
      BY <1>2, <3>1 DEF PutAside, Settings
    <3>4. PutAside(d, o)
      BY <1>2, <3>3 DEF PutAside
    <3> QED BY <1>2, <2>1, <3>2, <3>3, <3>4 DEF Follows
  <2>3. CASE ~p.def.tools
    <3>1. d = IF g.restricted THEN [g EXCEPT !.tools = "all", !.restricted = FALSE] ELSE g
      BY <1>4, <2>3 DEF P!AppliesTools, P!RestoresTools
    <3>2. ToolsOf(p) = "all"
      BY <1>4, <2>3 DEF ToolsOf
    <3> HIDE DEF d
    <3>3. /\ d \in Settings /\ ~d.restricted /\ d.model = g.model /\ (d.over <=> g.over) /\ d.kept = g.kept /\ d.tools = "all"
          /\ (d.thinkOver <=> g.thinkOver) /\ d.thought = g.thought /\ d.thinking = g.thinking
      <4>1. CASE g.restricted
        BY <1>2, <3>1, <4>1 DEF PutAside, Settings
      <4>2. CASE ~g.restricted
        BY <1>2, <3>1, <4>2 DEF PutAside, Settings
      <4> QED BY <4>1, <4>2
    <3>4. PutAside(d, o)
      BY <1>2, <3>3 DEF PutAside
    <3> QED BY <1>2, <2>1, <3>2, <3>3, <3>4 DEF Follows
  <2> QED BY <2>2, <2>3
<1> QED BY <1>3, <1>4

\* A switch with none under way, from the tools given back to the question to the host, if one is asked.
Takeoff(c, p, saves, starts) ==
  [to |-> p, asks |-> P!Asks(c, p), first |-> P!FirstOverride(c, p), saves |-> saves, starts |-> starts]

LEMMA SwitchFits ==
  ASSUME NEW c, NEW o, NEW was, PutAside(c, o), (c.over => c.kept = o.model) /\ (~c.over => c.model = o.model), o.held <=> c.over,
         NEW p, IsPersona(p), p.name = None => ~c.restricted,
         NEW saves \in BOOLEAN, NEW starts \in BOOLEAN
  PROVE  /\ P!Asks(c, p) = "none" => SettingsFit(P!AfterModel(P!BeforeModel(c, p), p, p), o, p, <<>>)
         /\ P!Asks(c, p) # "none" => SettingsFit(P!BeforeModel(c, p), o, p, <<Takeoff(c, p, saves, starts)>>)
<1> DEFINE b == P!BeforeModel(c, p)
           asked == P!Asks(c, p)
           first == P!FirstOverride(c, p)
<1>1. c \in Settings /\ o \in [model : Words, thinking : Words, held : BOOLEAN] /\ c.model # "none" /\ o.model # "none" /\ p.def.model \in Words
  BY DEF PutAside, IsPersona, People, Definitions
<1>2. /\ PutAside(b, o) /\ (b.restricted <=> c.restricted) /\ asked \in Words /\ first \in BOOLEAN
      /\ p.def.model = "none" => ~b.over /\ b.model = c.model /\ (c.over => asked = o.model) /\ (~c.over => asked = "none") /\ ~first
      /\ p.def.model = "gone" => b = c /\ asked = "none" /\ ~first
      /\ p.def.model \notin {"none", "gone"} => asked = p.def.model /\ b.over /\ b.kept = o.model /\ b.model = c.model /\ (first <=> ~c.over)
  <2>1. CASE p.def.model = "none"
    <3>1. b = [c EXCEPT !.over = FALSE, !.kept = "none"] /\ asked = (IF c.over THEN c.kept ELSE "none") /\ ~first /\ first \in BOOLEAN
      BY <2>1 DEF P!BeforeModel, P!Asks, P!FirstOverride, P!Overrides
    <3> HIDE DEF b, asked, first
    <3>2. b \in Settings /\ ~b.over /\ b.model = c.model /\ (b.restricted <=> c.restricted) /\ (b.thinkOver <=> c.thinkOver)
          /\ b.thought = c.thought /\ b.thinking = c.thinking /\ b.tools = c.tools
      BY <1>1, <3>1, NoneIsWord DEF Settings
    <3>3. PutAside(b, o)
      BY <3>2 DEF PutAside
    <3>4. asked \in Words /\ (c.over => asked = o.model) /\ (~c.over => asked = "none")
      <4>1. CASE c.over
        BY <1>1, <3>1, <4>1
      <4>2. CASE ~c.over
        BY <1>1, <3>1, <4>2, NoneIsWord
      <4> QED BY <4>1, <4>2
    <3> QED BY <2>1, <3>1, <3>2, <3>3, <3>4
  <2>2. CASE p.def.model = "gone"
    <3>1. b = c /\ asked = "none" /\ ~first /\ first \in BOOLEAN
      BY <2>2 DEF P!BeforeModel, P!Asks, P!FirstOverride, P!Overrides
    <3> HIDE DEF b, asked, first
    <3> QED BY <2>2, <3>1, NoneIsWord
  <2>3. CASE p.def.model \notin {"none", "gone"}
    <3>1. asked = p.def.model /\ (first <=> ~c.over) /\ first \in BOOLEAN
      BY <2>3 DEF P!Asks, P!FirstOverride, P!Overrides
    <3>2. b = IF c.over THEN c ELSE [c EXCEPT !.over = TRUE, !.kept = c.model]
      BY <2>3 DEF P!BeforeModel, P!FirstOverride, P!Overrides
    <3> HIDE DEF b, asked, first
    <3>3. CASE c.over
      BY <1>1, <2>3, <3>1, <3>2, <3>3
    <3>4. CASE ~c.over
      <4>1. b \in Settings /\ b.over /\ b.kept = c.model /\ b.model = c.model /\ (b.restricted <=> c.restricted) /\ (b.thinkOver <=> c.thinkOver)
            /\ b.thought = c.thought /\ b.thinking = c.thinking /\ b.tools = c.tools
        BY <1>1, <3>2, <3>4 DEF Settings
      <4>2. PutAside(b, o)
        BY <4>1 DEF PutAside
      <4> QED BY <1>1, <2>3, <3>1, <3>4, <4>1, <4>2
    <3> QED BY <3>3, <3>4
  <2> QED BY <2>1, <2>2, <2>3
<1> HIDE DEF b, asked, first
<1>3. CASE asked = "none"
  <2> DEFINE d == P!AfterModel(b, p, p)
  <2>0. p.name = None => ~b.restricted
    BY <1>2
  <2>1. Follows(b, d, o, p)
    BY <1>2, <2>0, AfterModelFits
  <2> HIDE DEF d
  <2>2. (p.def.model = "none" => ~b.over) /\ (b.over => b.kept = o.model) /\ (~b.over => b.model = o.model) /\ (o.held <=> b.over)
    <3>1. p.def.model \in {"none", "gone"}
      BY <1>2, <1>3
    <3> QED BY <1>1, <1>2, <1>3, <3>1
  <2>3. Rests(d, o, p)
    BY <2>1, <2>2 DEF Rests, Follows
  <2>4. SettingsFit(d, o, p, <<>>)
    BY <2>1, <2>3 DEF SettingsFit, Follows
  <2> QED BY <1>3, <2>4 DEF d, b, asked
<1>4. CASE asked # "none"
  <2> DEFINE f == [to |-> p, asks |-> asked, first |-> first, saves |-> saves, starts |-> starts]
  <2>1. f \in Flying /\ f.to = p /\ f.asks = asked /\ (f.first <=> first)
    BY <1>2 DEF Flying, IsPersona
  <2>2. f = Takeoff(c, p, saves, starts)
    BY DEF Takeoff, asked, first
  <2> HIDE DEF f
  <2>3. p.def.model # "gone" /\ (p.def.model = "none" => c.over)
    BY <1>2, <1>4
  <2>4. Flies(b, o, p, f)
    <3>1. CASE p.def.model = "none"
      BY <1>1, <1>2, <1>4, <2>1, <2>3, <3>1 DEF Flies, P!Overrides
    <3>2. CASE p.def.model \notin {"none", "gone"}
      BY <1>1, <1>2, <1>4, <2>1, <3>2 DEF Flies, P!Overrides
    <3> QED BY <2>3, <3>1, <3>2
  <2>5. SettingsFit(b, o, p, <<f>>)
    BY <1>2, <2>1, <2>4 DEF SettingsFit
  <2> QED BY <1>4, <2>2, <2>5 DEF b, asked
<1> QED BY <1>3, <1>4 DEF b, asked

\* The host has set the model.
LEMMA LandedFits ==
  ASSUME NEW c, NEW o, NEW p, NEW f, IsPersona(p), PutAside(c, o), Flies(c, o, p, f)
  PROVE  SettingsFit(P!AfterModel([c EXCEPT !.model = f.asks], p, p), [o EXCEPT !.held = P!Overrides(p)], p, <<>>)
<1> DEFINE b == [c EXCEPT !.model = f.asks]
           v == [o EXCEPT !.held = P!Overrides(p)]
           d == P!AfterModel(b, p, p)
<1>1. /\ b \in Settings /\ b.model = f.asks /\ (b.over <=> c.over) /\ b.kept = c.kept /\ (b.restricted <=> c.restricted)
      /\ (b.thinkOver <=> c.thinkOver) /\ b.thought = c.thought /\ b.thinking = c.thinking /\ b.tools = c.tools
  BY DEF PutAside, Settings, Flies, Flying
<1>2. /\ v \in [model : Words, thinking : Words, held : BOOLEAN] /\ v.model = o.model /\ v.thinking = o.thinking
      /\ (v.held <=> P!Overrides(p))
  BY DEF PutAside, P!Overrides
<1> HIDE DEF b, v
<1>3. PutAside(b, v)
  BY <1>1, <1>2 DEF PutAside, Flies
<1>4. Follows(b, d, v, p)
  <2>1. p.name = None => ~b.restricted
    BY <1>1 DEF Flies
  <2> QED BY <1>3, <2>1, AfterModelFits
<1> HIDE DEF d
<1>5. Rests(d, v, p)
  <2>1. CASE P!Overrides(p)
    <3>1. p.def.model # "none"
      BY <2>1 DEF P!Overrides
    <3> QED BY <1>1, <1>2, <1>4, <2>1, <3>1 DEF Rests, Follows, Flies
  <2>2. CASE ~P!Overrides(p)
    BY <1>1, <1>2, <1>4, <2>2 DEF Rests, Follows, Flies
  <2> QED BY <2>1, <2>2
<1> QED BY <1>4, <1>5 DEF SettingsFit, Follows, b, v, d

\* The host has refused it.
LEMMA RefusedFits ==
  ASSUME NEW c, NEW o, NEW p, NEW f, IsPersona(p), PutAside(c, o), Flies(c, o, p, f)
  PROVE  SettingsFit(P!AfterModel(P!Refused(c, f), p, p),
                     IF P!Overrides(p) THEN o ELSE [o EXCEPT !.model = c.model, !.held = FALSE], p, <<>>)
<1> DEFINE b == P!Refused(c, f)
           v == IF P!Overrides(p) THEN o ELSE [o EXCEPT !.model = c.model, !.held = FALSE]
           d == P!AfterModel(b, p, p)
<1>1. /\ b \in Settings /\ b.model = c.model /\ (b.over <=> c.over /\ ~f.first) /\ (b.over => b.kept = c.kept) /\ (b.restricted <=> c.restricted)
      /\ (b.thinkOver <=> c.thinkOver) /\ b.thought = c.thought /\ b.thinking = c.thinking /\ b.tools = c.tools
  <2>1. CASE f.first
    <3>1. b = [c EXCEPT !.over = FALSE, !.kept = "none"]
      BY <2>1 DEF P!Refused
    <3> HIDE DEF b
    <3> QED BY <2>1, <3>1, NoneIsWord DEF PutAside, Settings
  <2>2. CASE ~f.first
    <3>1. b = c
      BY <2>2 DEF P!Refused
    <3> HIDE DEF b
    <3> QED BY <2>2, <3>1 DEF PutAside
  <2> QED BY <2>1, <2>2
<1>2. /\ v \in [model : Words, thinking : Words, held : BOOLEAN] /\ v.thinking = o.thinking
      /\ (P!Overrides(p) => v.model = o.model /\ (v.held <=> o.held)) /\ (~P!Overrides(p) => v.model = c.model /\ ~v.held)
  <2>1. CASE P!Overrides(p)
    BY <2>1 DEF PutAside
  <2>2. CASE ~P!Overrides(p)
    BY <2>2 DEF PutAside, Settings
  <2> QED BY <2>1, <2>2
<1> HIDE DEF b, v
<1>3. PutAside(b, v)
  BY <1>1, <1>2 DEF PutAside
<1>4. Follows(b, d, v, p)
  <2>1. p.name = None => ~b.restricted
    BY <1>1 DEF Flies
  <2> QED BY <1>3, <2>1, AfterModelFits
<1> HIDE DEF d
<1>5. Rests(d, v, p)
  <2>1. CASE P!Overrides(p)
    <3>1. p.def.model # "none"
      BY <2>1 DEF P!Overrides
    <3> QED BY <1>1, <1>2, <1>4, <2>1, <3>1 DEF Rests, Follows, Flies
  <2>2. CASE ~P!Overrides(p)
    BY <1>1, <1>2, <1>4, <2>2 DEF Rests, Follows, Flies
  <2> QED BY <2>1, <2>2
<1> QED BY <1>4, <1>5 DEF SettingsFit, Follows, b, v, d

LEMMA OneLess == \A f : P!RemoveAt(<<f>>, 1) = <<>>
<1> TAKE f
<1>1. P!RemoveAt(<<f>>, 1) = SubSeq(<<f>>, 1, 0) \o SubSeq(<<f>>, 2, 1)
  BY DEF P!RemoveAt
<1> QED BY <1>1

\* The types of a session's settings are those of its scene.
LEMMA SameWords ==
  ASSUME scene' = scene
  PROVE  /\ P!Names' = P!Names /\ Words' = Words /\ Definitions' = Definitions /\ People' = People /\ Settings' = Settings /\ Flying' = Flying
BY DEF P!Names, Words, Definitions, People, Settings, Flying

LEMMA PersonaKeeps ==
  ASSUME scene' = scene, scene \in Scenes,
         /\ shelf'.files \in {scene.defs, scene.edited} /\ shelf'.loaded \in {scene.defs, scene.edited} /\ shelf'.load \in Nat
         /\ shelf' = [files |-> shelf'.files, loaded |-> shelf'.loaded, load |-> shelf'.load],
         IsPersona(active'), session' = "new" => flights' = <<>>,
         OwnerFits(owner', session', active'), ~mixed' => SettingsFit(ctl', own', active', flights')
  PROVE  PersonaFits'
<1>1. P!Names' = P!Names /\ Words' = Words /\ Definitions' = Definitions /\ People' = People /\ Settings' = Settings /\ Flying' = Flying
  BY SameWords
<1>2. IsPersona(active)'
  BY <1>1 DEF IsPersona
<1>3. OwnerFits(owner, session, active)'
  BY <1>1 DEF OwnerFits
<1>4. SettingsFit(ctl', own', active', flights') => SettingsFit(ctl, own, active, flights)'
  BY <1>1 DEF SettingsFit, PutAside, Flies
<1> QED BY <1>2, <1>3, <1>4 DEF PersonaFits

\* The definitions of a scene.
LEMMA DefinitionsAre ==
  ASSUME scene \in Scenes
  PROVE  /\ None \notin P!Names
         /\ \A defs \in {scene.defs, scene.edited} : DOMAIN defs \subseteq P!Names /\ \A n \in DOMAIN defs :
              \A k \in Nat : IsPersona([name |-> n, load |-> k, def |-> defs[n]])
         /\ IsPersona(P!Nobody)
<1>1. None \notin P!Names /\ \A defs \in {scene.defs, scene.edited} : DOMAIN defs \subseteq P!Names
  BY ScenesAreTyped DEF P!Names
<1>2. ASSUME NEW defs \in {scene.defs, scene.edited}, NEW n \in DOMAIN defs, NEW k \in Nat
      PROVE  IsPersona([name |-> n, load |-> k, def |-> defs[n]])
  <2>1. defs[n] = [model |-> defs[n].model, thinking |-> defs[n].thinking, tools |-> defs[n].tools] /\ defs[n].tools \in BOOLEAN
    BY ScenesAreTyped
  <2>2. defs[n].model \in Words /\ defs[n].thinking \in Words
    BY DEF Words
  <2>3. defs[n] \in Definitions
    BY <2>1, <2>2 DEF Definitions
  <2>4. n \in P!Names /\ n # None
    BY <1>1
  <2> QED BY <2>3, <2>4 DEF IsPersona, People
<1>3. IsPersona(P!Nobody)
  BY NoneIsWord DEF IsPersona, P!Nobody, P!Plain, People, Definitions
<1> QED BY <1>1, <1>2, <1>3

LEMMA SwitchKeeps ==
  ASSUME PersonaFits, NEW p, IsPersona(p), NEW saves \in BOOLEAN, P!Switches(p, saves, FALSE), P!Alive,
         UNCHANGED <<scene, session, own>>,
         /\ shelf'.files \in {scene.defs, scene.edited} /\ shelf'.loaded \in {scene.defs, scene.edited} /\ shelf'.load \in Nat
         /\ shelf' = [files |-> shelf'.files, loaded |-> shelf'.loaded, load |-> shelf'.load]
  PROVE  PersonaFits'
<1> DEFINE c == IF p.name = None THEN P!RestoresTools(ctl) ELSE ctl
<1>1. active' = p /\ owner' = P!Heard(owner, p) /\ mixed' = (mixed \/ flights # <<>>)
  BY DEF P!Switches
<1>2. OwnerFits(owner', session', active')
  <2>1. owner' = IF owner.bound /\ owner.ready THEN [owner EXCEPT !.heard = p.name] ELSE owner
    BY <1>1 DEF P!Heard
  <2>2. p.name \in P!Names \cup {None} /\ session' = session /\ OwnerFits(owner, session, active)
    BY DEF IsPersona, People, PersonaFits
  <2>3. CASE owner.bound /\ owner.ready
    BY <1>1, <2>1, <2>2, <2>3 DEF OwnerFits, P!Reads
  <2>4. CASE ~(owner.bound /\ owner.ready)
    BY <1>1, <2>1, <2>2, <2>4 DEF OwnerFits, P!Reads
  <2> QED BY <2>3, <2>4
<1>3. ASSUME ~mixed' PROVE SettingsFit(ctl', own', active', flights')
  <2>1. ~mixed /\ flights = <<>>
    BY <1>1, <1>3
  <2>2. PutAside(ctl, own) /\ Rests(ctl, own, active)
    BY <2>1 DEF PersonaFits, SettingsFit
  <2>3. /\ PutAside(c, own) /\ (c.over <=> ctl.over) /\ c.kept = ctl.kept /\ c.model = ctl.model /\ (p.name = None => ~c.restricted)
    <3>1. CASE p.name = None /\ ctl.restricted
      <4>1. c = [ctl EXCEPT !.tools = "all", !.restricted = FALSE]
        BY <3>1 DEF P!RestoresTools
      <4> HIDE DEF c
      <4>2. /\ c \in Settings /\ c.tools = "all" /\ ~c.restricted /\ (c.over <=> ctl.over) /\ c.kept = ctl.kept /\ c.model = ctl.model
            /\ (c.thinkOver <=> ctl.thinkOver) /\ c.thought = ctl.thought /\ c.thinking = ctl.thinking
        BY <2>2, <4>1 DEF PutAside, Settings
      <4> QED BY <2>2, <4>2 DEF PutAside
    <3>2. CASE ~(p.name = None /\ ctl.restricted)
      <4>1. c = ctl
        BY <3>2 DEF P!RestoresTools
      <4> HIDE DEF c
      <4> QED BY <2>2, <3>2, <4>1
    <3> QED BY <3>1, <3>2
  <2>4. IF P!Asks(c, p) = "none" THEN ctl' = P!AfterModel(P!BeforeModel(c, p), p, p) /\ UNCHANGED flights
                            ELSE ctl' = P!BeforeModel(c, p) /\ flights' = Append(flights, Takeoff(c, p, saves, FALSE))
    BY DEF P!Switches, Takeoff
  <2> HIDE DEF c
  <2>5. /\ P!Asks(c, p) = "none" => SettingsFit(P!AfterModel(P!BeforeModel(c, p), p, p), own, p, <<>>)
        /\ P!Asks(c, p) # "none" => SettingsFit(P!BeforeModel(c, p), own, p, <<Takeoff(c, p, saves, FALSE)>>)
    <3>1. (c.over => c.kept = own.model) /\ (~c.over => c.model = own.model) /\ (own.held <=> c.over)
      BY <2>2, <2>3 DEF Rests
    <3> QED BY <2>3, <3>1, SwitchFits
  <2>6. Append(flights, Takeoff(c, p, saves, FALSE)) = <<Takeoff(c, p, saves, FALSE)>>
    BY <2>1
  <2>7. own' = own
    OBVIOUS
  <2>8. CASE P!Asks(c, p) = "none"
    BY <1>1, <2>1, <2>4, <2>5, <2>7, <2>8
  <2>9. CASE P!Asks(c, p) # "none"
    BY <1>1, <2>4, <2>5, <2>6, <2>7, <2>9
  <2> QED BY <2>8, <2>9
<1>4. IsPersona(active') /\ session' # "new" /\ scene' = scene /\ scene \in Scenes
  BY <1>1 DEF P!Alive, PersonaFits
<1> QED BY <1>2, <1>3, <1>4, PersonaKeeps

LEMMA GestureKeeps ==
  ASSUME PersonaFits, NEW p, IsPersona(p), P!Gesture(p, TRUE)
  PROVE  PersonaFits'
BY SwitchKeeps DEF P!Gesture, PersonaFits

\* A set of numbers below a bound has a least one.
LEMMA SmallestOf ==
  ASSUME NEW n \in Nat, NEW E \in SUBSET (1..n), E # {}
  PROVE  \E x \in E : \A y \in E : x <= y
<1>1. IsWellFoundedOn(OpToRel(<, Nat), Nat)
  BY NatLessThanWellFounded
<1>2. \A x, y \in Nat : y < x => <<y, x>> \in OpToRel(<, Nat)
  BY DEF OpToRel
<1> DEFINE Less == OpToRel(<, Nat)
<1> HIDE DEF Less
<1>3. E \subseteq Nat
  OBVIOUS
<1>4. PICK x \in E : \A y \in E : <<y, x>> \notin Less
  BY <1>1, <1>3, WFMin DEF Less
<1>5. \A a, b \in Nat : b < a => <<b, a>> \in Less
  BY <1>2 DEF Less
<1>6. ASSUME NEW y \in E PROVE x <= y
  <2>1. x \in Nat /\ y \in Nat /\ ~(y < x)
    BY <1>3, <1>4, <1>5
  <2> QED BY <2>1
<1> QED BY <1>6

LEMMA CyclesKeeps == ASSUME PersonaFits, P!Cycles PROVE PersonaFits'
<1> DEFINE here == {i \in DOMAIN scene.cycle : scene.cycle[i] = active.name}
           rest == {i \in DOMAIN scene.cycle : scene.cycle[i] \in P!Loaded /\ \A j \in here : j < i}
           first == CHOOSE i \in rest : \A j \in rest : i <= j
<1>1. P!Gesture(IF rest = {} THEN P!Nobody ELSE P!Persona(scene.cycle[first]), TRUE)
  BY DEF P!Cycles
<1>2. scene \in Scenes /\ shelf.loaded \in {scene.defs, scene.edited} /\ shelf.load \in Nat
  BY DEF PersonaFits
<1>3. CASE rest = {}
  BY <1>1, <1>2, <1>3, DefinitionsAre, GestureKeeps
<1>4. CASE rest # {}
  <2>1. Len(scene.cycle) \in Nat /\ DOMAIN scene.cycle = 1..Len(scene.cycle)
    BY <1>2, ScenesAreTyped
  <2>2. rest \in SUBSET (1..Len(scene.cycle))
    BY <2>1
  <2> HIDE DEF rest
  <2>3. \E i \in rest : \A j \in rest : i <= j
    BY <1>4, <2>1, <2>2, SmallestOf
  <2>4. first \in rest
    BY <2>3
  <2>5. scene.cycle[first] \in DOMAIN shelf.loaded
    BY <2>4 DEF rest, P!Loaded
  <2> HIDE DEF first
  <2>6. IsPersona(P!Persona(scene.cycle[first]))
    BY <1>2, <2>5, DefinitionsAre DEF P!Persona
  <2> QED BY <1>1, <1>4, <2>6, GestureKeeps
<1> QED BY <1>3, <1>4

LEMMA ReloadsKeeps == ASSUME PersonaFits, P!Reloads PROVE PersonaFits'
<1>1. /\ shelf' = [files |-> scene.edited, loaded |-> scene.edited, load |-> shelf.load + 1] /\ UNCHANGED <<scene, session, own>> /\ P!Alive
  BY DEF P!Reloads
<1>2. /\ shelf'.files \in {scene.defs, scene.edited} /\ shelf'.loaded \in {scene.defs, scene.edited} /\ shelf'.load \in Nat
      /\ shelf' = [files |-> shelf'.files, loaded |-> shelf'.loaded, load |-> shelf'.load] /\ scene \in Scenes /\ shelf.load + 1 \in Nat
  BY <1>1 DEF PersonaFits
<1>3. CASE active.name = None
  <2>1. UNCHANGED <<active, ctl, flights, owner, mixed>>
    BY <1>3 DEF P!Reloads
  <2> QED BY <1>1, <1>2, <2>1, PersonaKeeps DEF PersonaFits
<1>4. CASE active.name # None
  <2> DEFINE p == IF active.name \in DOMAIN scene.edited
                    THEN [name |-> active.name, load |-> shelf.load + 1, def |-> scene.edited[active.name]] ELSE P!Nobody
  <2>1. P!Switches(p, FALSE, FALSE)
    BY <1>4 DEF P!Reloads
  <2>2. IsPersona(p)
    BY <1>2, DefinitionsAre
  <2> HIDE DEF p
  <2> QED BY <1>1, <1>2, <2>1, <2>2, SwitchKeeps
<1> QED BY <1>3, <1>4

LEMMA BeginsKeeps == ASSUME PersonaFits, P!Begins PROVE PersonaFits'
<1>1. /\ session = "new" /\ session' = "starting" /\ shelf' = [shelf EXCEPT !.loaded = shelf.files, !.load = 1]
      /\ owner' = [owner EXCEPT !.bound = TRUE, !.pending = TRUE] /\ UNCHANGED <<scene, own, mixed>> /\ flights = <<>> /\ scene \in Scenes
  BY DEF P!Begins, PersonaFits
<1>2. /\ shelf'.files \in {scene.defs, scene.edited} /\ shelf'.loaded \in {scene.defs, scene.edited} /\ shelf'.load \in Nat
      /\ shelf' = [files |-> shelf'.files, loaded |-> shelf'.loaded, load |-> shelf'.load]
  <2>1. shelf' = [files |-> shelf.files, loaded |-> shelf.files, load |-> 1]
    BY <1>1 DEF PersonaFits
  <2> QED BY <2>1 DEF PersonaFits
<1>3. ASSUME NEW p PROVE OwnerFits(owner', session', p)
  BY <1>1 DEF PersonaFits, OwnerFits, P!Reads
<1>4. CASE remembered \in DOMAIN shelf.files
  <2> DEFINE p == [name |-> remembered, load |-> 1, def |-> shelf.files[remembered]]
  <2>1. /\ active' = p
        /\ IF P!Asks(ctl, p) = "none" THEN ctl' = P!AfterModel(P!BeforeModel(ctl, p), p, p) /\ UNCHANGED flights
                                  ELSE ctl' = P!BeforeModel(ctl, p) /\ flights' = <<Takeoff(ctl, p, FALSE, TRUE)>>
    BY <1>4 DEF P!Begins, Takeoff
  <2>2. IsPersona(p) /\ p.name # None
    <3>1. shelf.files \in {scene.defs, scene.edited}
      BY DEF PersonaFits
    <3> QED BY <1>1, <1>4, <3>1, DefinitionsAre
  <2> HIDE DEF p
  <2>3. ASSUME ~mixed PROVE SettingsFit(ctl', own', active', flights')
    <3>1. PutAside(ctl, own) /\ Rests(ctl, own, active)
      BY <1>1, <2>3 DEF PersonaFits, SettingsFit
    <3>2. (ctl.over => ctl.kept = own.model) /\ (~ctl.over => ctl.model = own.model) /\ (own.held <=> ctl.over)
      BY <3>1 DEF Rests
    <3>3. /\ P!Asks(ctl, p) = "none" => SettingsFit(P!AfterModel(P!BeforeModel(ctl, p), p, p), own, p, <<>>)
          /\ P!Asks(ctl, p) # "none" => SettingsFit(P!BeforeModel(ctl, p), own, p, <<Takeoff(ctl, p, FALSE, TRUE)>>)
      BY <2>2, <3>1, <3>2, SwitchFits
    <3>4. own' = own /\ flights = <<>>
      BY <1>1
    <3>5. CASE P!Asks(ctl, p) = "none"
      BY <2>1, <3>3, <3>4, <3>5
    <3>6. CASE P!Asks(ctl, p) # "none"
      BY <2>1, <3>3, <3>4, <3>6
    <3> QED BY <3>5, <3>6
  <2> QED BY <1>1, <1>2, <1>3, <2>1, <2>2, <2>3, PersonaKeeps
<1>5. CASE remembered \notin DOMAIN shelf.files
  <2>1. UNCHANGED <<active, ctl, flights>>
    BY <1>5 DEF P!Begins
  <2> QED BY <1>1, <1>2, <1>3, <2>1, PersonaKeeps DEF PersonaFits
<1> QED BY <1>4, <1>5

LEMMA LandsKeeps == ASSUME PersonaFits, NEW i \in DOMAIN flights, P!Lands(i) PROVE PersonaFits'
<1>1. UNCHANGED <<scene, shelf, session, active, owner, mixed>> /\ flights' = P!RemoveAt(flights, i)
  BY DEF P!Lands
<1>2. session' # "new"
  BY <1>1 DEF PersonaFits
<1>3. ASSUME ~mixed' PROVE SettingsFit(ctl', own', active', flights')
  <2>1. PutAside(ctl, own) /\ IsPersona(active) /\ ~mixed
    BY <1>1, <1>3 DEF PersonaFits, SettingsFit
  <2>2. PICK f \in Flying : flights = <<f>> /\ Flies(ctl, own, active, f)
    BY <2>1 DEF PersonaFits, SettingsFit
  <2>3. i = 1 /\ flights[i] = f /\ f.to = active /\ active' = active
    BY <1>1, <2>2 DEF Flies
  <2>4. flights' = <<>>
    BY <1>1, <2>2, <2>3, OneLess
  <2>5. \/ /\ ctl' = P!AfterModel([ctl EXCEPT !.model = f.asks], active, active)
           /\ own' = [own EXCEPT !.held = P!Overrides(active)]
        \/ /\ ctl' = P!AfterModel(P!Refused(ctl, f), active, active)
           /\ own' = IF P!Overrides(active) THEN own ELSE [own EXCEPT !.model = ctl.model, !.held = FALSE]
    BY <2>3 DEF P!Lands
  <2>6. SettingsFit(ctl', own', active, <<>>)
    <3>1. SettingsFit(P!AfterModel([ctl EXCEPT !.model = f.asks], active, active), [own EXCEPT !.held = P!Overrides(active)], active, <<>>)
      BY <2>1, <2>2, LandedFits
    <3>2. SettingsFit(P!AfterModel(P!Refused(ctl, f), active, active),
                      IF P!Overrides(active) THEN own ELSE [own EXCEPT !.model = ctl.model, !.held = FALSE], active, <<>>)
      BY <2>1, <2>2, RefusedFits
    <3> QED BY <2>5, <3>1, <3>2
  <2> QED BY <2>3, <2>4, <2>6
<1> QED BY <1>1, <1>2, <1>3, PersonaKeeps DEF PersonaFits

LEMMA ChoosesKeeps == ASSUME PersonaFits, P!Chooses PROVE PersonaFits'
<1>1. UNCHANGED <<scene, shelf, session, active, flights, owner, mixed>> /\ flights = <<>>
  BY DEF P!Chooses
<1>2. ASSUME ~mixed PROVE SettingsFit(ctl', own', active, <<>>)
  <2>1. PutAside(ctl, own) /\ Rests(ctl, own, active)
    BY <1>1, <1>2 DEF PersonaFits, SettingsFit
  <2>2. CASE ctl' = [ctl EXCEPT !.model = "new"] /\ own' = IF own.held THEN own ELSE [own EXCEPT !.model = "new"]
    <3>1. /\ ctl' \in Settings /\ ctl'.model = "new" /\ (ctl'.over <=> ctl.over) /\ ctl'.kept = ctl.kept /\ (ctl'.restricted <=> ctl.restricted)
          /\ (ctl'.thinkOver <=> ctl.thinkOver) /\ ctl'.thought = ctl.thought /\ ctl'.thinking = ctl.thinking /\ ctl'.tools = ctl.tools
      BY <2>1, <2>2, NoneIsWord DEF PutAside, Settings
    <3>2. /\ own' \in [model : Words, thinking : Words, held : BOOLEAN] /\ own'.thinking = own.thinking /\ (own'.held <=> own.held)
          /\ (own.held => own'.model = own.model) /\ (~own.held => own'.model = "new")
      <4>1. CASE own.held
        BY <2>1, <2>2, <4>1 DEF PutAside
      <4>2. CASE ~own.held
        BY <2>1, <2>2, <4>2, NoneIsWord DEF PutAside
      <4> QED BY <4>1, <4>2
    <3>3. PutAside(ctl', own')
      BY <2>1, <3>1, <3>2 DEF PutAside
    <3>4. Rests(ctl', own', active)
      BY <2>1, <3>1, <3>2 DEF Rests
    <3> QED BY <3>3, <3>4 DEF SettingsFit
  <2>3. CASE ctl' = [ctl EXCEPT !.thinking = "new"] /\ own' = IF ctl.thinkOver THEN own ELSE [own EXCEPT !.thinking = "new"]
    <3>1. /\ ctl' \in Settings /\ ctl'.model = ctl.model /\ (ctl'.over <=> ctl.over) /\ ctl'.kept = ctl.kept /\ (ctl'.restricted <=> ctl.restricted)
          /\ (ctl'.thinkOver <=> ctl.thinkOver) /\ ctl'.thought = ctl.thought /\ ctl'.thinking = "new" /\ ctl'.tools = ctl.tools
      BY <2>1, <2>3, NoneIsWord DEF PutAside, Settings
    <3>2. /\ own' \in [model : Words, thinking : Words, held : BOOLEAN] /\ own'.model = own.model /\ (own'.held <=> own.held)
          /\ (ctl.thinkOver => own'.thinking = own.thinking) /\ (~ctl.thinkOver => own'.thinking = "new")
      <4>1. CASE ctl.thinkOver
        BY <2>1, <2>3, <4>1 DEF PutAside
      <4>2. CASE ~ctl.thinkOver
        BY <2>1, <2>3, <4>2, NoneIsWord DEF PutAside
      <4> QED BY <4>1, <4>2
    <3>3. PutAside(ctl', own')
      BY <2>1, <3>1, <3>2 DEF PutAside
    <3>4. Rests(ctl', own', active)
      BY <2>1, <3>1, <3>2 DEF Rests
    <3> QED BY <3>3, <3>4 DEF SettingsFit
  <2> QED BY <2>2, <2>3 DEF P!Chooses
<1> QED BY <1>1, <1>2, PersonaKeeps DEF PersonaFits

LEMMA OwnerKeeps == ASSUME PersonaFits, P!Readies \/ P!ShutsDown PROVE PersonaFits'
<1>1. UNCHANGED <<scene, shelf, active, ctl, flights, own, mixed>>
  BY DEF P!Readies, P!ShutsDown
<1>2. OwnerFits(owner', session', active) /\ session' # "new"
  <2>1. OwnerFits(owner, session, active) /\ active.name \in P!Names \cup {None}
    BY DEF PersonaFits, IsPersona, People
  <2>2. CASE P!Readies
    <3>1. session' = IF session = "starting" THEN "up" ELSE session
      BY <2>2 DEF P!Readies
    <3>2. owner' = IF owner.bound THEN [bound |-> TRUE, pending |-> FALSE, ready |-> TRUE, heard |-> active.name]
                                  ELSE [owner EXCEPT !.pending = FALSE]
      BY <2>2 DEF P!Readies, P!SameBinding
    <3>3. session # "new"
      BY <2>2, <2>1 DEF P!Readies, OwnerFits
    <3>4. CASE owner.bound
      BY <2>1, <3>1, <3>2, <3>3, <3>4 DEF OwnerFits, P!Reads
    <3>5. CASE ~owner.bound
      BY <2>1, <3>1, <3>2, <3>3, <3>5 DEF OwnerFits, P!Reads
    <3> QED BY <3>3, <3>4, <3>5, <3>1
  <2>3. CASE P!ShutsDown
    <3>1. session' = "down" /\ owner' = [owner EXCEPT !.bound = FALSE, !.ready = FALSE, !.heard = "not ready"]
      BY <2>3 DEF P!ShutsDown
    <3> QED BY <2>1, <3>1 DEF OwnerFits, P!Reads
  <2> QED BY <2>2, <2>3
<1> QED BY <1>1, <1>2, PersonaKeeps DEF PersonaFits

---------------------------------------------------------------------------
(* The models of the participants *)

Cells == P!Names \X Keys
Pick ==
  [at : {"idle", "queued", "asking", "over"}, for : People, left : SUBSET Nat,
   chosen : SUBSET [key : Keys, under : P!Names], added : SUBSET Cells, stopped : BOOLEAN]

\* The setups that wait for the operator in one line.
Waiting(all) == {r \in DOMAIN all : P!Kind(r) = "auto" /\ all[r].at \in {"queued", "asking"}}

\* Where a setup is, and what it has asked about: the first in the line asks, about what nobody has.
PickFits(r, p, line, asked) ==
  /\ p \in Pick /\ p.left \subseteq P!Questions(r)
  /\ p.at = "idle" => p.for.name = None
  /\ p.at # "idle" => p.for.name \in P!Names
  /\ p.at = "asking" => p.left # {}
  /\ \A c \in p.chosen : c.under = p.for.name
  /\ P!Kind(r) = "auto" /\ p.at = "queued" => p.added = {}
  /\ P!Kind(r) = "auto" /\ p.at = "asking" =>
       /\ line[1] = r
       /\ \A c \in p.added : asked[c] = 1
       /\ \A i \in P!Rest(p.left) : asked[<<p.for.name, P!Asked(r)[i]>>] = 0

\* Who is asked about, and how often.
CountFits(asked, said, all) ==
  /\ asked \in [Cells -> {0, 1}] /\ said \subseteq Cells
  /\ \A c \in Cells : asked[c] = 1 => c \in said
  /\ \A c \in said : asked[c] = 1 \/ \E r \in DOMAIN all : P!Kind(r) = "edit" /\ all[r].for.name = c[1]

PicksFit ==
  /\ DOMAIN picks = DOMAIN scene.setups
  /\ \A r \in DOMAIN picks : PickFits(r, picks[r], queue, asks)
  /\ IsLine(queue, Waiting(picks))
  /\ CountFits(asks, prompted, picks)
  /\ \A x \in filed : x.for = x.under /\ x.alive

LEMMA PicksKeep ==
  ASSUME scene' = scene, DOMAIN picks' = DOMAIN scene.setups,
         \A r \in DOMAIN scene.setups : PickFits(r, picks'[r], queue', asks'),
         IsLine(queue', Waiting(picks')), CountFits(asks', prompted', picks'),
         \A x \in filed' : x.for = x.under /\ x.alive
  PROVE  PicksFit'
<1>1. P!Names' = P!Names /\ Cells' = Cells /\ People' = People /\ Pick' = Pick
  BY SameWords DEF Cells, Pick
<1>2. \A r : P!Kind(r)' = P!Kind(r) /\ P!Asked(r)' = P!Asked(r) /\ P!Questions(r)' = P!Questions(r)
  BY DEF P!Kind, P!Asked, P!Questions
<1>3. \A r \in DOMAIN picks' : PickFits(r, picks[r], queue, asks)'
  BY <1>1, <1>2 DEF PickFits
<1>4. Waiting(picks)' = Waiting(picks')
  BY <1>2 DEF Waiting
<1>5. IsLine(queue, Waiting(picks))'
  BY <1>4 DEF IsLine
<1>6. CountFits(asks, prompted, picks)'
  BY <1>1, <1>2 DEF CountFits
<1> QED BY <1>3, <1>5, <1>6 DEF PicksFit

\* The participants of a setup, and the first of those that are left.
LEMMA AskedAre ==
  ASSUME scene \in Scenes, NEW r \in DOMAIN scene.setups
  PROVE  /\ P!Kind(r) \in {"auto", "edit", "draft"}
         /\ P!Questions(r) \subseteq Nat /\ \A i \in P!Questions(r) : P!Asked(r)[i] \in Keys
         /\ \A i, j \in P!Questions(r) : P!Asked(r)[i] = P!Asked(r)[j] => i = j
         /\ \A E : E \subseteq P!Questions(r) /\ E # {} => P!First(E) \in E /\ P!Rest(E) \subseteq E /\ P!First(E) \notin P!Rest(E)
<1> DEFINE keys == scene.setups[r].keys
<1>1. /\ scene.setups[r].kind \in {"auto", "edit", "draft"} /\ Len(keys) \in Nat /\ DOMAIN keys = 1..Len(keys)
      /\ \A i, j \in DOMAIN keys : keys[i] \in Keys /\ (keys[i] = keys[j] => i = j)
  BY ScenesAreTyped
<1>2. P!Questions(r) = 1..Len(keys) /\ P!Asked(r) = keys
  BY <1>1 DEF P!Questions, P!Asked
<1>3. ASSUME NEW E, E \subseteq P!Questions(r), E # {}
      PROVE  P!First(E) \in E /\ P!Rest(E) \subseteq E /\ P!First(E) \notin P!Rest(E)
  <2>1. \E i \in E : \A j \in E : i <= j
    BY <1>1, <1>2, <1>3, SmallestOf
  <2>2. P!First(E) \in E
    BY <2>1 DEF P!First
  <2> QED BY <2>2 DEF P!Rest
<1>4. P!Kind(r) \in {"auto", "edit", "draft"}
  BY <1>1 DEF P!Kind
<1>5. P!Questions(r) \subseteq Nat
  BY <1>1, <1>2
<1> HIDE DEF keys
<1> QED BY <1>1, <1>2, <1>3, <1>4, <1>5

\* What a sequence is without one of its elements.
LEMMA RemovedOne ==
  ASSUME NEW W, NEW q \in Seq(W), NEW k \in 1..Len(q)
  PROVE  P!RemoveAt(q, k) = [i \in 1..(Len(q) - 1) |-> IF i < k THEN q[i] ELSE q[i + 1]]
<1> DEFINE a == SubSeq(q, 1, k - 1)
           b == SubSeq(q, k + 1, Len(q))
<1>1. Len(q) \in Nat /\ k \in Int /\ 1 <= k /\ k <= Len(q) /\ \A i \in 1..Len(q) : q[i] \in W
  OBVIOUS
<1>2. a \in Seq(W) /\ Len(a) = k - 1 /\ \A i \in 1..(k - 1) : a[i] = q[i]
  <2>1. \A i \in 1..(k - 1) : q[i] \in W
    BY <1>1
  <2>2. a \in Seq(W) /\ Len(a) = (IF 1 <= k - 1 THEN (k - 1) - 1 + 1 ELSE 0) /\ \A i \in 1..((k - 1) - 1 + 1) : a[i] = q[1 + i - 1]
    BY <1>1, <2>1, SubSeqProperties
  <2> HIDE DEF a
  <2> QED BY <1>1, <2>2
<1>3. b \in Seq(W) /\ Len(b) = Len(q) - k /\ \A i \in 1..(Len(q) - k) : b[i] = q[k + i]
  <2>1. \A i \in (k + 1)..Len(q) : q[i] \in W
    BY <1>1
  <2>2. b \in Seq(W) /\ Len(b) = (IF k + 1 <= Len(q) THEN Len(q) - (k + 1) + 1 ELSE 0) /\ \A i \in 1..(Len(q) - (k + 1) + 1) : b[i] = q[(k + 1) + i - 1]
    BY <1>1, <2>1, SubSeqProperties
  <2> HIDE DEF b
  <2> QED BY <1>1, <2>2
<1>4. P!RemoveAt(q, k) = a \o b
  BY DEF P!RemoveAt
<1> HIDE DEF a, b
<1>5. /\ a \o b \in Seq(W) /\ Len(a \o b) = Len(q) - 1
      /\ \A i \in 1..(Len(q) - 1) : (a \o b)[i] = IF i < k THEN q[i] ELSE q[i + 1]
  <2>1. /\ a \o b \in Seq(W) /\ Len(a \o b) = Len(a) + Len(b)
        /\ \A i \in 1..(Len(a) + Len(b)) : (a \o b)[i] = IF i <= Len(a) THEN a[i] ELSE b[i - Len(a)]
    BY <1>2, <1>3, ConcatProperties
  <2> QED BY <1>1, <1>2, <1>3, <2>1
<1>6. a \o b = [i \in 1..(Len(q) - 1) |-> IF i < k THEN q[i] ELSE q[i + 1]]
  <2> DEFINE s == a \o b
  <2>1. s \in Seq(W) /\ Len(s) = Len(q) - 1 /\ \A i \in 1..(Len(q) - 1) : s[i] = IF i < k THEN q[i] ELSE q[i + 1]
    BY <1>5
  <2> HIDE DEF s
  <2>2. s = [i \in 1..Len(s) |-> s[i]]
    BY <2>1
  <2> QED BY <2>1, <2>2 DEF s
<1> QED BY <1>4, <1>6

\* A setup leaves the line where it stands.
LEMMA LeavesLine ==
  ASSUME NEW W, IsLine(queue, W), NEW r, P!Leaves(r)
  PROVE  IsLine(queue', W \ {r}) /\ (queue[1] # r /\ W # {} => queue'[1] = queue[1])
<1> DEFINE place == {i \in DOMAIN queue : queue[i] = r}
           k == CHOOSE i \in place : TRUE
<1>1. queue \in Seq(W) /\ Len(queue) \in Nat /\ DOMAIN queue = 1..Len(queue) /\ \A i \in 1..Len(queue) : queue[i] \in W
  BY DEF IsLine
<1>2. queue' = IF place = {} THEN queue ELSE P!RemoveAt(queue, k)
  BY DEF P!Leaves
<1>3. CASE r \notin W
  <2>1. place = {} /\ W \ {r} = W
    BY <1>1, <1>3
  <2> QED BY <1>2, <2>1
<1>4. CASE r \in W
  <2>1. PICK n \in 1..Len(queue) : queue[n] = r
    BY <1>4 DEF IsLine
  <2>2. place = {n}
    BY <1>1, <2>1 DEF IsLine
  <2>3. k = n
    BY <2>2
  <2> DEFINE s == [free |-> 0, line |-> queue]
  <2>4. (CHOOSE i \in DOMAIN queue : queue[i] = r) = n
    BY <1>1, <2>1 DEF IsLine
  <2>5. queue' = [i \in 1..(Len(queue) - 1) |-> IF i < n THEN queue[i] ELSE queue[i + 1]]
    <3> HIDE DEF k, place
    <3>1. queue' = P!RemoveAt(queue, n)
      BY <1>2, <2>2, <2>3
    <3> QED BY <1>1, <3>1, RemovedOne
  <2>6. D!Without(s, r).line = queue'
    BY <2>4, <2>5 DEF D!Without
  <2>7. s.line = queue /\ s = [free |-> s.free, line |-> s.line]
    OBVIOUS
  <2> HIDE DEF s
  <2>8. IsLine(queue', W \ {r})
    BY <1>4, <2>6, <2>7, LineWithout
  <2>9. ASSUME queue[1] # r PROVE queue'[1] = queue[1]
    <3>1. n # 1 /\ 1 \in 1..(Len(queue) - 1) /\ 1 < n
      BY <1>1, <2>1, <2>9
    <3> QED BY <2>5, <3>1
  <2> QED BY <2>8, <2>9
<1> QED BY <1>3, <1>4

\* One setup moves.
LEMMA MovesFit ==
  ASSUME PersonaFits, PicksFit, scene' = scene, NEW r \in DOMAIN picks, NEW p, picks' = [picks EXCEPT ![r] = p],
         picks[r].at = "idle" \/ p.for = picks[r].for, PickFits(r, p, queue', asks'),
         \A x \in DOMAIN picks : x # r => PickFits(x, picks[x], queue', asks'),
         IsLine(queue', IF P!Kind(r) = "auto" /\ p.at \in {"queued", "asking"} THEN Waiting(picks) \cup {r} ELSE Waiting(picks) \ {r}),
         asks' \in [Cells -> {0, 1}], prompted' \subseteq Cells, \A c \in Cells : asks'[c] = 1 => c \in prompted',
         \A c \in prompted' : \/ asks'[c] = 1 \/ (c \in prompted /\ asks[c] # 1)
                              \/ P!Kind(r) = "edit" /\ p.for.name = c[1],
         \A x \in filed' : x.for = x.under /\ x.alive
  PROVE  PicksFit'
<1>1. /\ DOMAIN picks' = DOMAIN picks /\ picks'[r] = p /\ \A x \in DOMAIN picks : x # r => picks'[x] = picks[x]
      /\ DOMAIN picks = DOMAIN scene.setups /\ \A x \in DOMAIN picks : PickFits(x, picks[x], queue, asks)
      /\ CountFits(asks, prompted, picks)
  BY DEF PicksFit
<1>2. \A x \in DOMAIN scene.setups : PickFits(x, picks'[x], queue', asks')
  BY <1>1
<1>3. Waiting(picks') = IF P!Kind(r) = "auto" /\ p.at \in {"queued", "asking"} THEN Waiting(picks) \cup {r} ELSE Waiting(picks) \ {r}
  BY <1>1 DEF Waiting
<1>4. ASSUME NEW c \in prompted'
      PROVE  asks'[c] = 1 \/ \E x \in DOMAIN picks' : P!Kind(x) = "edit" /\ picks'[x].for.name = c[1]
  <2>1. CASE c \in prompted /\ asks[c] # 1
    <3>1. PICK x \in DOMAIN picks : P!Kind(x) = "edit" /\ picks[x].for.name = c[1]
      BY <1>1, <2>1 DEF CountFits
    <3>2. c[1] # None
      <4>1. c \in Cells /\ None \notin P!Names
        BY ScenesAreTyped DEF PersonaFits, P!Names
      <4>2. c[1] \in P!Names
        BY <4>1 DEF Cells
      <4> QED BY <4>1, <4>2
    <3>3. picks[x].at # "idle"
      BY <1>1, <3>1, <3>2 DEF PickFits
    <3>4. picks'[x].for = picks[x].for
      BY <1>1, <3>3
    <3> QED BY <1>1, <3>1, <3>4
  <2>2. CASE P!Kind(r) = "edit" /\ p.for.name = c[1]
    BY <1>1, <2>2
  <2> QED BY <2>1, <2>2
<1>5. CountFits(asks', prompted', picks')
  BY <1>4 DEF CountFits
<1>6. IsLine(queue', Waiting(picks'))
  BY <1>3
<1> QED BY <1>1, <1>2, <1>5, <1>6, PicksKeep

\* Nobody but the first in the line asks.
LEMMA OneAsks ==
  ASSUME PicksFit, NEW x \in DOMAIN picks
  PROVE  /\ P!Kind(x) # "auto" \/ picks[x].at # "asking" \/ queue[1] # x => \A line, asked : PickFits(x, picks[x], line, asked)
         /\ \A line : line[1] = queue[1] => PickFits(x, picks[x], line, asks)
         /\ P!Kind(x) = "auto" /\ picks[x].at = "asking" => x \in Waiting(picks)
<1>1. PickFits(x, picks[x], queue, asks)
  BY DEF PicksFit
<1> QED BY <1>1 DEF PickFits, Waiting

\* A setup that is launched.
Started(who, left_, at_) == [at |-> at_, for |-> who, left |-> left_, chosen |-> {}, added |-> {}, stopped |-> FALSE]

LEMMA SetsFits ==
  ASSUME PersonaFits, NEW r \in DOMAIN scene.setups, NEW who \in People, NEW left_ \in SUBSET P!Questions(r), NEW at_,
         who.name # None, left_ # {}, at_ = "queued" \/ (at_ = "asking" /\ P!Kind(r) # "auto")
  PROVE  LET p == Started(who, left_, at_) IN
         p = [P!Idle EXCEPT !.for = who, !.left = left_, !.at = at_] /\ p.at = at_ /\ p.for = who /\ \A line, asked : PickFits(r, p, line, asked)
<1> DEFINE p == Started(who, left_, at_)
<1>1. p = [at |-> at_, for |-> who, left |-> left_, chosen |-> {}, added |-> {}, stopped |-> FALSE]
  BY DEF Started
<1>8. p = [P!Idle EXCEPT !.for = who, !.left = left_, !.at = at_]
  <2> DEFINE i == P!Idle
             j == [i EXCEPT !.for = who, !.left = left_, !.at = at_]
  <2>1. DOMAIN i = {"at", "for", "left", "chosen", "added", "stopped"} /\ i.chosen = {} /\ i.added = {} /\ i.stopped = FALSE
    BY DEF P!Idle
  <2> HIDE DEF i
  <2>2. /\ DOMAIN j = {"at", "for", "left", "chosen", "added", "stopped"}
        /\ j.at = at_ /\ j.for = who /\ j.left = left_ /\ j.chosen = {} /\ j.added = {} /\ j.stopped = FALSE
    BY <2>1
  <2>3. j = [k \in DOMAIN j |-> j[k]]
    OBVIOUS
  <2> HIDE DEF j
  <2>4. j = [at |-> at_, for |-> who, left |-> left_, chosen |-> {}, added |-> {}, stopped |-> FALSE]
    BY <2>2, <2>3
  <2> QED BY <1>1, <2>4 DEF i, j
<1> HIDE DEF p
<1>2. left_ \subseteq Nat
  BY AskedAre DEF PersonaFits
<1>3. who.name \in P!Names
  BY DEF People
<1>4. {} \in SUBSET [key : Keys, under : P!Names] /\ {} \in SUBSET Cells
  OBVIOUS
<1>5. p \in Pick
  BY <1>1, <1>2, <1>4 DEF Pick
<1>6. p.at = at_ /\ p.for = who /\ p.left = left_ /\ p.chosen = {} /\ p.added = {}
  BY <1>1
<1>7. ASSUME NEW line, NEW asked PROVE PickFits(r, p, line, asked)
  BY <1>3, <1>5, <1>6 DEF PickFits
<1> QED BY <1>6, <1>7, <1>8 DEF p

LEMMA LaunchesFits == ASSUME PersonaFits, PicksFit, scene' = scene, NEW r \in DOMAIN picks, P!Launches(r) PROVE PicksFit'
<1> DEFINE left_ == P!Missing(active.name, r, P!Questions(r))
           p == Started(active, left_, "queued")
<1>1. /\ P!Kind(r) = "auto" /\ picks[r].at = "idle" /\ active.name # None /\ left_ # {}
      /\ picks' = [picks EXCEPT ![r] = [P!Idle EXCEPT !.for = active, !.left = left_, !.at = "queued"]]
      /\ queue' = Append(queue, r) /\ UNCHANGED <<prompted, asks, filed>>
  BY DEF P!Launches, P!Sets
<1>2. left_ \in SUBSET P!Questions(r) /\ active \in People /\ r \in DOMAIN scene.setups
  BY DEF P!Missing, PersonaFits, IsPersona, PicksFit
<1> HIDE DEF left_
<1>3. p = [P!Idle EXCEPT !.for = active, !.left = left_, !.at = "queued"] /\ p.at = "queued" /\ p.for = active /\ \A line, asked : PickFits(r, p, line, asked)
  BY <1>1, <1>2, SetsFits
<1> HIDE DEF p
<1>4. r \notin Waiting(picks) /\ IsLine(queue, Waiting(picks))
  BY <1>1 DEF Waiting, PicksFit
<1>5. IsLine(queue', Waiting(picks) \cup {r})
  BY <1>1, <1>4, LineGrows
<1>6. ASSUME NEW x \in DOMAIN picks, x # r PROVE PickFits(x, picks[x], queue', asks')
  <2>1. CASE P!Kind(x) = "auto" /\ picks[x].at = "asking" /\ queue[1] = x
    <3>1. x \in Waiting(picks)
      BY <2>1 DEF Waiting
    <3>2. queue'[1] = queue[1]
      <4>1. queue \in Seq(Waiting(picks)) /\ Len(queue) \in Nat /\ \E i \in 1..Len(queue) : queue[i] = x
        BY <1>4, <3>1 DEF IsLine
      <4>2. 1 \in 1..Len(queue)
        BY <4>1
      <4> QED BY <1>1, <4>1, <4>2
    <3> QED BY <1>1, <3>2, OneAsks
  <2>2. CASE ~(P!Kind(x) = "auto" /\ picks[x].at = "asking" /\ queue[1] = x)
    BY <2>2, OneAsks
  <2> QED BY <2>1, <2>2
<1>7. picks' = [picks EXCEPT ![r] = p]
  BY <1>1, <1>3
<1> QED BY <1>1, <1>3, <1>5, <1>6, <1>7, MovesFit DEF PicksFit, CountFits

LEMMA SetsApart ==
  ASSUME PersonaFits, PicksFit, scene' = scene, NEW r \in DOMAIN picks, P!Kind(r) # "auto",
         NEW who \in People, P!Sets(r, who, P!Questions(r), "asking"), queue' = queue,
         prompted' \subseteq Cells, prompted \subseteq prompted',
         \A c \in prompted' \ prompted : P!Kind(r) = "edit" /\ who.name = c[1]
  PROVE  PicksFit'
<1> DEFINE p == Started(who, P!Questions(r), "asking")
<1>1. picks[r].at = "idle" /\ who.name # None /\ P!Questions(r) # {}
      /\ picks' = [picks EXCEPT ![r] = [P!Idle EXCEPT !.for = who, !.left = P!Questions(r), !.at = "asking"]] /\ UNCHANGED <<asks, filed>>
  BY DEF P!Sets
<1>2. r \in DOMAIN scene.setups
  BY DEF PicksFit
<1>0. P!Questions(r) \in SUBSET P!Questions(r)
  OBVIOUS
<1>3. p = [P!Idle EXCEPT !.for = who, !.left = P!Questions(r), !.at = "asking"] /\ p.at = "asking" /\ p.for = who /\ \A line, asked : PickFits(r, p, line, asked)
  BY <1>0, <1>1, <1>2, SetsFits
<1> HIDE DEF p
<1>4. r \notin Waiting(picks) /\ IsLine(queue', Waiting(picks) \ {r})
  <2>1. r \notin Waiting(picks) /\ Waiting(picks) \ {r} = Waiting(picks)
    BY DEF Waiting
  <2> QED BY <2>1 DEF PicksFit
<1>5. \A x \in DOMAIN picks : PickFits(x, picks[x], queue', asks')
  BY <1>1 DEF PicksFit
<1>6. /\ asks' \in [Cells -> {0, 1}] /\ (\A c \in Cells : asks'[c] = 1 => c \in prompted') /\ \A x \in filed' : x.for = x.under /\ x.alive
  BY <1>1 DEF PicksFit, CountFits
<1>7. \A c \in prompted' : asks'[c] = 1 \/ (c \in prompted /\ asks[c] # 1) \/ (P!Kind(r) = "edit" /\ p.for.name = c[1])
  BY <1>1, <1>3
<1>8. picks' = [picks EXCEPT ![r] = p]
  BY <1>1, <1>3
<1>9. IsLine(queue', IF P!Kind(r) = "auto" /\ p.at \in {"queued", "asking"} THEN Waiting(picks) \cup {r} ELSE Waiting(picks) \ {r})
  BY <1>4
<1>10. PickFits(r, p, queue', asks')
  BY <1>3
<1> QED BY <1>1, <1>5, <1>6, <1>7, <1>8, <1>9, <1>10, MovesFit

LEMMA EditsFits == ASSUME PersonaFits, PicksFit, scene' = scene, NEW r \in DOMAIN picks, P!Edits(r) \/ P!Drafts(r) PROVE PicksFit'
<1>1. r \in DOMAIN scene.setups /\ scene \in Scenes /\ prompted \subseteq Cells
  BY DEF PicksFit, PersonaFits, CountFits
<1>2. CASE P!Edits(r)
  <2>1. P!Kind(r) = "edit" /\ P!Sets(r, active, P!Questions(r), "asking") /\ queue' = queue
        /\ prompted' = prompted \cup {<<active.name, Head(P!Asked(r))>>}
    BY <1>2 DEF P!Edits
  <2>2. active \in People /\ active.name \in P!Names
    BY <2>1 DEF P!Sets, PersonaFits, IsPersona, People
  <2>3. Head(P!Asked(r)) \in Keys
    <3>1. P!Questions(r) # {} /\ DOMAIN P!Asked(r) = P!Questions(r) /\ \E n \in Nat : P!Questions(r) = 1..n
      BY <1>1, <2>1, ScenesAreTyped DEF P!Sets, P!Questions, P!Asked
    <3>2. 1 \in P!Questions(r)
      BY <3>1
    <3>3. P!Asked(r)[1] \in Keys
      BY <1>1, <3>2, AskedAre
    <3> QED BY <3>3
  <2>4. <<active.name, Head(P!Asked(r))>> \in Cells
    BY <2>2, <2>3 DEF Cells
  <2> DEFINE c == <<active.name, Head(P!Asked(r))>>
  <2>5. c[1] = active.name /\ prompted' = prompted \cup {c} /\ c \in Cells
    BY <2>1, <2>4
  <2> HIDE DEF c
  <2> QED BY <1>1, <2>1, <2>2, <2>5, SetsApart
<1>3. CASE P!Drafts(r)
  <2> DEFINE who == P!Persona(scene.setups[r].for)
  <2>1. P!Kind(r) = "draft" /\ scene.setups[r].for \in P!Loaded /\ P!Sets(r, who, P!Questions(r), "asking") /\ UNCHANGED <<prompted, queue>>
    BY <1>3 DEF P!Drafts
  <2>2. who \in People
    <3>1. scene.setups[r].for \in DOMAIN shelf.loaded /\ shelf.loaded \in {scene.defs, scene.edited} /\ shelf.load \in Nat
      BY <2>1 DEF P!Loaded, PersonaFits
    <3>2. IsPersona(who)
      BY <1>1, <3>1, DefinitionsAre DEF P!Persona
    <3> QED BY <3>2 DEF IsPersona
  <2> HIDE DEF who
  <2> QED BY <1>1, <2>1, <2>2, SetsApart
<1> QED BY <1>2, <1>3

\* What a setup asks next.
LEMMA PutsIs ==
  ASSUME PersonaFits, PicksFit, NEW r \in DOMAIN picks, picks[r].at # "idle", NEW left_ \in SUBSET P!Questions(r)
  PROVE  LET q == P!Puts(r, picks[r], left_) o == P!Opened(r, left_) IN
         /\ q \in Pick /\ q.for = picks[r].for /\ q.left = left_ /\ q.chosen = picks[r].chosen
         /\ left_ = {} => q.at = "over"
         /\ left_ # {} => q.at = "asking" /\ q.added = picks[r].added \cup ({o} \ prompted) /\ o \in Cells
         /\ left_ # {} => o = <<picks[r].for.name, P!Asked(r)[P!First(left_)]>> /\ o[1] = picks[r].for.name
<1> DEFINE was == picks[r]
           q == P!Puts(r, was, left_)
           o == P!Opened(r, left_)
<1>1. was \in Pick /\ was.for.name \in P!Names /\ r \in DOMAIN scene.setups /\ scene \in Scenes
  BY DEF PicksFit, PickFits, PersonaFits
<1>2. left_ \in SUBSET Nat
  BY <1>1, AskedAre
<1>3. CASE left_ = {}
  <2>1. q = [was EXCEPT !.at = "over", !.left = {}]
    BY <1>3 DEF P!Puts
  <2> HIDE DEF q, was
  <2>2. q \in Pick /\ q.for = was.for /\ q.left = {} /\ q.chosen = was.chosen /\ q.at = "over"
    BY <1>1, <1>2, <1>3, <2>1 DEF Pick
  <2> QED BY <1>3, <2>2 DEF q, was
<1>4. CASE left_ # {}
  <2>1. q = [was EXCEPT !.at = "asking", !.left = left_, !.added = was.added \cup ({o} \ prompted)]
    BY <1>4 DEF P!Puts
  <2>2. o = <<was.for.name, P!Asked(r)[P!First(left_)]>>
    BY DEF P!Opened, P!Cell
  <2>3. P!Asked(r)[P!First(left_)] \in Keys
    BY <1>1, <1>4, AskedAre
  <2> HIDE DEF q, was, o
  <2>4. o \in Cells /\ o[1] = was.for.name
    BY <1>1, <2>2, <2>3 DEF Cells
  <2>5. was.added \cup ({o} \ prompted) \in SUBSET Cells
    BY <1>1, <2>4 DEF Pick
  <2>6. q \in Pick /\ q.for = was.for /\ q.left = left_ /\ q.chosen = was.chosen /\ q.at = "asking" /\ q.added = was.added \cup ({o} \ prompted)
    BY <1>1, <1>2, <2>1, <2>5 DEF Pick
  <2> QED BY <1>4, <2>2, <2>4, <2>6 DEF q, was, o
<1> QED BY <1>3, <1>4

\* A setup that is over has nothing left to ask.
LEMMA OverFits ==
  ASSUME NEW r, NEW p, p \in Pick, p.at = "over", p.for.name \in P!Names, p.left = {}, \A c \in p.chosen : c.under = p.for.name
  PROVE  \A line, asked : PickFits(r, p, line, asked)
BY DEF PickFits

LEMMA DiscardsFits == ASSUME PersonaFits, PicksFit, scene' = scene, NEW r \in DOMAIN picks, picks[r].at # "idle", P!Discards(r) PROVE PicksFit'
<1> DEFINE p == [picks[r] EXCEPT !.at = "over", !.left = {}]
<1>1. picks' = [picks EXCEPT ![r] = p] /\ P!Leaves(r) /\ UNCHANGED <<filed, prompted, asks>>
  BY DEF P!Discards
<1>2. PickFits(r, picks[r], queue, asks)
  BY DEF PicksFit
<1>3. p \in Pick /\ p.at = "over" /\ p.for = picks[r].for /\ p.left = {} /\ p.chosen = picks[r].chosen
  BY <1>2 DEF PickFits, Pick
<1> HIDE DEF p
<1>4. \A line, asked : PickFits(r, p, line, asked)
  BY <1>2, <1>3, OverFits DEF PickFits
<1>5. IsLine(queue', Waiting(picks) \ {r}) /\ (queue[1] # r /\ Waiting(picks) # {} => queue'[1] = queue[1])
  BY <1>1, LeavesLine DEF PicksFit
<1>6. ASSUME NEW x \in DOMAIN picks, x # r PROVE PickFits(x, picks[x], queue', asks')
  <2>1. CASE P!Kind(x) = "auto" /\ picks[x].at = "asking" /\ queue[1] = x
    <3>1. queue'[1] = queue[1]
      BY <1>5, <1>6, <2>1, OneAsks
    <3> QED BY <1>1, <3>1, OneAsks
  <2>2. CASE ~(P!Kind(x) = "auto" /\ picks[x].at = "asking" /\ queue[1] = x)
    BY <2>2, OneAsks
  <2> QED BY <2>1, <2>2
<1>7. IsLine(queue', IF P!Kind(r) = "auto" /\ p.at \in {"queued", "asking"} THEN Waiting(picks) \cup {r} ELSE Waiting(picks) \ {r})
  BY <1>3, <1>5
<1>8. PickFits(r, p, queue', asks')
  BY <1>4
<1> QED BY <1>1, <1>3, <1>6, <1>7, <1>8, MovesFit DEF PicksFit, CountFits

LEMMA StopsFits == ASSUME PersonaFits, PicksFit, scene' = scene, NEW r \in DOMAIN picks, P!Stops(r) PROVE PicksFit'
<1> DEFINE p == [picks[r] EXCEPT !.at = "over", !.left = {}, !.stopped = TRUE]
<1>1. /\ picks' = [picks EXCEPT ![r] = p] /\ P!Leaves(r) /\ UNCHANGED filed /\ P!Kind(r) = "auto" /\ picks[r].at \in {"queued", "asking"}
      /\ prompted' = prompted \ picks[r].added
      /\ asks' = [c \in DOMAIN asks |-> IF c \in picks[r].added THEN asks[c] - 1 ELSE asks[c]]
  BY DEF P!Stops, P!TakenBack
<1>2. PickFits(r, picks[r], queue, asks) /\ CountFits(asks, prompted, picks)
  BY DEF PicksFit
<1>3. p \in Pick /\ p.at = "over" /\ p.for = picks[r].for /\ p.left = {} /\ p.chosen = picks[r].chosen
  BY <1>2 DEF PickFits, Pick
<1> HIDE DEF p
<1>4. \A line, asked : PickFits(r, p, line, asked)
  BY <1>1, <1>2, <1>3, OverFits DEF PickFits
<1>5. IsLine(queue', Waiting(picks) \ {r}) /\ (queue[1] # r /\ Waiting(picks) # {} => queue'[1] = queue[1])
  BY <1>1, LeavesLine DEF PicksFit
<1>6. \A c \in picks[r].added : asks[c] = 1 /\ c \in Cells
  <2>1. picks[r].added \subseteq Cells
    BY <1>2 DEF PickFits, Pick
  <2> QED BY <1>1, <1>2, <2>1 DEF PickFits
<1>7. /\ asks' \in [Cells -> {0, 1}] /\ \A c \in Cells : asks'[c] = IF c \in picks[r].added THEN 0 ELSE asks[c]
  <2>1. asks \in [Cells -> {0, 1}] /\ DOMAIN asks = Cells
    BY <1>2 DEF CountFits
  <2>2. \A c \in Cells : asks'[c] = IF c \in picks[r].added THEN 0 ELSE asks[c]
    BY <1>1, <1>6, <2>1
  <2>3. \A c \in Cells : asks'[c] \in {0, 1}
    BY <2>1, <2>2
  <2>4. asks' = [c \in Cells |-> asks'[c]]
    BY <1>1, <2>1
  <2> QED BY <2>2, <2>3, <2>4
<1>8. ASSUME NEW x \in DOMAIN picks, x # r PROVE PickFits(x, picks[x], queue', asks')
  <2>1. CASE P!Kind(x) = "auto" /\ picks[x].at = "asking" /\ queue[1] = x
    <3>1. queue'[1] = queue[1]
      BY <1>5, <1>8, <2>1, OneAsks
    <3>2. picks[r].added = {}
      <4>1. picks[r].at = "queued"
        BY <1>1, <1>2, <1>8, <2>1 DEF PickFits
      <4> QED BY <1>1, <1>2, <4>1 DEF PickFits
    <3>3. asks' = asks
      <4>1. asks \in [Cells -> {0, 1}] /\ \A c \in Cells : asks'[c] = asks[c]
        BY <1>2, <1>7, <3>2 DEF CountFits
      <4> QED BY <1>7, <4>1
    <3> QED BY <3>1, <3>3, OneAsks
  <2>2. CASE ~(P!Kind(x) = "auto" /\ picks[x].at = "asking" /\ queue[1] = x)
    BY <2>2, OneAsks
  <2> QED BY <2>1, <2>2
<1>9. IsLine(queue', IF P!Kind(r) = "auto" /\ p.at \in {"queued", "asking"} THEN Waiting(picks) \cup {r} ELSE Waiting(picks) \ {r})
  BY <1>3, <1>5
<1>10. PickFits(r, p, queue', asks')
  BY <1>4
<1>11. /\ prompted' \subseteq Cells /\ (\A c \in Cells : asks'[c] = 1 => c \in prompted')
       /\ \A c \in prompted' : asks'[c] = 1 \/ (c \in prompted /\ asks[c] # 1) \/ (P!Kind(r) = "edit" /\ p.for.name = c[1])
  BY <1>1, <1>2, <1>7 DEF CountFits
<1>12. \A x \in filed' : x.for = x.under /\ x.alive
  BY <1>1 DEF PicksFit
<1> QED BY <1>1, <1>3, <1>7, <1>8, <1>9, <1>10, <1>11, <1>12, MovesFit

\* A setup asks its next question, or has none.
LEMMA AsksFits ==
  ASSUME PersonaFits, PicksFit, scene' = scene, NEW r \in DOMAIN picks, picks[r].at # "idle", P!Kind(r) \in {"auto", "edit"},
         NEW left_ \in SUBSET P!Questions(r), P!Prompts(r, left_),
         P!Kind(r) = "auto" => /\ r \in Waiting(picks) /\ queue[1] = r
                               /\ \A c \in picks[r].added : asks[c] = 1
                               /\ \A i \in left_ : asks[<<picks[r].for.name, P!Asked(r)[i]>>] = 0,
         NEW p \in Pick, picks' = [picks EXCEPT ![r] = p], p.for = picks[r].for, p.left = left_,
         left_ = {} => p.at = "over",
         left_ # {} => p.at = "asking" /\ p.added = picks[r].added \cup ({P!Opened(r, left_)} \ prompted),
         \A c \in p.chosen : c.under = p.for.name,
         left_ # {} => queue' = queue,
         left_ = {} => IsLine(queue', Waiting(picks) \ {r}) /\ (queue[1] # r /\ Waiting(picks) # {} => queue'[1] = queue[1]),
         \A x \in filed' : x.for = x.under /\ x.alive
  PROVE  PicksFit'
<1> DEFINE o == P!Opened(r, left_)
<1>1. /\ PickFits(r, picks[r], queue, asks) /\ CountFits(asks, prompted, picks) /\ IsLine(queue, Waiting(picks))
      /\ r \in DOMAIN scene.setups /\ scene \in Scenes
  BY DEF PicksFit, PersonaFits
<1>2. p.for.name \in P!Names
  BY <1>1 DEF PickFits
<1>3. left_ # {} => o \in Cells /\ o = <<p.for.name, P!Asked(r)[P!First(left_)]>> /\ o[1] = p.for.name
  BY PutsIs
<1>4. prompted' = (IF left_ = {} THEN prompted ELSE prompted \cup {o})
      /\ asks' = IF left_ = {} \/ P!Kind(r) # "auto" THEN asks ELSE [asks EXCEPT ![o] = @ + 1]
  BY DEF P!Prompts
<1> HIDE DEF o
<1>5. asks \in [Cells -> {0, 1}] /\ prompted \subseteq Cells /\ (\A c \in Cells : asks[c] = 1 => c \in prompted)
  BY <1>1 DEF CountFits
<1>6. ASSUME left_ # {}, P!Kind(r) = "auto"
      PROVE  asks' \in [Cells -> {0, 1}] /\ asks'[o] = 1 /\ asks[o] = 0 /\ \A c \in Cells : c # o => asks'[c] = asks[c]
  <2>1. P!First(left_) \in left_
    BY <1>1, <1>6, AskedAre
  <2>2. asks[o] = 0
    BY <1>3, <1>6, <2>1
  <2>3. asks' = [asks EXCEPT ![o] = 1]
    BY <1>4, <1>6, <2>2
  <2> QED BY <1>3, <1>5, <1>6, <2>2, <2>3
<1>7. asks' \in [Cells -> {0, 1}] /\ prompted' \subseteq Cells /\ (\A c \in Cells : asks'[c] = 1 => c \in prompted')
  <2>1. CASE left_ = {} \/ P!Kind(r) # "auto"
    BY <1>3, <1>4, <1>5, <2>1
  <2>2. CASE left_ # {} /\ P!Kind(r) = "auto"
    BY <1>3, <1>4, <1>5, <1>6, <2>2
  <2> QED BY <2>1, <2>2
<1>8. \A c \in prompted' : asks'[c] = 1 \/ (c \in prompted /\ asks[c] # 1) \/ (P!Kind(r) = "edit" /\ p.for.name = c[1])
  <2> TAKE c \in prompted'
  <2>1. CASE left_ = {}
    BY <1>4, <2>1
  <2>2. CASE left_ # {} /\ P!Kind(r) = "auto"
    <3>1. c = o \/ (c \in prompted /\ c \in Cells /\ c # o)
      BY <1>4, <1>5, <2>2
    <3> QED BY <1>6, <2>2, <3>1
  <2>3. CASE left_ # {} /\ P!Kind(r) = "edit"
    <3>1. asks' = asks /\ (c = o \/ c \in prompted)
      BY <1>4, <2>3
    <3> QED BY <1>3, <2>3, <3>1
  <2> QED BY <2>1, <2>2, <2>3
<1>9. PickFits(r, p, queue', asks')
  <2>1. CASE left_ = {}
    <3>1. \A line, asked : PickFits(r, p, line, asked)
      BY <1>2, <2>1, OverFits
    <3> QED BY <3>1
  <2>2. CASE left_ # {}
    <3>1. ASSUME P!Kind(r) = "auto"
          PROVE  /\ queue'[1] = r /\ \A c \in p.added : asks'[c] = 1
                 /\ \A i \in P!Rest(left_) : asks'[<<p.for.name, P!Asked(r)[i]>>] = 0
      <4>1. queue'[1] = r
        BY <2>2, <3>1
      <4>2. ASSUME NEW c \in p.added PROVE asks'[c] = 1
        <5>1. c = o \/ (c \in picks[r].added /\ asks[c] = 1 /\ c \in Cells)
          BY <1>1, <2>2, <3>1, <4>2 DEF PickFits, Pick, o
        <5> QED BY <1>6, <2>2, <3>1, <5>1
      <4>3. ASSUME NEW i \in P!Rest(left_) PROVE asks'[<<p.for.name, P!Asked(r)[i]>>] = 0
        <5>1. i \in left_ /\ P!First(left_) \in left_ /\ i # P!First(left_)
          BY <1>1, <2>2, <4>3, AskedAre
        <5>2. P!Asked(r)[i] # P!Asked(r)[P!First(left_)] /\ P!Asked(r)[i] \in Keys
          BY <1>1, <5>1, AskedAre
        <5> DEFINE c == <<p.for.name, P!Asked(r)[i]>>
        <5>3. c \in Cells /\ c # o /\ asks[c] = 0
          BY <1>2, <1>3, <2>2, <3>1, <5>1, <5>2 DEF Cells
        <5> HIDE DEF c
        <5>4. asks'[c] = 0
          BY <1>6, <2>2, <3>1, <5>3
        <5> QED BY <5>4 DEF c
      <4> QED BY <4>1, <4>2, <4>3
    <3> QED BY <1>2, <2>2, <3>1 DEF PickFits
  <2> QED BY <2>1, <2>2
<1>10. ASSUME NEW x \in DOMAIN picks, x # r PROVE PickFits(x, picks[x], queue', asks')
  <2>1. CASE P!Kind(x) = "auto" /\ picks[x].at = "asking" /\ queue[1] = x
    <3>1. P!Kind(r) # "auto" /\ Waiting(picks) # {}
      BY <1>10, <2>1 DEF Waiting
    <3>2. asks' = asks /\ queue'[1] = queue[1]
      BY <1>4, <1>10, <2>1, <3>1
    <3> QED BY <3>2, OneAsks
  <2>2. CASE ~(P!Kind(x) = "auto" /\ picks[x].at = "asking" /\ queue[1] = x)
    BY <2>2, OneAsks
  <2> QED BY <2>1, <2>2
<1>11. IsLine(queue', IF P!Kind(r) = "auto" /\ p.at \in {"queued", "asking"} THEN Waiting(picks) \cup {r} ELSE Waiting(picks) \ {r})
  <2>1. CASE left_ = {}
    BY <2>1
  <2>2. CASE left_ # {} /\ P!Kind(r) = "auto"
    <3>1. Waiting(picks) \cup {r} = Waiting(picks) /\ queue' = queue /\ p.at = "asking"
      BY <2>2
    <3> QED BY <1>1, <2>2, <3>1
  <2>3. CASE left_ # {} /\ P!Kind(r) = "edit"
    <3>1. Waiting(picks) \ {r} = Waiting(picks) /\ queue' = queue
      BY <2>3 DEF Waiting
    <3> QED BY <1>1, <2>3, <3>1
  <2> QED BY <2>1, <2>2, <2>3
<1> QED BY <1>7, <1>8, <1>9, <1>10, <1>11, MovesFit

LEMMA OpensFits == ASSUME PersonaFits, PicksFit, scene' = scene, NEW r \in DOMAIN picks, P!Opens(r) PROVE PicksFit'
<1> DEFINE left_ == IF P!IsCurrent(r) THEN P!StillMissing(r) ELSE {}
           p == P!Puts(r, picks[r], left_)
<1>1. /\ queue # <<>> /\ Head(queue) = r /\ picks[r].at = "queued" /\ picks' = [picks EXCEPT ![r] = p]
      /\ queue' = (IF left_ = {} THEN Tail(queue) ELSE queue) /\ P!Prompts(r, left_) /\ UNCHANGED filed
  BY DEF P!Opens
<1>2. IsLine(queue, Waiting(picks)) /\ PickFits(r, picks[r], queue, asks) /\ CountFits(asks, prompted, picks)
  BY DEF PicksFit
<1>3. r \in Waiting(picks) /\ queue[1] = r /\ IsLine(Tail(queue), Waiting(picks) \ {r})
  <2>1. Head(queue) = queue[1]
    BY <1>1, <1>2 DEF IsLine
  <2> QED BY <1>1, <1>2, <2>1, LineShrinks
<1>4. P!Kind(r) = "auto"
  BY <1>3 DEF Waiting
<1>5. /\ left_ \in SUBSET P!Questions(r) /\ \A c \in picks[r].added : asks[c] = 1
      /\ \A i \in left_ : asks[<<picks[r].for.name, P!Asked(r)[i]>>] = 0
  <2>1. picks[r].left \subseteq P!Questions(r) /\ picks[r].added = {} /\ picks[r].for.name \in P!Names
    BY <1>1, <1>2, <1>4 DEF PickFits
  <2>2. ASSUME NEW i \in P!StillMissing(r) PROVE i \in P!Questions(r) /\ asks[<<picks[r].for.name, P!Asked(r)[i]>>] = 0
    <3> DEFINE c == <<picks[r].for.name, P!Asked(r)[i]>>
    <3>1. i \in picks[r].left /\ c \notin prompted
      BY <2>2 DEF P!StillMissing, P!Missing
    <3>2. P!Asked(r)[i] \in Keys
      BY <2>1, <3>1, AskedAre DEF PicksFit, PersonaFits
    <3>3. c \in Cells
      BY <2>1, <3>2 DEF Cells
    <3> HIDE DEF c
    <3>4. asks[c] = 0
      BY <1>2, <3>1, <3>3 DEF CountFits
    <3> QED BY <2>1, <3>1, <3>4 DEF c
  <2> QED BY <2>1, <2>2
<1> HIDE DEF left_
<1>6. /\ p \in Pick /\ p.for = picks[r].for /\ p.left = left_ /\ p.chosen = picks[r].chosen /\ (left_ = {} => p.at = "over")
      /\ left_ # {} => p.at = "asking" /\ p.added = picks[r].added \cup ({P!Opened(r, left_)} \ prompted)
  BY <1>1, <1>5, PutsIs
<1> HIDE DEF p
<1>7. (\A c \in p.chosen : c.under = p.for.name) /\ \A x \in filed' : x.for = x.under /\ x.alive
  BY <1>1, <1>2, <1>6 DEF PickFits, PicksFit
<1>8. /\ left_ # {} => queue' = queue
      /\ left_ = {} => IsLine(queue', Waiting(picks) \ {r}) /\ (queue[1] # r /\ Waiting(picks) # {} => queue'[1] = queue[1])
  BY <1>1, <1>3
<1> QED BY <1>1, <1>3, <1>4, <1>5, <1>6, <1>7, <1>8, AsksFits

\* An answer is for the persona it is given under.
LEMMA TakenIs ==
  ASSUME PersonaFits, PicksFit, NEW r \in DOMAIN picks, picks[r].at = "asking"
  PROVE  /\ picks[r].chosen \in SUBSET [key : Keys, under : P!Names] /\ \A c \in picks[r].chosen : c.under = picks[r].for.name
         /\ LET taken == P!Taken(r, picks[r].for.name) IN
            taken \in SUBSET [key : Keys, under : P!Names] /\ \A c \in taken : c.under = picks[r].for.name
<1>1. PickFits(r, picks[r], queue, asks) /\ r \in DOMAIN scene.setups /\ scene \in Scenes
  BY DEF PicksFit, PersonaFits
<1>2. picks[r].chosen \in SUBSET [key : Keys, under : P!Names] /\ picks[r].left # {} /\ picks[r].left \subseteq P!Questions(r)
      /\ picks[r].for.name \in P!Names /\ \A c \in picks[r].chosen : c.under = picks[r].for.name
  BY <1>1 DEF PickFits, Pick
<1>3. P!Asked(r)[P!First(picks[r].left)] \in Keys
  BY <1>1, <1>2, AskedAre
<1> DEFINE new == [key |-> P!Asked(r)[P!First(picks[r].left)], under |-> picks[r].for.name]
<1>4. new \in [key : Keys, under : P!Names] /\ new.under = picks[r].for.name
  BY <1>2, <1>3
<1>5. P!Taken(r, picks[r].for.name) = picks[r].chosen \cup {new}
  BY DEF P!Taken
<1> HIDE DEF new
<1> QED BY <1>2, <1>4, <1>5

\* What the next question leaves of a setup that has taken an answer.
Answered(r, left_, chosen_) == [P!Puts(r, picks[r], left_) EXCEPT !.chosen = chosen_]

LEMMA NextFits ==
  ASSUME PersonaFits, PicksFit, NEW r \in DOMAIN picks, picks[r].at # "idle", NEW left_ \in SUBSET P!Questions(r),
         NEW chosen_ \in SUBSET [key : Keys, under : P!Names]
  PROVE  LET p == Answered(r, left_, chosen_) IN
         /\ p \in Pick /\ p.for = picks[r].for /\ p.left = left_ /\ p.chosen = chosen_
         /\ left_ = {} => p.at = "over"
         /\ left_ # {} => p.at = "asking" /\ p.added = picks[r].added \cup ({P!Opened(r, left_)} \ prompted)
<1> DEFINE q == P!Puts(r, picks[r], left_)
           p == [q EXCEPT !.chosen = chosen_]
<1>1. /\ q \in Pick /\ q.for = picks[r].for /\ q.left = left_ /\ (left_ = {} => q.at = "over")
      /\ left_ # {} => q.at = "asking" /\ q.added = picks[r].added \cup ({P!Opened(r, left_)} \ prompted)
  BY PutsIs
<1> HIDE DEF q
<1>2. p \in Pick /\ p.for = q.for /\ p.left = q.left /\ p.chosen = chosen_ /\ p.at = q.at /\ p.added = q.added
  BY <1>1 DEF Pick
<1> HIDE DEF p
<1>3. /\ p \in Pick /\ p.for = picks[r].for /\ p.left = left_ /\ p.chosen = chosen_
      /\ left_ = {} => p.at = "over"
      /\ left_ # {} => p.at = "asking" /\ p.added = picks[r].added \cup ({P!Opened(r, left_)} \ prompted)
  BY <1>1, <1>2
<1> QED BY <1>3 DEF p, q, Answered

\* What is filed is filed for the persona it was chosen under.
LEMMA FiledFits ==
  ASSUME PicksFit, P!Alive, NEW r, NEW chosen_, \A c \in chosen_ : c.under = picks[r].for.name, P!Filed(r, chosen_)
  PROVE  \A x \in filed' : x.for = x.under /\ x.alive
<1>1. filed' = filed \cup {[for |-> picks[r].for.name, under |-> c.under, alive |-> P!Alive] : c \in chosen_}
  BY DEF P!Filed
<1>2. ASSUME NEW c \in chosen_ PROVE LET x == [for |-> picks[r].for.name, under |-> c.under, alive |-> P!Alive] IN x.for = x.under /\ x.alive
  BY <1>2
<1> QED BY <1>1, <1>2 DEF PicksFit

LEMMA AnswersFits == ASSUME PersonaFits, PicksFit, scene' = scene, NEW r \in DOMAIN picks, P!Answers(r) PROVE PicksFit'
<1>1. picks[r].at = "asking" /\ P!Kind(r) # "draft" /\ PickFits(r, picks[r], queue, asks) /\ r \in DOMAIN scene.setups /\ scene \in Scenes
  BY DEF P!Answers, PicksFit, PersonaFits
<1>2. P!Kind(r) \in {"auto", "edit"}
  BY <1>1, AskedAre
<1>3. CASE P!Discards(r)
  BY <1>1, <1>3, DiscardsFits
<1>4. CASE P!IsCurrent(r) /\ ~P!Discards(r)
  <2>1. active = picks[r].for /\ P!Alive
    BY <1>4 DEF P!IsCurrent
  <2>2. PICK how \in {"takes", "declines", "breaks"} :
          LET chosen_ == IF how = "takes" THEN P!Taken(r, active.name) ELSE picks[r].chosen
              left_ == IF how = "breaks" THEN {} ELSE P!Rest(picks[r].left)
          IN  /\ picks' = [picks EXCEPT ![r] = [P!Puts(r, @, left_) EXCEPT !.chosen = chosen_]]
              /\ P!Prompts(r, left_)
              /\ IF left_ = {} /\ chosen_ # {} THEN P!Files(r, chosen_) ELSE UNCHANGED <<models, filed, budget>>
              /\ IF left_ = {} THEN P!Leaves(r) ELSE UNCHANGED queue
    BY <1>4 DEF P!Answers
  <2> DEFINE chosen_ == IF how = "takes" THEN P!Taken(r, active.name) ELSE picks[r].chosen
             left_ == IF how = "breaks" THEN {} ELSE P!Rest(picks[r].left)
             p == Answered(r, left_, chosen_)
  <2>3. /\ picks' = [picks EXCEPT ![r] = p] /\ P!Prompts(r, left_)
        /\ IF left_ = {} /\ chosen_ # {} THEN P!Files(r, chosen_) ELSE UNCHANGED <<models, filed, budget>>
        /\ IF left_ = {} THEN P!Leaves(r) ELSE UNCHANGED queue
    BY <2>2 DEF Answered
  <2>4. chosen_ \in SUBSET [key : Keys, under : P!Names] /\ \A c \in chosen_ : c.under = picks[r].for.name
    BY <1>1, <2>1, TakenIs
  <2>5. left_ \in SUBSET P!Questions(r) /\ left_ \subseteq P!Rest(picks[r].left)
    <3>1. picks[r].left # {} /\ picks[r].left \subseteq P!Questions(r)
      BY <1>1 DEF PickFits
    <3>2. P!Rest(picks[r].left) \subseteq picks[r].left
      BY <1>1, <3>1, AskedAre
    <3> QED BY <3>1, <3>2
  <2> HIDE DEF chosen_, left_
  <2>6. /\ p \in Pick /\ p.for = picks[r].for /\ p.left = left_ /\ p.chosen = chosen_ /\ (left_ = {} => p.at = "over")
        /\ left_ # {} => p.at = "asking" /\ p.added = picks[r].added \cup ({P!Opened(r, left_)} \ prompted)
    <3>1. \A l \in SUBSET P!Questions(r), w \in SUBSET [key : Keys, under : P!Names] :
            LET a == Answered(r, l, w) IN
            /\ a \in Pick /\ a.for = picks[r].for /\ a.left = l /\ a.chosen = w /\ (l = {} => a.at = "over")
            /\ l # {} => a.at = "asking" /\ a.added = picks[r].added \cup ({P!Opened(r, l)} \ prompted)
      BY <1>1, NextFits
    <3> QED BY <2>4, <2>5, <3>1
  <2> HIDE DEF p
  <2>7. \A x \in filed' : x.for = x.under /\ x.alive
    <3>1. CASE left_ = {} /\ chosen_ # {}
      <4>1. P!Filed(r, chosen_)
        BY <2>3, <3>1 DEF P!Files
      <4> QED BY <2>1, <2>4, <4>1, FiledFits
    <3>2. CASE ~(left_ = {} /\ chosen_ # {})
      BY <2>3, <3>2 DEF PicksFit
    <3> QED BY <3>1, <3>2
  <2>8. left_ = {} => IsLine(queue', Waiting(picks) \ {r}) /\ (queue[1] # r /\ Waiting(picks) # {} => queue'[1] = queue[1])
    BY <2>3, LeavesLine DEF PicksFit
  <2>9. P!Kind(r) = "auto" => /\ r \in Waiting(picks) /\ queue[1] = r
                              /\ \A c \in picks[r].added : asks[c] = 1
                              /\ \A i \in left_ : asks[<<picks[r].for.name, P!Asked(r)[i]>>] = 0
    BY <1>1, <2>5 DEF PickFits, Waiting
  <2>10. (left_ # {} => queue' = queue) /\ \A c \in p.chosen : c.under = p.for.name
    BY <2>3, <2>4, <2>6
  <2> QED BY <1>1, <1>2, <2>3, <2>5, <2>6, <2>7, <2>8, <2>9, <2>10, AsksFits
<1> QED BY <1>3, <1>4 DEF P!Answers

LEMMA DraftsFits == ASSUME PersonaFits, PicksFit, scene' = scene, NEW r \in DOMAIN picks, P!DraftAnswers(r) PROVE PicksFit'
<1>1. picks[r].at = "asking" /\ P!Kind(r) = "draft" /\ PickFits(r, picks[r], queue, asks) /\ r \in DOMAIN scene.setups /\ scene \in Scenes
      /\ IsLine(queue, Waiting(picks))
  BY DEF P!DraftAnswers, PicksFit, PersonaFits
<1>2. CASE P!Discards(r)
  BY <1>1, <1>2, DiscardsFits
<1>3. CASE ~P!Discards(r)
  <2> DEFINE left_ == P!Rest(picks[r].left)
  <2>1. PICK chosen_ \in {picks[r].chosen, P!Taken(r, picks[r].for.name)} :
          /\ picks' = [picks EXCEPT ![r] = [P!Puts(r, @, left_) EXCEPT !.chosen = chosen_]]
          /\ IF left_ = {} /\ chosen_ # {} THEN P!FilesDraft(r, chosen_) ELSE UNCHANGED <<models, filed, budget>>
          /\ UNCHANGED <<prompted, asks, queue>>
    BY <1>3 DEF P!DraftAnswers
  <2>2. P!Alive
    BY <1>3 DEF P!DraftAnswers
  <2> DEFINE p == Answered(r, left_, chosen_)
  <2>3. chosen_ \in SUBSET [key : Keys, under : P!Names] /\ \A c \in chosen_ : c.under = picks[r].for.name
    BY <1>1, <2>1, TakenIs
  <2>4. left_ \in SUBSET P!Questions(r)
    <3>1. picks[r].left # {} /\ picks[r].left \subseteq P!Questions(r)
      BY <1>1 DEF PickFits
    <3>2. P!Rest(picks[r].left) \subseteq picks[r].left
      BY <1>1, <3>1, AskedAre
    <3> QED BY <3>1, <3>2
  <2>5. picks' = [picks EXCEPT ![r] = p]
    BY <2>1 DEF Answered
  <2> HIDE DEF left_
  <2>6. /\ p \in Pick /\ p.for = picks[r].for /\ p.left = left_ /\ p.chosen = chosen_ /\ (left_ = {} => p.at = "over")
        /\ left_ # {} => p.at = "asking"
    <3>1. \A l \in SUBSET P!Questions(r), w \in SUBSET [key : Keys, under : P!Names] :
            LET a == Answered(r, l, w) IN
            /\ a \in Pick /\ a.for = picks[r].for /\ a.left = l /\ a.chosen = w /\ (l = {} => a.at = "over")
            /\ l # {} => a.at = "asking" /\ a.added = picks[r].added \cup ({P!Opened(r, l)} \ prompted)
      BY <1>1, NextFits
    <3> QED BY <2>3, <2>4, <3>1
  <2> HIDE DEF p
  <2>7. \A x \in filed' : x.for = x.under /\ x.alive
    <3>1. CASE left_ = {} /\ chosen_ # {}
      <4>1. P!Filed(r, chosen_)
        BY <2>1, <3>1 DEF P!FilesDraft
      <4> QED BY <2>2, <2>3, <4>1, FiledFits
    <3>2. CASE ~(left_ = {} /\ chosen_ # {})
      BY <2>1, <3>2 DEF PicksFit
    <3> QED BY <3>1, <3>2
  <2>8. \A line, asked : PickFits(r, p, line, asked)
    <3>1. p.for.name \in P!Names /\ p.left \subseteq P!Questions(r) /\ p.at \in {"over", "asking"} /\ (p.at = "asking" => p.left # {})
      BY <1>1, <2>4, <2>6 DEF PickFits
    <3> QED BY <1>1, <2>3, <2>6, <3>1 DEF PickFits
  <2>9. Waiting(picks) \ {r} = Waiting(picks)
    BY <1>1 DEF Waiting
  <2>10. IsLine(queue', IF P!Kind(r) = "auto" /\ p.at \in {"queued", "asking"} THEN Waiting(picks) \cup {r} ELSE Waiting(picks) \ {r})
    BY <1>1, <2>1, <2>9
  <2>11. PickFits(r, p, queue', asks') /\ \A x \in DOMAIN picks : x # r => PickFits(x, picks[x], queue', asks')
    BY <2>1, <2>8 DEF PicksFit
  <2> QED BY <2>1, <2>5, <2>6, <2>7, <2>10, <2>11, MovesFit DEF PicksFit, CountFits
<1> QED BY <1>2, <1>3

PersonaInvariant == PersonaFits /\ PicksFit

LEMMA PersonasNextKeeps == ASSUME PersonaInvariant, P!PersonasNext PROVE PersonaInvariant'
<1>1. PersonaFits /\ PicksFit
  BY DEF PersonaInvariant
<1>2. CASE P!Begins \/ P!Readies \/ P!ShutsDown \/ P!Cycles \/ P!Picks \/ P!Off \/ P!Reloads \/ P!Chooses \/ \E i \in DOMAIN flights : P!Lands(i)
  <2>1. UNCHANGED <<scene, prompted, queue, picks, filed, asks>>
    BY <1>2 DEF P!Begins, P!Readies, P!ShutsDown, P!Cycles, P!Picks, P!Off, P!Gesture, P!Reloads, P!Chooses, P!Lands, P!pickVars
  <2>2. PicksFit'
    BY <1>1, <2>1, PicksKeep DEF PicksFit
  <2>3. scene \in Scenes /\ shelf.loaded \in {scene.defs, scene.edited} /\ shelf.load \in Nat
    BY <1>1 DEF PersonaFits
  <2>4. CASE P!Picks
    <3>1. PICK n \in DOMAIN shelf.loaded : P!Gesture(P!Persona(n), TRUE)
      BY <2>4 DEF P!Picks, P!Loaded
    <3>2. IsPersona(P!Persona(n))
      BY <2>3, DefinitionsAre DEF P!Persona
    <3> QED BY <1>1, <2>2, <3>1, <3>2, GestureKeeps DEF PersonaInvariant
  <2>5. CASE P!Off
    <3>1. IsPersona(P!Nobody) /\ P!Gesture(P!Nobody, TRUE)
      BY <2>3, <2>5, DefinitionsAre DEF P!Off
    <3>2. \A p : IsPersona(p) /\ P!Gesture(p, TRUE) => PersonaFits'
      BY <1>1, GestureKeeps
    <3>3. PersonaFits'
      BY <3>1, <3>2
    <3> QED BY <2>2, <3>3 DEF PersonaInvariant
  <2>6. CASE ~P!Picks /\ ~P!Off
    BY <1>1, <1>2, <2>2, <2>6, BeginsKeeps, OwnerKeeps, CyclesKeeps, ReloadsKeeps, ChoosesKeeps, LandsKeeps DEF PersonaInvariant
  <2> QED BY <2>4, <2>5, <2>6
<1>3. CASE \E r \in P!Setups : P!Launches(r) \/ P!Edits(r) \/ P!Drafts(r) \/ P!Opens(r) \/ P!Answers(r) \/ P!DraftAnswers(r) \/ P!Stops(r)
  <2>1. PICK r \in DOMAIN picks : P!Launches(r) \/ P!Edits(r) \/ P!Drafts(r) \/ P!Opens(r) \/ P!Answers(r) \/ P!DraftAnswers(r) \/ P!Stops(r)
    BY <1>3 DEF P!Setups
  <2>2. UNCHANGED <<scene, shelf, session, active, ctl, flights, owner, own, mixed>>
    BY <2>1 DEF P!Launches, P!Edits, P!Drafts, P!Sets, P!Opens, P!Answers, P!DraftAnswers, P!Stops, P!personaVars
  <2>3. PersonaFits'
    BY <1>1, <2>2, PersonaKeeps DEF PersonaFits
  <2>4. PicksFit'
    BY <1>1, <2>1, <2>2, LaunchesFits, EditsFits, OpensFits, AnswersFits, DraftsFits, StopsFits
  <2> QED BY <2>3, <2>4 DEF PersonaInvariant
<1> QED BY <1>2, <1>3 DEF P!PersonasNext

LEMMA PersonasBegin == ASSUME NEW s \in Scenes, P!PersonasStart(s, "new") PROVE PersonaInvariant
<1>1. scene = s /\ session = "new" /\ flights = <<>> /\ active = P!Nobody /\ shelf = [files |-> s.defs, loaded |-> s.defs, load |-> 0]
  BY DEF P!PersonasStart
<1>2. scene \in Scenes /\ IsPersona(active) /\ active.name = None /\ active.def = P!Plain
  <2>1. scene \in Scenes
    BY <1>1
  <2>2. IsPersona(P!Nobody) /\ P!Nobody.name = None /\ P!Nobody.def = P!Plain
    <3>1. P!Nobody.name = None /\ P!Nobody.def = P!Plain
      BY DEF P!Nobody
    <3> QED BY <2>1, <3>1, DefinitionsAre
  <2> QED BY <1>1, <2>1, <2>2
<1>3. PersonaFits
  <2>0. /\ ctl = [model |-> "own", thinking |-> "own", tools |-> "all", kept |-> "none", over |-> FALSE,
                   thought |-> "none", thinkOver |-> FALSE, restricted |-> FALSE]
        /\ own = [model |-> "own", thinking |-> "own", held |-> FALSE]
    BY DEF P!PersonasStart
  <2>1. OwnerFits(owner, session, active)
    <3>1. owner = [bound |-> FALSE, pending |-> FALSE, ready |-> FALSE, heard |-> "not ready"]
      BY DEF P!PersonasStart
    <3> QED BY <1>1, <3>1 DEF OwnerFits, P!Reads
  <2>2. PutAside(ctl, own)
    BY <2>0, NoneIsWord DEF PutAside, Settings
  <2>3. Rests(ctl, own, active)
    BY <1>2, <2>0 DEF Rests, ToolsOf, P!Plain
  <2>4. SettingsFit(ctl, own, active, flights)
    BY <1>1, <2>2, <2>3 DEF SettingsFit
  <2>5. shelf.files \in {scene.defs, scene.edited} /\ shelf.loaded \in {scene.defs, scene.edited} /\ shelf.load \in Nat
        /\ shelf = [files |-> shelf.files, loaded |-> shelf.loaded, load |-> shelf.load]
    BY <1>1
  <2> QED BY <1>1, <1>2, <2>1, <2>4, <2>5 DEF PersonaFits
<1>4. PicksFit
  <2>1. /\ picks = [r \in DOMAIN s.setups |-> P!Idle] /\ queue = <<>> /\ prompted = {} /\ filed = {}
        /\ asks = [p \in Cells |-> 0]
    <3>1. picks = [r \in DOMAIN s.setups |-> P!Idle] /\ queue = <<>> /\ prompted = {} /\ filed = {}
      BY DEF P!PersonasStart
    <3>2. asks = [p \in P!Names \X Keys |-> 0]
      BY DEF P!PersonasStart
    <3> QED BY <3>1, <3>2 DEF Cells
  <2>2. P!Idle \in Pick /\ P!Idle.at = "idle" /\ P!Idle.for.name = None /\ P!Idle.left = {} /\ P!Idle.chosen = {}
    <3>1. {} \in SUBSET [key : Keys, under : P!Names] /\ {} \in SUBSET Cells /\ {} \in SUBSET Nat
      OBVIOUS
    <3>2. P!Nobody \in People /\ P!Nobody.name = None
      BY <1>1, <1>2 DEF IsPersona
    <3>3. P!Idle = [at |-> "idle", for |-> P!Nobody, left |-> {}, chosen |-> {}, added |-> {}, stopped |-> FALSE]
      BY DEF P!Idle
    <3> QED BY <3>1, <3>2, <3>3 DEF Pick
  <2>3. DOMAIN picks = DOMAIN scene.setups /\ \A r \in DOMAIN picks : picks[r] = P!Idle
    BY <1>1, <2>1
  <2>4. \A r \in DOMAIN picks : PickFits(r, picks[r], queue, asks)
    BY <2>2, <2>3 DEF PickFits
  <2>5. Waiting(picks) = {}
    BY <2>2, <2>3 DEF Waiting
  <2>6. IsLine(queue, Waiting(picks))
    BY <2>1, <2>5, NobodyInLine
  <2>7. CountFits(asks, prompted, picks)
    BY <2>1 DEF CountFits
  <2> QED BY <2>1, <2>3, <2>4, <2>6, <2>7 DEF PicksFit
<1> QED BY <1>3, <1>4 DEF PersonaInvariant

\* Whatever switches the operator makes, whenever the host sets a model or refuses it, and
\* however the setups of the participants overlap: what is put aside is the operator's, and
\* the first setup in the line asks what nobody has asked.
THEOREM PersonaIsSound == Spec => [](part = "persona" => PersonaInvariant)
<1>1. Init => (part = "persona" => PersonaInvariant)
  <2> SUFFICES ASSUME Init, part = "persona" PROVE PersonaInvariant
    OBVIOUS
  <2>1. PICK s \in Scenes : P!PersonasStart(s, "new")
    BY DEF Init, P!PersonasInit
  <2> QED BY <2>1, PersonasBegin
<1>2. (part = "persona" => PersonaInvariant) /\ [Next]_vars => (part = "persona" => PersonaInvariant)'
  <2> SUFFICES ASSUME part = "persona" => PersonaInvariant, [Next]_vars, part' = "persona" PROVE PersonaInvariant'
    OBVIOUS
  <2>1. part = "persona" /\ (P!PersonasNext \/ UNCHANGED vars)
    BY DEF Next, vars, InCouncil, InFlow, InTurns, InCalls, InRuns, InCheckouts, InPersona, InRows, others
  <2>2. CASE P!PersonasNext
    BY <2>1, <2>2, PersonasNextKeeps
  <2>3. CASE UNCHANGED vars
    <3>1. UNCHANGED <<scene, shelf, session, active, ctl, flights, owner, own, mixed>>
      BY <2>3 DEF vars, restVars, personaVars
    <3>2. UNCHANGED <<prompted, queue, picks, filed, asks>>
      BY <2>3 DEF vars, restVars, personaVars
    <3>3. PersonaFits /\ PicksFit
      BY <2>1 DEF PersonaInvariant
    <3>4. PersonaFits'
      BY <3>1, <3>3, PersonaKeeps DEF PersonaFits
    <3>5. PicksFit'
      BY <3>1, <3>2, <3>3, PicksKeep DEF PicksFit
    <3> QED BY <3>4, <3>5 DEF PersonaInvariant
  <2> QED BY <2>1, <2>2, <2>3
<1> QED BY <1>1, <1>2, PTL DEF Spec

LEMMA PersonaImpliesKept == ASSUME PersonaInvariant PROVE P!PicksAreKept /\ P!SettingsAreRestored /\ P!OwnerIsTrue
<1>1. PersonaFits /\ PicksFit
  BY DEF PersonaInvariant
<1>2. P!PicksAreKept
  <2>1. asks \in [Cells -> {0, 1}] /\ \A c \in prompted : asks[c] = 1 \/ \E r \in DOMAIN picks : P!Kind(r) = "edit" /\ picks[r].for.name = c[1]
    BY <1>1 DEF PicksFit, CountFits
  <2>2. \A c \in DOMAIN asks : asks[c] <= 1
    BY <2>1
  <2> QED BY <1>1, <2>1, <2>2 DEF P!PicksAreKept, P!Setups, PicksFit
<1>3. P!SettingsAreRestored
  <2> SUFFICES ASSUME ~mixed, flights = <<>>
               PROVE  /\ active.def.model = "none" => ctl.model = own.model
                      /\ active.def.thinking = "none" => ctl.thinking = own.thinking
                      /\ ctl.tools = IF active.name = None THEN "all" ELSE P!Caps(active)
    BY DEF P!SettingsAreRestored
  <2>1. PutAside(ctl, own) /\ Rests(ctl, own, active)
    BY <1>1 DEF PersonaFits, SettingsFit
  <2>2. ctl.tools = IF active.name = None THEN "all" ELSE P!Caps(active)
    BY <2>1 DEF Rests, ToolsOf, P!Caps
  <2> QED BY <2>1, <2>2 DEF PutAside, Rests
<1>4. P!OwnerIsTrue
  <2>1. OwnerFits(owner, session, active)
    BY <1>1 DEF PersonaFits
  <2> QED BY <2>1 DEF P!OwnerIsTrue, OwnerFits
<1> QED BY <1>2, <1>3, <1>4

\* controller.ts:6, extension.ts:1617, memory-owner.ts:31: for every scene, what a persona
\* overrides is the operator's again when no switch is under way and none has overtaken
\* another, no participant is asked about twice or filed for another persona, and what
\* companions have heard is the persona in force.
THEOREM PersonaHolds == Spec => [](part = "persona" => LimitsHold /\ OutcomesAreTrue /\ SupervisorIsTold)
<1>1. (part = "persona" => PersonaInvariant) => (part = "persona" => LimitsHold /\ OutcomesAreTrue /\ SupervisorIsTold)
  BY PersonaImpliesKept DEF LimitsHold, OutcomesAreTrue, SupervisorIsTold
<1> QED BY <1>1, PersonaIsSound, PTL

---------------------------------------------------------------------------
(* The waves of a strategy *)

\* What a strategy asks for, and the legs of a wave.
Roles == {"worker", "voter", "critic", "arbiter", "splitter"}
LegStates == {"thunk", "line", "granted", "first", "retry", "settled", "fatal", "dropped"}
AskSet == [role : Roles, keep : Int]
LegSet == [role : Roles, keep : Int, st : LegStates, reply : S!Answers \cup {"none"}, used : Nat, again : BOOLEAN]

\* Every strategy there is, and what its waves have in common.
Names == {"fanout", "custom", "pair", "pipeline", "critic-loop", "debate", "council-rounds", "magi",
          "judge", "compete", "synthesize", "map"}
AllGood(w, k) == \A i \in 1..Len(w[k]) : w[k][i].reply \in S!Good
Panels(w, n) == \A k \in 1..Len(w) : Len(w[k]) = n

\* What the waves of each strategy look like, and what each went on from.
Shape(p, w) ==
  /\ p.name \in {"fanout", "custom", "debate"} => Len(w) <= 1 /\ Panels(w, p.n)
  /\ p.name = "pair" => Len(w) <= 1 /\ Panels(w, 2)
  /\ p.name = "pipeline" => Len(w) <= p.n /\ Panels(w, 1) /\ \A k \in 1..Len(w) : k < Len(w) => AllGood(w, k)
  /\ p.name = "critic-loop" => /\ Len(w) <= 2 * p.rounds /\ Panels(w, 1)
                               /\ \A k \in 1..Len(w) : k < Len(w) /\ k % 2 = 1 => AllGood(w, k)
  /\ p.name = "council-rounds" => Len(w) <= p.rounds /\ Panels(w, p.n)
  /\ p.name = "magi" => Len(w) <= 2 /\ Panels(w, p.n)
  /\ p.name \in {"judge", "compete", "synthesize"} =>
       /\ Len(w) <= 2 /\ (Len(w) >= 1 => Len(w[1]) = p.n)
       /\ Len(w) = 2 => Len(w[2]) = 1 /\ (p.name = "judge" => S!Texts(w) # {}) /\ (p.name = "compete" => S!Diffs(w) # {})
  /\ p.name = "map" =>
       /\ Len(w) <= 3 /\ (Len(w) >= 1 => Len(w[1]) = 1 /\ p.n > 0)
       /\ Len(w) >= 2 => Len(w[2]) <= S!Cap(p)
       /\ Len(w) = 3 => p.verify

\* How many children the current wave keeps for those after it.
KeepsFor(p, w, x) ==
  /\ x \in Nat
  /\ p.name \in {"fanout", "custom", "pair", "debate", "magi"} => x = 0
  /\ p.name = "pipeline" => x = p.n - Len(w)
  /\ p.name = "critic-loop" => x = 2 * p.rounds - Len(w)
  /\ p.name = "council-rounds" => x = (p.rounds - Len(w)) * p.n
  /\ p.name \in {"judge", "compete", "synthesize"} => x = IF Len(w) = 1 THEN 1 ELSE 0
  /\ p.name = "map" => /\ Len(w) = 1 => x = IF p.verify THEN 2 * S!Cap(p) ELSE S!Cap(p)
                       /\ Len(w) = 2 => x = IF p.verify THEN Len(w[2]) ELSE 0
                       /\ Len(w) = 3 => x = 0

\* A wave of so many legs that keep x each may follow.
MayFollow(p, w, crew, x) ==
  /\ crew \in Seq(AskSet) /\ KeepsFor(p, Append(w, S!Begun(crew)), x) /\ Shape(p, Append(w, S!Begun(crew)))
  /\ \A i \in 1..Len(crew) : crew[i].keep = x
  /\ w = <<>> /\ S!Needs(p) <= p.max => Len(crew) + x <= p.max
  /\ w # <<>> /\ p.name # "magi" => \A y : KeepsFor(p, w, y) => Len(crew) + x <= y
  /\ w # <<>> /\ p.name = "magi" => Len(w) = 1 /\ Len(crew) = p.n /\ S!Reflects(p, w)

\* So many numbers from one.
LEMMA OneToLen == \A n \in Nat : IsFiniteSet(1..n) /\ Cardinality(1..n) = n
<1> TAKE n \in Nat
<1>1. 1 \in Int /\ n \in Int /\ IsFiniteSet(1..n) /\ Cardinality(1..n) = IF 1 > n THEN 0 ELSE n - 1 + 1
  BY FS_Interval
<1> QED BY <1>1

\* The model's own count of a set is the library's.
LEMMA CountS == \A W : S!Cardinality(W) = Cardinality(W)
BY DEF S!Cardinality, Cardinality

LEMMA RolesAre == /\ "worker" \in Roles /\ "voter" \in Roles /\ "critic" \in Roles /\ "arbiter" \in Roles /\ "splitter" \in Roles
                   /\ 0 \in Int /\ 1 \in Int /\ 1 \in Nat /\ 2 \in Nat
BY DEF Roles

\* The asks of a crew.
LEMMA CrewIs ==
  ASSUME NEW n \in Nat, NEW role \in Roles, NEW keep_ \in Int
  PROVE  S!Crew(n, role, keep_) \in Seq(AskSet) /\ Len(S!Crew(n, role, keep_)) = n /\ \A i \in 1..n : S!Crew(n, role, keep_)[i].keep = keep_
BY DEF S!Crew, S!Ask, AskSet

\* The legs of a wave that begins.
LEMMA BegunIs ==
  ASSUME NEW crew \in Seq(AskSet)
  PROVE  /\ S!Begun(crew) \in Seq(LegSet) /\ Len(S!Begun(crew)) = Len(crew)
         /\ \A i \in 1..Len(crew) : S!Begun(crew)[i].keep = crew[i].keep /\ S!Begun(crew)[i].st = "thunk" /\ S!Begun(crew)[i].again = FALSE /\ S!Begun(crew)[i].used = 0
<1>1. \A i \in 1..Len(crew) : crew[i] \in AskSet
  OBVIOUS
<1>2. \A i \in 1..Len(crew) : S!Leg(crew[i]) \in LegSet /\ S!Leg(crew[i]).keep = crew[i].keep /\ S!Leg(crew[i]).st = "thunk" /\ S!Leg(crew[i]).again = FALSE /\ S!Leg(crew[i]).used = 0
  BY <1>1 DEF S!Leg, LegSet, AskSet, LegStates
<1>3. DOMAIN crew = 1..Len(crew) /\ Len(crew) \in Nat
  OBVIOUS
<1>4. S!Begun(crew) = [i \in 1..Len(crew) |-> S!Leg(crew[i])]
  BY <1>3 DEF S!Begun
<1>5. S!Begun(crew) \in [1..Len(crew) -> LegSet]
  BY <1>2, <1>4
<1>6. S!Begun(crew) \in Seq(LegSet) /\ Len(S!Begun(crew)) = Len(crew)
  BY <1>3, <1>5, SeqDef
<1> QED BY <1>2, <1>4, <1>6

\* What one more wave is like.
LEMMA OneMoreWave ==
  ASSUME NEW w \in Seq(Seq(LegSet)), NEW b \in Seq(LegSet)
  PROVE  /\ Append(w, b) \in Seq(Seq(LegSet)) /\ Len(Append(w, b)) = Len(w) + 1 /\ Append(w, b) # <<>>
         /\ \A k \in 1..Len(w) : Append(w, b)[k] = w[k]
         /\ Append(w, b)[Len(w) + 1] = b
         /\ \A n : Panels(Append(w, b), n) <=> Panels(w, n) /\ Len(b) = n
         /\ \A k \in 1..Len(w) : AllGood(Append(w, b), k) <=> AllGood(w, k)
<1> DEFINE v == Append(w, b)
<1>1. v \in Seq(Seq(LegSet)) /\ Len(v) = Len(w) + 1 /\ v # <<>> /\ (\A k \in 1..Len(w) : v[k] = w[k]) /\ v[Len(w) + 1] = b /\ Len(w) \in Nat
  <2>1. v \in Seq(Seq(LegSet)) /\ Len(v) = Len(w) + 1 /\ Len(w) \in Nat
    OBVIOUS
  <2>2. (\A k \in 1..Len(w) : v[k] = w[k]) /\ v[Len(w) + 1] = b
    OBVIOUS
  <2>3. v # <<>>
    BY <2>1
  <2> QED BY <2>1, <2>2, <2>3
<1> HIDE DEF v
<1>2. \A k \in 1..Len(w) : AllGood(v, k) <=> AllGood(w, k)
  BY <1>1 DEF AllGood
<1>3. \A n : Panels(v, n) <=> Panels(w, n) /\ Len(b) = n
  <2> TAKE n
  <2>1. \A k \in 1..Len(v) : k \in 1..Len(w) \/ k = Len(w) + 1
    BY <1>1
  <2>2. Len(w) + 1 \in 1..Len(v) /\ \A k \in 1..Len(w) : k \in 1..Len(v)
    BY <1>1
  <2> QED BY <1>1, <2>1, <2>2 DEF Panels
<1> QED BY <1>1, <1>2, <1>3 DEF v

\* A strategy that ends opens no wave.
LEMMA NoWaveHere ==
  /\ \A v : \A s \in S!Ends(v) : s.act = "end" /\ s.verdict = v
  /\ \A s \in S!Throws : s.act = "throw"
  /\ \A crew : \A s \in S!Opens(crew) : s.act = "wave" /\ s.asks = crew
BY DEF S!Ends, S!Throws, S!Opens

LEMMA RulesEnd ==
  ASSUME NEW p, NEW b, NEW at_, NEW least, NEW keep_, NEW billed, NEW s \in S!Rules(p, b, at_, least, keep_, billed)
  PROVE  s.act = "end"
<1>1. \A v : \A t \in S!Ends(v) : t.act = "end"
  BY NoWaveHere
<1>2. \E r \in S!Vote(b, p.unanimous, least, keep_) : \E v : s \in S!Ends(v)
  BY DEF S!Rules
<1> QED BY <1>1, <1>2

\* The greater and the lesser of two numbers.
LEMMA MaxOfTwo == \A a, b \in Int : S!Max({a, b}) = IF a >= b THEN a ELSE b
<1> TAKE a, b \in Int
<1>1. CASE a >= b
  <2>1. a \in {a, b} /\ \A y \in {a, b} : a >= y
    BY <1>1
  <2>2. \A x \in {a, b} : (\A y \in {a, b} : x >= y) => x = a
    BY <1>1
  <2>3. S!Max({a, b}) = a
    BY <2>1, <2>2 DEF S!Max
  <2> QED BY <1>1, <2>3
<1>2. CASE ~(a >= b)
  <2>1. b \in {a, b} /\ \A y \in {a, b} : b >= y
    BY <1>2
  <2>2. \A x \in {a, b} : (\A y \in {a, b} : x >= y) => x = b
    BY <1>2
  <2>3. S!Max({a, b}) = b
    BY <2>1, <2>2 DEF S!Max
  <2> QED BY <1>2, <2>3
<1> QED BY <1>1, <1>2

LEMMA MinOfTwo == \A a, b \in Int : S!Min({a, b}) = IF a <= b THEN a ELSE b
<1> TAKE a, b \in Int
<1>1. CASE a <= b
  <2>1. a \in {a, b} /\ \A y \in {a, b} : a <= y
    BY <1>1
  <2>2. \A x \in {a, b} : (\A y \in {a, b} : x <= y) => x = a
    BY <1>1
  <2>3. S!Min({a, b}) = a
    BY <2>1, <2>2 DEF S!Min
  <2> QED BY <1>1, <2>3
<1>2. CASE ~(a <= b)
  <2>1. b \in {a, b} /\ \A y \in {a, b} : b <= y
    BY <1>2
  <2>2. \A x \in {a, b} : (\A y \in {a, b} : x <= y) => x = b
    BY <1>2
  <2>3. S!Min({a, b}) = b
    BY <2>1, <2>2 DEF S!Min
  <2> QED BY <1>2, <2>3
<1> QED BY <1>1, <1>2

\* The first wave of a strategy, or one more: what it may be.
LEMMA Offers ==
  ASSUME NEW n \in Nat, NEW role \in Roles, NEW x \in Int, NEW s \in S!Opens(S!Crew(n, role, x))
  PROVE  /\ s.asks \in Seq(AskSet) /\ Len(s.asks) = n /\ (\A i \in 1..n : s.asks[i].keep = x)
         /\ S!Begun(s.asks) \in Seq(LegSet) /\ Len(S!Begun(s.asks)) = n
<1> DEFINE c == S!Crew(n, role, x)
<1>1. c \in Seq(AskSet) /\ Len(c) = n /\ \A i \in 1..n : c[i].keep = x
  BY CrewIs
<1>2. s.asks = c
  BY NoWaveHere
<1> HIDE DEF c
<1>3. S!Begun(c) \in Seq(LegSet) /\ Len(S!Begun(c)) = Len(c)
  BY <1>1, BegunIs
<1> QED BY <1>1, <1>2, <1>3

\* The legs of one crew, and of two.
LEMMA OfOne ==
  ASSUME NEW role \in Roles, NEW x \in Int, NEW s \in S!Opens(S!Crew(1, role, x))
  PROVE  /\ s.asks \in Seq(AskSet) /\ Len(s.asks) = 1 /\ s.asks[1].keep = x
         /\ S!Begun(s.asks) \in Seq(LegSet) /\ Len(S!Begun(s.asks)) = 1
<1> DEFINE one == 1
<1>1. one \in Nat
  OBVIOUS
<1>2. s \in S!Opens(S!Crew(one, role, x))
  OBVIOUS
<1> HIDE DEF one
<1>3. s.asks \in Seq(AskSet) /\ Len(s.asks) = one /\ (\A i \in 1..one : s.asks[i].keep = x) /\ S!Begun(s.asks) \in Seq(LegSet) /\ Len(S!Begun(s.asks)) = one
  BY <1>1, <1>2, Offers
<1> QED BY <1>3 DEF one

LEMMA OfTwo ==
  ASSUME NEW s \in S!Opens(S!Crew(2, "worker", 0))
  PROVE  /\ s.asks \in Seq(AskSet) /\ Len(s.asks) = 2 /\ (\A i \in 1..2 : s.asks[i].keep = 0)
         /\ S!Begun(s.asks) \in Seq(LegSet) /\ Len(S!Begun(s.asks)) = 2
<1> DEFINE two == 2
           zero == 0
           role == "worker"
<1>1. two \in Nat /\ zero \in Int /\ role \in Roles
  BY DEF Roles
<1>2. s \in S!Opens(S!Crew(two, role, zero))
  OBVIOUS
<1> HIDE DEF two, zero, role
<1>3. s.asks \in Seq(AskSet) /\ Len(s.asks) = two /\ (\A i \in 1..two : s.asks[i].keep = zero) /\ S!Begun(s.asks) \in Seq(LegSet) /\ Len(S!Begun(s.asks)) = two
  BY <1>1, <1>2, Offers
<1> QED BY <1>3 DEF two, zero

LEMMA PanelsGrow ==
  ASSUME NEW w \in Seq(Seq(LegSet)), NEW b \in Seq(LegSet), NEW n \in Nat, Panels(w, n), Len(b) = n
  PROVE  Len(Append(w, b)) = Len(w) + 1 /\ Panels(Append(w, b), n)
BY OneMoreWave

\* One lemma for each strategy: a wave it opens may follow those before it.
LEMMA FanoutFollows ==
  ASSUME NEW p \in Plans, p.name \in {"fanout", "custom"}, NEW w \in Seq(Seq(LegSet)), Shape(p, w),
         NEW s \in S!Fanout(p, w), s.act = "wave"
  PROVE  \E x \in Nat : MayFollow(p, w, s.asks, x)
<1>1. p.n \in Nat
  BY PlansAreCounted
<1>2. w = <<>> /\ s \in S!Opens(S!Crew(p.n, "worker", 0))
  BY <1>1, NoWaveHere DEF S!Fanout
<1>3. s.asks \in Seq(AskSet) /\ Len(s.asks) = p.n /\ (\A i \in 1..p.n : s.asks[i].keep = 0) /\ S!Begun(s.asks) \in Seq(LegSet) /\ Len(S!Begun(s.asks)) = p.n
  BY <1>1, <1>2, RolesAre, Offers
<1> DEFINE v == Append(w, S!Begun(s.asks))
<1>4. Len(v) = 1 /\ Panels(v, p.n)
  <2>1. Panels(w, p.n) /\ Len(w) = 0
    BY <1>2 DEF Panels
  <2> DEFINE b == S!Begun(s.asks)
  <2>2. b \in Seq(LegSet) /\ Len(b) = p.n
    BY <1>3
  <2> HIDE DEF b
  <2>3. Len(Append(w, b)) = Len(w) + 1 /\ Panels(Append(w, b), p.n)
    BY <1>1, <2>1, <2>2, PanelsGrow
  <2> QED BY <2>1, <2>3 DEF b
<1> HIDE DEF v
<1>5. S!Needs(p) = p.n
  BY DEF S!Needs
<1>6. KeepsFor(p, v, 0) /\ Shape(p, v)
  BY <1>4 DEF KeepsFor, Shape
<1>7. MayFollow(p, w, s.asks, 0)
  BY <1>1, <1>2, <1>3, <1>5, <1>6 DEF MayFollow, v
<1> QED BY <1>7

LEMMA PairFollows ==
  ASSUME NEW p \in Plans, p.name = "pair", NEW w \in Seq(Seq(LegSet)), Shape(p, w),
         NEW s \in S!Pair(p, w), s.act = "wave"
  PROVE  \E x \in Nat : MayFollow(p, w, s.asks, x)
<1>1. p.n \in Nat
  BY PlansAreCounted
<1>2. w = <<>> /\ s \in S!Opens(S!Crew(2, "worker", 0))
  BY <1>1, NoWaveHere DEF S!Pair
<1>3. s.asks \in Seq(AskSet) /\ Len(s.asks) = 2 /\ (\A i \in 1..2 : s.asks[i].keep = 0) /\ S!Begun(s.asks) \in Seq(LegSet) /\ Len(S!Begun(s.asks)) = 2
  BY <1>1, <1>2, OfTwo
<1> DEFINE v == Append(w, S!Begun(s.asks))
<1>4. Len(v) = 1 /\ Panels(v, 2)
  <2>1. Panels(w, 2) /\ Len(w) = 0
    BY <1>2 DEF Panels
  <2> DEFINE b == S!Begun(s.asks)
  <2>2. b \in Seq(LegSet) /\ Len(b) = 2
    BY <1>3
  <2> HIDE DEF b
  <2>3. Len(Append(w, b)) = Len(w) + 1 /\ Panels(Append(w, b), 2)
    BY <1>1, <2>1, <2>2, PanelsGrow
  <2> QED BY <2>1, <2>3 DEF b
<1> HIDE DEF v
<1>5. S!Needs(p) = 2
  BY DEF S!Needs
<1>6. KeepsFor(p, v, 0) /\ Shape(p, v)
  BY <1>4 DEF KeepsFor, Shape
<1>7. MayFollow(p, w, s.asks, 0)
  BY <1>1, <1>2, <1>3, <1>5, <1>6 DEF MayFollow, v
<1> QED BY <1>7

LEMMA DebateFollows ==
  ASSUME NEW p \in Plans, p.name = "debate", NEW w \in Seq(Seq(LegSet)), Shape(p, w), NEW halted \in BOOLEAN,
         NEW s \in S!Debate(p, w, halted), s.act = "wave"
  PROVE  \E x \in Nat : MayFollow(p, w, s.asks, x)
<1>1. p.n \in Nat
  BY PlansAreCounted
<1>2. w = <<>> /\ s \in S!Opens(S!Crew(p.n, "voter", 0))
  <2>1. \A b, at_, least, keep_, billed : \A t \in S!Rules(p, b, at_, least, keep_, billed) : t.act = "end"
    BY RulesEnd
  <2>2. \A from, billed : \A t \in S!Ends(S!Cancels(from, billed)) : t.act = "end"
    BY NoWaveHere
  <2> QED BY <1>1, <2>1, <2>2, NoWaveHere DEF S!Debate
<1>3. s.asks \in Seq(AskSet) /\ Len(s.asks) = p.n /\ (\A i \in 1..p.n : s.asks[i].keep = 0) /\ S!Begun(s.asks) \in Seq(LegSet) /\ Len(S!Begun(s.asks)) = p.n
  BY <1>1, <1>2, RolesAre, Offers
<1> DEFINE v == Append(w, S!Begun(s.asks))
<1>4. Len(v) = 1 /\ Panels(v, p.n)
  <2>1. Panels(w, p.n) /\ Len(w) = 0
    BY <1>2 DEF Panels
  <2> DEFINE b == S!Begun(s.asks)
  <2>2. b \in Seq(LegSet) /\ Len(b) = p.n
    BY <1>3
  <2> HIDE DEF b
  <2>3. Len(Append(w, b)) = Len(w) + 1 /\ Panels(Append(w, b), p.n)
    BY <1>1, <2>1, <2>2, PanelsGrow
  <2> QED BY <2>1, <2>3 DEF b
<1> HIDE DEF v
<1>5. S!Needs(p) = p.n
  BY DEF S!Needs
<1>6. KeepsFor(p, v, 0) /\ Shape(p, v)
  BY <1>4 DEF KeepsFor, Shape
<1>7. MayFollow(p, w, s.asks, 0)
  BY <1>1, <1>2, <1>3, <1>5, <1>6 DEF MayFollow, v
<1> QED BY <1>7

\* A pipeline goes on only from a step that answered.
LEMMA PipelineFollows ==
  ASSUME NEW p \in Plans, p.name = "pipeline", NEW w \in Seq(Seq(LegSet)), Shape(p, w), NEW halted \in BOOLEAN,
         NEW s \in S!Pipeline(p, w, halted), s.act = "wave"
  PROVE  \E x \in Nat : MayFollow(p, w, s.asks, x)
<1> DEFINE k == Len(w)
           x == p.n - k - 1
           v == Append(w, S!Begun(s.asks))
<1>1. p.n \in Nat /\ k \in Nat /\ k <= p.n /\ (w = <<>> <=> k = 0)
  BY PlansAreCounted DEF Shape
<1>2. s \in S!Opens(S!Crew(1, "worker", x)) /\ p.n > 0 /\ (k > 0 => S!OkLegs(w, k) # {}) /\ ~(k > 0 /\ k = p.n)
  <2>1. \A from, billed : \A t \in S!Ends(S!Cancels(from, billed)) : t.act = "end"
    BY NoWaveHere
  <2>2. \A c, from, billed : \A t \in S!Ends(S!Fails(c, from, billed)) : t.act = "end"
    BY NoWaveHere
  <2>3. \A from, billed : \A t \in S!Ends(S!Succeeds(from, billed)) : t.act = "end"
    BY NoWaveHere
  <2>4. \A t \in S!Throws : t.act = "throw"
    BY NoWaveHere
  <2> QED BY <1>1, <2>1, <2>2, <2>3, <2>4 DEF S!Pipeline
<1>3. k < p.n /\ x \in Nat
  BY <1>1, <1>2
<1> HIDE DEF x
<1>4. s.asks \in Seq(AskSet) /\ Len(s.asks) = 1 /\ (\A i \in 1..1 : s.asks[i].keep = x) /\ S!Begun(s.asks) \in Seq(LegSet) /\ Len(S!Begun(s.asks)) = 1
  BY <1>2, <1>3, RolesAre, OfOne
<1>5. Panels(w, 1) /\ \A j \in 1..k : j < k => AllGood(w, j)
  BY DEF Shape
<1>6. k > 0 => AllGood(w, k)
  <2> SUFFICES ASSUME k > 0 PROVE AllGood(w, k)
    OBVIOUS
  <2>1. Len(w[k]) = 1 /\ w[k] \in Seq(LegSet)
    BY <1>1, <1>5 DEF Panels
  <2>2. PICK i \in DOMAIN w[k] : w[k][i].reply \in S!Good
    BY <1>2 DEF S!OkLegs, S!IsOk
  <2> QED BY <2>1, <2>2 DEF AllGood
<1>7. Len(v) = k + 1 /\ Panels(v, 1) /\ \A j \in 1..k : AllGood(v, j) <=> AllGood(w, j)
  BY <1>4, <1>5, OneMoreWave
<1> HIDE DEF v
<1>8. KeepsFor(p, v, x)
  BY <1>1, <1>3, <1>7 DEF KeepsFor, x
<1>9. Shape(p, v)
  <2>1. \A j \in 1..(k + 1) : j < k + 1 => AllGood(v, j)
    BY <1>1, <1>5, <1>6, <1>7
  <2> QED BY <1>1, <1>3, <1>7, <2>1 DEF Shape
<1>10. S!Needs(p) = p.n
  BY DEF S!Needs
<1>11. \A y : KeepsFor(p, w, y) => 1 + x <= y
  BY <1>1 DEF KeepsFor, x
<1>12. MayFollow(p, w, s.asks, x)
  BY <1>1, <1>3, <1>4, <1>8, <1>9, <1>10, <1>11 DEF MayFollow, v, x
<1> QED BY <1>3, <1>12

\* Of two waves to a round, the odd ones are the first.
LEMMA Halves ==
  ASSUME NEW k \in Nat
  PROVE  /\ k \div 2 \in Nat
         /\ k % 2 = 1 => 2 * (k \div 2) = k - 1
         /\ k % 2 # 1 => 2 * (k \div 2) = k
OBVIOUS

\* The children a critic loop has left, at a critique and at a revision.
LEMMA Critiques ==
  \A r, k, h \in Nat : 2 * h = k - 1 /\ k <= 2 * r => 2 * r - k - 1 = 2 * (r - h - 1) /\ k < 2 * r
OBVIOUS

LEMMA Revisions ==
  \A r, k, h \in Nat : 2 * h = k /\ h < r => 2 * r - k - 1 = 2 * (r - h) - 1 /\ k < 2 * r /\ 2 * (r - h) - 1 \in Nat
OBVIOUS

\* A critic loop keeps a child for each critique and each revision still to come.
LEMMA CriticLoopFollows ==
  ASSUME NEW p \in Plans, p.name = "critic-loop", NEW w \in Seq(Seq(LegSet)), Shape(p, w), NEW halted \in BOOLEAN,
         NEW s \in S!CriticLoop(p, w, halted), s.act = "wave"
  PROVE  \E x \in Nat : MayFollow(p, w, s.asks, x)
<1> DEFINE k == Len(w)
           x == 2 * p.rounds - k - 1
           v == Append(w, S!Begun(s.asks))
<1>1. p.rounds \in Nat /\ p.rounds > 0 /\ k \in Nat /\ k <= 2 * p.rounds /\ (w = <<>> <=> k = 0) /\ Panels(w, 1)
  BY PlansAreCounted DEF Shape
<1>2. \A a, b \in Int : S!Max({a, b}) = IF a >= b THEN a ELSE b
  BY MaxOfTwo
<1>3. \/ k = 0 /\ s \in S!Opens(S!Crew(1, "worker", 2 * p.rounds - 1))
      \/ k % 2 = 1 /\ w[k][1].reply \in S!Good /\ s \in S!Opens(S!Crew(1, "critic", 2 * (p.rounds - (k \div 2) - 1)))
      \/ /\ k # 0 /\ k % 2 # 1 /\ ~((k \div 2) >= p.rounds)
         /\ s \in S!Opens(S!Crew(1, "worker", S!Max({0, 2 * (p.rounds - (k \div 2)) - 1})))
  <2>1. \A from, billed : \A t \in S!Ends(S!Cancels(from, billed)) : t.act = "end"
    BY NoWaveHere
  <2>2. \A c, from, billed : \A t \in S!Ends(S!Fails(c, from, billed)) : t.act = "end"
    BY NoWaveHere
  <2>3. \A from, billed : \A t \in S!Ends(S!Succeeds(from, billed)) : t.act = "end"
    BY NoWaveHere
  <2> QED BY <2>1, <2>2, <2>3 DEF S!CriticLoop
<1>4. x \in Int
  BY <1>1
<1>5. \E role \in Roles : s \in S!Opens(S!Crew(1, role, x)) /\ k < 2 * p.rounds
  <2>1. CASE k = 0 /\ s \in S!Opens(S!Crew(1, "worker", 2 * p.rounds - 1))
    <3>1. x = 2 * p.rounds - 1
      BY <1>1, <2>1
    <3> QED BY <1>1, <2>1, <3>1, RolesAre
  <2>2. CASE k % 2 = 1 /\ s \in S!Opens(S!Crew(1, "critic", 2 * (p.rounds - (k \div 2) - 1)))
    <3> DEFINE h == k \div 2
    <3>0. h \in Nat /\ 2 * h = k - 1
      <4>1. k \in Nat /\ k % 2 = 1
        BY <1>1, <2>2
      <4> HIDE DEF k
      <4> QED BY <4>1, Halves
    <3>1. x = 2 * (p.rounds - h - 1) /\ k < 2 * p.rounds
      <4> DEFINE r == p.rounds
      <4>1. r \in Nat /\ k \in Nat /\ h \in Nat /\ 2 * h = k - 1 /\ k <= 2 * r
        BY <1>1, <3>0
      <4>2. x = 2 * r - k - 1
        OBVIOUS
      <4> HIDE DEF r, k, h, x
      <4>3. 2 * r - k - 1 = 2 * (r - h - 1) /\ k < 2 * r
        BY <4>1, Critiques
      <4> QED BY <4>2, <4>3 DEF r
    <3> QED BY <2>2, <3>1, RolesAre
  <2>3. CASE /\ k # 0 /\ k % 2 # 1 /\ ~((k \div 2) >= p.rounds)
             /\ s \in S!Opens(S!Crew(1, "worker", S!Max({0, 2 * (p.rounds - (k \div 2)) - 1})))
    <3> DEFINE a == 2 * (p.rounds - (k \div 2)) - 1
    <3>0. (k \div 2) \in Nat /\ 2 * (k \div 2) = k /\ k \div 2 < p.rounds
      <4>1. k \in Nat /\ k % 2 # 1 /\ ~((k \div 2) >= p.rounds)
        BY <1>1, <2>3
      <4>2. p.rounds \in Nat
        BY <1>1
      <4> HIDE DEF k
      <4> QED BY <4>1, <4>2, Halves
    <3>1. a \in Int /\ a >= 0 /\ x = a /\ k < 2 * p.rounds
      <4> DEFINE r == p.rounds
                 h == k \div 2
      <4>1. r \in Nat /\ k \in Nat /\ h \in Nat /\ 2 * h = k /\ h < r
        BY <1>1, <3>0
      <4>2. x = 2 * r - k - 1 /\ a = 2 * (r - h) - 1
        OBVIOUS
      <4> HIDE DEF r, k, h, x, a
      <4>3. 2 * r - k - 1 = 2 * (r - h) - 1 /\ k < 2 * r /\ 2 * (r - h) - 1 \in Nat
        BY <4>1, Revisions
      <4> QED BY <4>2, <4>3 DEF r
    <3>2. S!Max({0, a}) = IF 0 >= a THEN 0 ELSE a
      <4> HIDE DEF a
      <4> QED BY <1>2, <3>1
    <3>3. S!Max({0, a}) = x
      BY <3>1, <3>2
    <3> QED BY <2>3, <3>1, <3>3, RolesAre
  <2> QED BY <1>3, <2>1, <2>2, <2>3
<1>6. x \in Nat
  BY <1>1, <1>5
<1> HIDE DEF x
<1>7. s.asks \in Seq(AskSet) /\ Len(s.asks) = 1 /\ s.asks[1].keep = x /\ S!Begun(s.asks) \in Seq(LegSet) /\ Len(S!Begun(s.asks)) = 1
  BY <1>4, <1>5, OfOne
<1>8. Len(v) = k + 1 /\ Panels(v, 1) /\ \A j \in 1..k : AllGood(v, j) <=> AllGood(w, j)
  <2> DEFINE b == S!Begun(s.asks)
  <2>1. b \in Seq(LegSet) /\ Len(b) = 1
    BY <1>7
  <2> HIDE DEF b
  <2>2. Len(Append(w, b)) = Len(w) + 1 /\ Panels(Append(w, b), 1) /\ \A j \in 1..Len(w) : AllGood(Append(w, b), j) <=> AllGood(w, j)
    <3>1. w \in Seq(Seq(LegSet)) /\ Panels(w, 1)
      BY <1>1
    <3>2. Len(Append(w, b)) = Len(w) + 1 /\ \A j \in 1..Len(w) : AllGood(Append(w, b), j) <=> AllGood(w, j)
      BY <2>1, <3>1, OneMoreWave
    <3>3. Panels(Append(w, b), 1)
      <4> DEFINE one == 1
      <4>1. one \in Nat /\ Panels(w, one) /\ Len(b) = one
        BY <2>1, <3>1
      <4> HIDE DEF one
      <4>2. Panels(Append(w, b), one)
        BY <2>1, <3>1, <4>1, PanelsGrow
      <4> QED BY <4>2 DEF one
    <3> QED BY <3>2, <3>3
  <2> QED BY <2>2 DEF b
<1>9. k % 2 = 1 => AllGood(w, k)
  <2> SUFFICES ASSUME k % 2 = 1 PROVE AllGood(w, k)
    OBVIOUS
  <2>1. w[k][1].reply \in S!Good
    BY <1>3
  <2>2. k \in 1..Len(w)
    BY <1>1
  <2>3. Len(w[k]) = 1
    BY <1>1, <2>2 DEF Panels
  <2> QED BY <2>1, <2>3 DEF AllGood
<1> HIDE DEF v
<1>10. KeepsFor(p, v, x)
  <2>1. x = 2 * p.rounds - Len(v) /\ x \in Nat
    <3> DEFINE r == p.rounds
               l == Len(v)
    <3>1. r \in Nat /\ k \in Nat /\ l = k + 1
      BY <1>1, <1>8
    <3>2. x = 2 * r - k - 1
      BY DEF x
    <3> HIDE DEF r, k, l
    <3>3. x = 2 * r - l
      BY <3>1, <3>2
    <3> QED BY <1>6, <3>3 DEF r, l
  <2> HIDE DEF k
  <2> QED BY <2>1 DEF KeepsFor
<1>11. Shape(p, v)
  <2>1. \A j \in 1..k : j < k /\ j % 2 = 1 => AllGood(w, j)
    BY DEF Shape
  <2>2. \A j \in 1..(k + 1) : j < k + 1 /\ j % 2 = 1 => AllGood(v, j)
    BY <1>1, <1>8, <1>9, <2>1
  <2>3. Len(v) <= 2 * p.rounds
    BY <1>1, <1>5, <1>8
  <2> QED BY <1>8, <2>2, <2>3 DEF Shape
<1>12. S!Needs(p) = 2 * p.rounds
  BY DEF S!Needs
<1>13. \A y : KeepsFor(p, w, y) => 1 + x <= y
  BY <1>1 DEF KeepsFor, x
<1>14. k = 0 => 1 + x = 2 * p.rounds
  BY <1>1 DEF x
<1>15. MayFollow(p, w, s.asks, x)
  BY <1>1, <1>7, <1>10, <1>11, <1>12, <1>13, <1>14 DEF MayFollow, v
<1> QED BY <1>6, <1>15

\* The children of the rounds left are those of this round and of the rounds after it.
LEMMA OneRoundLess == \A a, b \in Nat : a > 0 => (a - 1) * b \in Nat /\ b + (a - 1) * b = a * b
<1> TAKE a, b \in Nat
<1> SUFFICES ASSUME a > 0 PROVE (a - 1) * b \in Nat /\ b + (a - 1) * b = a * b
  OBVIOUS
<1>1. PICK c \in Nat : a = c + 1
  <2>1. a - 1 \in Nat /\ a = (a - 1) + 1
    OBVIOUS
  <2> QED BY <2>1
<1>2. c * b \in Nat /\ (c + 1) * b = c * b + b
  OBVIOUS
<1> QED BY <1>1, <1>2

\* A council keeps a panel for each round still to come.
LEMMA CouncilFollows ==
  ASSUME NEW p \in Plans, p.name = "council-rounds", NEW w \in Seq(Seq(LegSet)), Shape(p, w), NEW halted \in BOOLEAN,
         NEW s \in S!Council(p, w, halted), s.act = "wave"
  PROVE  \E x \in Nat : MayFollow(p, w, s.asks, x)
<1> DEFINE k == Len(w)
           x == (p.rounds - k - 1) * p.n
           v == Append(w, S!Begun(s.asks))
<1>1. p.rounds \in Nat /\ p.rounds > 0 /\ p.n \in Nat /\ k \in Nat /\ k <= p.rounds /\ (w = <<>> <=> k = 0) /\ Panels(w, p.n)
  BY PlansAreCounted DEF Shape
<1>2. s \in S!Opens(S!Crew(p.n, "voter", (p.rounds - k - 1) * p.n)) /\ (k = 0 \/ k # p.rounds)
  <2>1. \A b, at_, least, keep_, billed : \A t \in S!Rules(p, b, at_, least, keep_, billed) : t.act = "end"
    BY RulesEnd
  <2>2. \A from, billed : \A t \in S!Ends(S!Cancels(from, billed)) : t.act = "end"
    BY NoWaveHere
  <2>3. \A t \in S!Throws : t.act = "throw"
    BY NoWaveHere
  <2> QED BY <1>1, <2>1, <2>2, <2>3 DEF S!Council
<1>3. k < p.rounds
  BY <1>1, <1>2
<1>4. x \in Nat /\ p.n + x = (p.rounds - k) * p.n
  <2>1. p.rounds - k \in Nat /\ p.rounds - k > 0
    BY <1>1, <1>3
  <2> DEFINE a == p.rounds - k
  <2>2. \A b \in Nat : (a - 1) * b \in Nat /\ b + (a - 1) * b = a * b
    <3>1. a \in Nat /\ a > 0
      BY <2>1
    <3> HIDE DEF a
    <3> QED BY <3>1, OneRoundLess
  <2> QED BY <1>1, <2>2
<1>5. s \in S!Opens(S!Crew(p.n, "voter", x))
  BY <1>2
<1>6. (p.rounds - (k + 1)) * p.n = x
  <2>1. p.rounds - (k + 1) = p.rounds - k - 1
    BY <1>1
  <2> QED BY <2>1
<1> HIDE DEF x
<1>7. s.asks \in Seq(AskSet) /\ Len(s.asks) = p.n /\ (\A i \in 1..p.n : s.asks[i].keep = x) /\ S!Begun(s.asks) \in Seq(LegSet) /\ Len(S!Begun(s.asks)) = p.n
  BY <1>1, <1>4, <1>5, RolesAre, Offers
<1>8. Len(v) = k + 1 /\ Panels(v, p.n)
  <2> DEFINE b == S!Begun(s.asks)
  <2>2. b \in Seq(LegSet) /\ Len(b) = p.n
    BY <1>7
  <2> HIDE DEF b
  <2>3. Len(Append(w, b)) = Len(w) + 1 /\ Panels(Append(w, b), p.n)
    BY <1>1, <2>2, PanelsGrow
  <2> QED BY <2>3 DEF b
<1> HIDE DEF v
<1>9. KeepsFor(p, v, x)
  BY <1>4, <1>6, <1>8 DEF KeepsFor
<1>10. Shape(p, v)
  BY <1>1, <1>3, <1>8 DEF Shape
<1>11. S!Needs(p) = p.rounds * p.n
  BY DEF S!Needs
<1>12. \A y : KeepsFor(p, w, y) => p.n + x <= y
  BY <1>1, <1>4 DEF KeepsFor
<1>13. k = 0 => p.n + x = p.rounds * p.n
  <2> SUFFICES ASSUME k = 0 PROVE p.n + x = p.rounds * p.n
    OBVIOUS
  <2>1. p.rounds - k = p.rounds
    BY <1>1
  <2> QED BY <1>4, <2>1
<1>14. w = <<>> /\ S!Needs(p) <= p.max => p.n + x <= p.max
  BY <1>1, <1>11, <1>13
<1>15. MayFollow(p, w, s.asks, x)
  <2>1. p.name # "magi"
    OBVIOUS
  <2> QED BY <1>1, <1>7, <1>9, <1>10, <1>12, <1>14, <2>1 DEF MayFollow, v
<1> QED BY <1>4, <1>15

\* The magi keep nothing: a second look is begun only when it can be paid for.
LEMMA MagiFollows ==
  ASSUME NEW p \in Plans, p.name = "magi", NEW w \in Seq(Seq(LegSet)), Shape(p, w), NEW halted \in BOOLEAN,
         NEW s \in S!Magi(p, w, halted), s.act = "wave"
  PROVE  \E x \in Nat : MayFollow(p, w, s.asks, x)
<1> DEFINE k == Len(w)
           v == Append(w, S!Begun(s.asks))
<1>1. p.n \in Nat /\ k \in Nat /\ k <= 2 /\ (w = <<>> <=> k = 0) /\ Panels(w, p.n)
  BY PlansAreCounted DEF Shape
<1>2. s \in S!Opens(S!Crew(p.n, "voter", 0)) /\ (k = 0 \/ (k = 1 /\ S!Reflects(p, w)))
  <2>1. \A b, at_, least, keep_, billed : \A t \in S!Rules(p, b, at_, least, keep_, billed) : t.act = "end"
    BY RulesEnd
  <2>2. \A from, billed : \A t \in S!Ends(S!Cancels(from, billed)) : t.act = "end"
    BY NoWaveHere
  <2>3. \A t \in S!Throws : t.act = "throw"
    BY NoWaveHere
  <2> QED BY <1>1, <2>1, <2>2, <2>3 DEF S!Magi
<1>3. s.asks \in Seq(AskSet) /\ Len(s.asks) = p.n /\ (\A i \in 1..p.n : s.asks[i].keep = 0) /\ S!Begun(s.asks) \in Seq(LegSet) /\ Len(S!Begun(s.asks)) = p.n
  BY <1>1, <1>2, RolesAre, Offers
<1>4. Len(v) = k + 1 /\ Panels(v, p.n)
  <2> DEFINE b == S!Begun(s.asks)
  <2>2. b \in Seq(LegSet) /\ Len(b) = p.n
    BY <1>3
  <2> HIDE DEF b
  <2>3. Len(Append(w, b)) = Len(w) + 1 /\ Panels(Append(w, b), p.n)
    BY <1>1, <2>2, PanelsGrow
  <2> QED BY <2>3 DEF b
<1> HIDE DEF v
<1>5. S!Needs(p) = p.n
  BY DEF S!Needs
<1>6. KeepsFor(p, v, 0) /\ Shape(p, v)
  <2>1. Len(v) <= 2
    <3>1. k = 0 \/ k = 1
      BY <1>2
    <3>2. k <= 1 /\ k \in Nat
      BY <3>1
    <3> QED BY <1>4, <3>2
  <2>2. KeepsFor(p, v, 0)
    BY DEF KeepsFor
  <2> QED BY <1>4, <2>1, <2>2 DEF Shape
<1>7. MayFollow(p, w, s.asks, 0)
  BY <1>1, <1>2, <1>3, <1>5, <1>6 DEF MayFollow, v
<1> QED BY <1>7

\* One more wave of so many legs, whose crew is hidden behind its asks.
LEMMA WaveAdds ==
  ASSUME NEW w \in Seq(Seq(LegSet)), NEW n \in Nat, NEW role \in Roles, NEW x \in Int, NEW s \in S!Opens(S!Crew(n, role, x))
  PROVE  /\ s.asks \in Seq(AskSet) /\ Len(s.asks) = n /\ \A i \in 1..n : s.asks[i].keep = x
         /\ Append(w, S!Begun(s.asks)) \in Seq(Seq(LegSet)) /\ Len(Append(w, S!Begun(s.asks))) = Len(w) + 1
         /\ \A k \in 1..Len(w) : Append(w, S!Begun(s.asks))[k] = w[k]
         /\ Len(Append(w, S!Begun(s.asks))[Len(w) + 1]) = n
<1> DEFINE b == S!Begun(s.asks)
<1>1. s.asks \in Seq(AskSet) /\ Len(s.asks) = n /\ (\A i \in 1..n : s.asks[i].keep = x) /\ b \in Seq(LegSet) /\ Len(b) = n
  BY Offers
<1> HIDE DEF b
<1>2. /\ Append(w, b) \in Seq(Seq(LegSet)) /\ Len(Append(w, b)) = Len(w) + 1
      /\ \A k \in 1..Len(w) : Append(w, b)[k] = w[k]
      /\ Append(w, b)[Len(w) + 1] = b
  BY <1>1, OneMoreWave
<1> QED BY <1>1, <1>2 DEF b

\* A panel's asks, then a wave of one leg for what the panel came to.
LEMMA JudgedFollows ==
  ASSUME NEW p \in Plans, p.name \in {"judge", "compete"}, NEW w \in Seq(Seq(LegSet)), Shape(p, w), NEW halted \in BOOLEAN,
         NEW least \in Nat, NEW entries, entries = IF p.name = "judge" THEN S!Texts(w) ELSE S!Diffs(w),
         NEW s \in S!Judged(p, w, halted, least, entries), s.act = "wave"
  PROVE  \E x \in Nat : MayFollow(p, w, s.asks, x)
<1> DEFINE k == Len(w)
           v == Append(w, S!Begun(s.asks))
<1>1. p.n \in Nat /\ k \in Nat /\ k <= 2 /\ (w = <<>> <=> k = 0) /\ (k >= 1 => Len(w[1]) = p.n)
  BY PlansAreCounted DEF Shape
<1>2. \/ k = 0 /\ s \in S!Opens(S!Crew(p.n, "voter", 1))
      \/ k = 1 /\ entries # {} /\ s \in S!Opens(S!Crew(1, "arbiter", 0))
  <2>1. \A from, billed : \A t \in S!Ends(S!Cancels(from, billed)) : t.act = "end"
    BY NoWaveHere
  <2>2. \A c, from, billed : \A t \in S!Ends(S!Fails(c, from, billed)) : t.act = "end"
    BY NoWaveHere
  <2>3. \A leg, ok, cause, billed : \A t \in S!Ends(S!OrElse(leg, ok, cause, billed)) : t.act = "end"
    BY NoWaveHere
  <2>4. \A t \in S!Throws : t.act = "throw"
    BY NoWaveHere
  <2> DEFINE U == UNION {S!Ends(S!OrElse(<<IF i = 0 THEN 0 ELSE 1, i>>, i # 0, "contract", S!LegsOf(w))) :
                           i \in S!Picks(w[2][1].reply, entries)}
  <2>5. \A t \in U : t.act = "end"
    <3> SUFFICES ASSUME NEW t \in U PROVE t.act = "end"
      OBVIOUS
    <3>1. PICK i \in S!Picks(w[2][1].reply, entries) :
            t \in S!Ends(S!OrElse(<<IF i = 0 THEN 0 ELSE 1, i>>, i # 0, "contract", S!LegsOf(w)))
      OBVIOUS
    <3> DEFINE from == <<IF i = 0 THEN 0 ELSE 1, i>>
               ok == i # 0
               vv == S!OrElse(from, ok, "contract", S!LegsOf(w))
    <3>2. t \in S!Ends(vv)
      BY <3>1
    <3> HIDE DEF vv
    <3> QED BY <3>2, NoWaveHere
  <2> HIDE DEF U
  <2>6. \/ s \in S!Throws \/ s \in U
        \/ k = 0 /\ s \in S!Opens(S!Crew(p.n, "voter", 1))
        \/ k = 1 /\ entries # {} /\ s \in S!Opens(S!Crew(1, "arbiter", 0))
        \/ \E c, from, billed : s \in S!Ends(S!Fails(c, from, billed))
        \/ \E from, billed : s \in S!Ends(S!Cancels(from, billed))
    <3>1. CASE p.n < least \/ ~p.arbiter
      BY <3>1 DEF S!Judged
    <3>2. CASE ~(p.n < least \/ ~p.arbiter) /\ k = 0
      BY <1>1, <3>2 DEF S!Judged
    <3>3. CASE ~(p.n < least \/ ~p.arbiter) /\ k = 1 /\ entries = {}
      BY <1>1, <3>3 DEF S!Judged
    <3>4. CASE ~(p.n < least \/ ~p.arbiter) /\ k = 1 /\ entries # {}
      BY <1>1, <3>4 DEF S!Judged
    <3>5. CASE ~(p.n < least \/ ~p.arbiter) /\ k \notin {0, 1}
      BY <1>1, <3>5 DEF S!Judged, U
    <3> QED BY <3>1, <3>2, <3>3, <3>4, <3>5
  <2> QED BY <2>1, <2>2, <2>4, <2>5, <2>6
<1>3. CASE k = 0 /\ s \in S!Opens(S!Crew(p.n, "voter", 1))
  <2> DEFINE one == 1
             role == "voter"
  <2>1. one \in Int /\ role \in Roles /\ s \in S!Opens(S!Crew(p.n, role, one))
    BY <1>3, RolesAre
  <2> HIDE DEF one, role
  <2>2. s.asks \in Seq(AskSet) /\ Len(s.asks) = p.n /\ (\A i \in 1..p.n : s.asks[i].keep = one)
        /\ Len(v) = Len(w) + 1 /\ Len(v[Len(w) + 1]) = p.n
    BY <1>1, <2>1, WaveAdds
  <2> HIDE DEF v
  <2>3. Len(v) = 1 /\ Len(v[1]) = p.n
    BY <1>3, <2>2
  <2>4. KeepsFor(p, v, 1) /\ Shape(p, v)
    BY <2>3 DEF KeepsFor, Shape
  <2>5. S!Needs(p) = p.n + 1
    BY DEF S!Needs
  <2>6. MayFollow(p, w, s.asks, 1)
    BY <1>1, <1>3, <2>2, <2>4, <2>5 DEF MayFollow, v, one
  <2> QED BY <2>6
<1>4. CASE k = 1 /\ entries # {} /\ s \in S!Opens(S!Crew(1, "arbiter", 0))
  <2> DEFINE one == 1
             zero == 0
             role == "arbiter"
  <2>1. one \in Nat /\ zero \in Int /\ role \in Roles /\ s \in S!Opens(S!Crew(one, role, zero))
    BY <1>4, RolesAre
  <2> HIDE DEF one, zero, role
  <2>2. s.asks \in Seq(AskSet) /\ Len(s.asks) = one /\ (\A i \in 1..one : s.asks[i].keep = zero)
        /\ Len(v) = Len(w) + 1 /\ (\A j \in 1..Len(w) : v[j] = w[j]) /\ Len(v[Len(w) + 1]) = one
    BY <2>1, WaveAdds
  <2> HIDE DEF v
  <2>3. Len(v) = 2 /\ Len(v[1]) = p.n /\ v[1] = w[1] /\ Len(v[2]) = 1
    BY <1>1, <1>4, <2>2 DEF one
  <2>4. S!Texts(v) = S!Texts(w) /\ S!Diffs(v) = S!Diffs(w)
    BY <2>3 DEF S!Texts, S!Diffs
  <2>5. KeepsFor(p, v, 0) /\ Shape(p, v)
    BY <1>4, <2>3, <2>4 DEF KeepsFor, Shape
  <2>6. \A y : KeepsFor(p, w, y) => y = 1
    BY <1>4 DEF KeepsFor
  <2>7. MayFollow(p, w, s.asks, 0)
    BY <1>1, <1>4, <2>2, <2>5, <2>6 DEF MayFollow, v, one, zero
  <2> QED BY <2>7
<1> QED BY <1>2, <1>3, <1>4

LEMMA SynthesizeFollows ==
  ASSUME NEW p \in Plans, p.name = "synthesize", NEW w \in Seq(Seq(LegSet)), Shape(p, w),
         NEW s \in S!Synthesize(p, w), s.act = "wave"
  PROVE  \E x \in Nat : MayFollow(p, w, s.asks, x)
<1> DEFINE k == Len(w)
           v == Append(w, S!Begun(s.asks))
<1>1. p.n \in Nat /\ k \in Nat /\ k <= 2 /\ (w = <<>> <=> k = 0) /\ (k >= 1 => Len(w[1]) = p.n)
  BY PlansAreCounted DEF Shape
<1>2. \/ k = 0 /\ s \in S!Opens(S!Crew(p.n, "voter", 1))
      \/ k = 1 /\ s \in S!Opens(S!Crew(1, "worker", 0))
  <2>1. \A c, from, billed : \A t \in S!Ends(S!Fails(c, from, billed)) : t.act = "end"
    BY NoWaveHere
  <2>2. \A leg, ok, cause, billed : \A t \in S!Ends(S!OrElse(leg, ok, cause, billed)) : t.act = "end"
    BY NoWaveHere
  <2>3. \A t \in S!Throws : t.act = "throw"
    BY NoWaveHere
  <2> QED BY <1>1, <2>1, <2>2, <2>3 DEF S!Synthesize
<1>3. CASE k = 0 /\ s \in S!Opens(S!Crew(p.n, "voter", 1))
  <2> DEFINE one == 1
             role == "voter"
  <2>1. one \in Int /\ role \in Roles /\ s \in S!Opens(S!Crew(p.n, role, one))
    BY <1>3, RolesAre
  <2> HIDE DEF one, role
  <2>2. s.asks \in Seq(AskSet) /\ Len(s.asks) = p.n /\ (\A i \in 1..p.n : s.asks[i].keep = one)
        /\ Len(v) = Len(w) + 1 /\ Len(v[Len(w) + 1]) = p.n
    BY <1>1, <2>1, WaveAdds
  <2> HIDE DEF v
  <2>3. Len(v) = 1 /\ Len(v[1]) = p.n
    BY <1>3, <2>2
  <2>4. KeepsFor(p, v, 1) /\ Shape(p, v)
    BY <2>3 DEF KeepsFor, Shape
  <2>5. S!Needs(p) = p.n + 1
    BY DEF S!Needs
  <2>6. MayFollow(p, w, s.asks, 1)
    BY <1>1, <1>3, <2>2, <2>4, <2>5 DEF MayFollow, v, one
  <2> QED BY <2>6
<1>4. CASE k = 1 /\ s \in S!Opens(S!Crew(1, "worker", 0))
  <2> DEFINE one == 1
             zero == 0
             role == "worker"
  <2>1. one \in Nat /\ zero \in Int /\ role \in Roles /\ s \in S!Opens(S!Crew(one, role, zero))
    BY <1>4, RolesAre
  <2> HIDE DEF one, zero, role
  <2>2. s.asks \in Seq(AskSet) /\ Len(s.asks) = one /\ (\A i \in 1..one : s.asks[i].keep = zero)
        /\ Len(v) = Len(w) + 1 /\ (\A j \in 1..Len(w) : v[j] = w[j]) /\ Len(v[Len(w) + 1]) = one
    BY <2>1, WaveAdds
  <2> HIDE DEF v
  <2>3. Len(v) = 2 /\ Len(v[1]) = p.n /\ Len(v[2]) = 1
    BY <1>1, <1>4, <2>2 DEF one
  <2>5. KeepsFor(p, v, 0) /\ Shape(p, v)
    BY <1>4, <2>3 DEF KeepsFor, Shape
  <2>6. \A y : KeepsFor(p, w, y) => y = 1
    BY <1>4 DEF KeepsFor
  <2>7. MayFollow(p, w, s.asks, 0)
    BY <1>1, <1>4, <2>2, <2>5, <2>6 DEF MayFollow, v, one, zero
  <2> QED BY <2>7
<1> QED BY <1>2, <1>3, <1>4

\* What a map clamps its items to.
LEMMA CapIs ==
  ASSUME NEW p \in Plans
  PROVE  /\ S!Cap(p) \in Nat /\ S!Cap(p) >= 1
         /\ p.verify /\ p.max >= 3 => 1 + 2 * S!Cap(p) <= p.max
         /\ ~p.verify /\ p.max >= 2 => 1 + S!Cap(p) <= p.max
<1> DEFINE half == (p.max - 1) \div 2
           rest == p.max - 1
<1>1. p.max \in Nat /\ half \in Int /\ rest \in Int /\ (p.max >= 3 => half >= 1 /\ 2 * half <= p.max - 1)
  <2>1. p.max \in Nat
    BY PlansAreCounted
  <2>2. \A m \in Nat : (m - 1) \div 2 \in Int /\ (m >= 3 => (m - 1) \div 2 >= 1 /\ 2 * ((m - 1) \div 2) <= m - 1)
    OBVIOUS
  <2> QED BY <2>1, <2>2
<1>2. S!Cap(p) = IF p.verify THEN S!Max({1, half}) ELSE S!Max({1, rest})
  BY DEF S!Cap
<1> HIDE DEF half
<1>3. S!Max({1, half}) = IF 1 >= half THEN 1 ELSE half
  BY <1>1, MaxOfTwo
<1>4. S!Max({1, rest}) = IF 1 >= rest THEN 1 ELSE rest
  <2>1. rest \in Int
    BY <1>1
  <2> HIDE DEF rest
  <2> QED BY <2>1, MaxOfTwo
<1> QED BY <1>1, <1>2, <1>3, <1>4

\* A map keeps what its items and their synthesis need.
LEMMA MapFollows ==
  ASSUME NEW p \in Plans, p.name = "map", NEW w \in Seq(Seq(LegSet)), Shape(p, w),
         NEW s \in S!MapItems(p, w), s.act = "wave"
  PROVE  \E x \in Nat : MayFollow(p, w, s.asks, x)
<1> DEFINE k == Len(w)
           c == S!Cap(p)
           v == Append(w, S!Begun(s.asks))
           first == c * (IF p.verify THEN 2 ELSE 1)
           m == S!Min({p.items, c})
           half == IF p.verify THEN m ELSE 0
           good == Cardinality(S!OkLegs(w, 2))
<1>1. /\ p.n \in Nat /\ p.items \in Nat /\ k \in Nat /\ k <= 3 /\ (w = <<>> <=> k = 0) /\ (k >= 1 => Len(w[1]) = 1 /\ p.n > 0)
      /\ (k >= 2 => Len(w[2]) <= c) /\ (k = 3 => p.verify)
  BY PlansAreCounted DEF Shape
<1>2. /\ c \in Nat /\ c >= 1
      /\ p.verify /\ p.max >= 3 => 1 + 2 * c <= p.max
      /\ ~p.verify /\ p.max >= 2 => 1 + c <= p.max
  BY CapIs
<1>3. \/ k = 0 /\ p.n > 0 /\ s \in S!Opens(<<S!Ask("splitter", first)>>)
      \/ k = 1 /\ s \in S!Opens(S!Crew(m, "worker", half))
      \/ k = 2 /\ p.verify /\ s \in S!Opens(S!Crew(good, "critic", 0))
  <2>2. \A cc, from, billed : \A t \in S!Ends(S!Fails(cc, from, billed)) : t.act = "end"
    BY NoWaveHere
  <2>3. \A leg, ok, cause, billed : \A t \in S!Ends(S!OrElse(leg, ok, cause, billed)) : t.act = "end"
    BY NoWaveHere
  <2>4. \A t \in S!Throws : t.act = "throw"
    BY NoWaveHere
  <2>5. CASE p.n = 0 \/ k = 0
    <3>1. CASE p.n = 0
      <4>1. k = 0 /\ ~(p.n > 0)
        BY <1>1, <3>1
      <4>2. s \in S!Throws
        BY <3>1, <4>1 DEF S!MapItems
      <4> QED BY <2>4, <4>2
    <3>2. CASE p.n # 0 /\ k = 0
      <4>0. p.n > 0
        BY <1>1, <3>2
      <4>1. s \in S!Opens(<<S!Ask("splitter", S!Cap(p) * (IF p.verify THEN 2 ELSE 1))>>)
        BY <1>1, <3>2 DEF S!MapItems
      <4> QED BY <3>2, <4>0, <4>1
    <3> QED BY <2>5, <3>1, <3>2
  <2>6. CASE p.n > 0 /\ k = 1
    <3>1. s \in S!AfterSplit(p, w)
      BY <1>1, <2>6 DEF S!MapItems
    <3>2. s \in S!Opens(S!Workers(p))
      BY <2>2, <2>4, <3>1 DEF S!AfterSplit
    <3> QED BY <2>6, <3>2 DEF S!Workers
  <2>7. CASE p.n > 0 /\ k # 0 /\ k # 1
    <3>1. CASE k = 2 /\ p.verify /\ S!OkLegs(w, 2) # {}
      <4>1. s \in S!Opens(S!Verifiers(w))
        BY <1>1, <2>7, <3>1 DEF S!MapItems
      <4>2. S!Verifiers(w) = S!Crew(good, "critic", 0)
        BY CountS DEF S!Verifiers
      <4> QED BY <3>1, <4>1, <4>2
    <3>2. CASE ~(k = 2 /\ p.verify /\ S!OkLegs(w, 2) # {})
      <4>1. s \in S!Ends(S!OrElse(<<2, 1>>, S!OkLegs(w, 2) = DOMAIN w[2], S!Cause(S!Replies(w, 2), "agent"), S!LegsOf(w)))
        BY <1>1, <2>7, <3>2 DEF S!MapItems
      <4> DEFINE vv == S!OrElse(<<2, 1>>, S!OkLegs(w, 2) = DOMAIN w[2], S!Cause(S!Replies(w, 2), "agent"), S!LegsOf(w))
      <4>2. s \in S!Ends(vv)
        BY <4>1
      <4> HIDE DEF vv
      <4> QED BY <4>2, NoWaveHere
    <3> QED BY <3>1, <3>2
  <2> QED BY <1>1, <2>5, <2>6, <2>7
<1>4. CASE k = 0 /\ p.n > 0 /\ s \in S!Opens(<<S!Ask("splitter", first)>>)
  <2>1. first = (IF p.verify THEN 2 * c ELSE c) /\ first \in Nat
    BY <1>2
  <2> HIDE DEF first, c
  <2> DEFINE role == "splitter"
             one == 1
  <2>2. S!Crew(one, role, first) = <<S!Ask(role, first)>>
    BY DEF S!Crew
  <2>3. one \in Nat /\ role \in Roles /\ s \in S!Opens(S!Crew(one, role, first))
    BY <1>4, <2>2, RolesAre
  <2> HIDE DEF one, role
  <2>4. s.asks \in Seq(AskSet) /\ Len(s.asks) = one /\ (\A i \in 1..one : s.asks[i].keep = first)
        /\ Len(v) = Len(w) + 1 /\ Len(v[Len(w) + 1]) = one
    BY <2>1, <2>3, WaveAdds
  <2> HIDE DEF v
  <2>5. Len(v) = 1 /\ Len(v[1]) = 1
    BY <1>4, <2>4 DEF one
  <2>6. KeepsFor(p, v, first) /\ Shape(p, v)
    BY <1>4, <2>1, <2>5 DEF KeepsFor, Shape, c
  <2>7. S!Needs(p) = IF p.verify THEN 3 ELSE 2
    BY DEF S!Needs
  <2>8. p.max \in Nat
    BY PlansAreCounted
  <2>9. S!Needs(p) <= p.max => 1 + first <= p.max
    <3>1. CASE p.verify
      BY <1>2, <2>1, <2>7, <2>8, <3>1
    <3>2. CASE ~p.verify
      BY <1>2, <2>1, <2>7, <2>8, <3>2
    <3> QED BY <3>1, <3>2
  <2>10. MayFollow(p, w, s.asks, first)
    BY <1>1, <1>4, <2>4, <2>6, <2>9 DEF MayFollow, v, one
  <2> QED BY <2>1, <2>10
<1>5. CASE k = 1 /\ s \in S!Opens(S!Crew(m, "worker", half))
  <2>1. m \in Nat /\ m <= c /\ half \in Nat /\ half <= c /\ half = IF p.verify THEN m ELSE 0
    BY <1>1, <1>2, MinOfTwo
  <2> HIDE DEF m, half, c
  <2> DEFINE role == "worker"
  <2>3. role \in Roles /\ s \in S!Opens(S!Crew(m, role, half))
    BY <1>5, RolesAre
  <2> HIDE DEF role
  <2>4. s.asks \in Seq(AskSet) /\ Len(s.asks) = m /\ (\A i \in 1..m : s.asks[i].keep = half)
        /\ Len(v) = Len(w) + 1 /\ (\A j \in 1..Len(w) : v[j] = w[j]) /\ Len(v[Len(w) + 1]) = m
    BY <2>1, <2>3, WaveAdds
  <2> HIDE DEF v
  <2>5. Len(v) = 2 /\ Len(v[1]) = 1 /\ Len(v[2]) = m
    BY <1>1, <1>5, <2>4
  <2>6. KeepsFor(p, v, half) /\ Shape(p, v)
    BY <1>1, <1>5, <2>1, <2>5 DEF KeepsFor, Shape, c
  <2>7. \A y : KeepsFor(p, w, y) => y = IF p.verify THEN 2 * c ELSE c
    BY <1>5 DEF KeepsFor, c
  <2>8. m + half <= IF p.verify THEN 2 * c ELSE c
    BY <1>2, <2>1
  <2>9. MayFollow(p, w, s.asks, half)
    BY <1>1, <1>5, <2>4, <2>6, <2>7, <2>8 DEF MayFollow, v
  <2> QED BY <2>1, <2>9
<1>6. CASE k = 2 /\ p.verify /\ s \in S!Opens(S!Crew(good, "critic", 0))
  <2>1. good \in Nat /\ good <= Len(w[2])
    <3>1. w[2] \in Seq(LegSet)
      <4>1. 2 \in 1..Len(w)
        BY <1>1, <1>6
      <4> HIDE DEF k
      <4> QED BY <4>1
    <3>2. Len(w[2]) \in Nat /\ DOMAIN w[2] = 1..Len(w[2])
      BY <3>1
    <3>3. S!OkLegs(w, 2) \subseteq 1..Len(w[2])
      BY <3>2 DEF S!OkLegs
    <3>4. IsFiniteSet(1..Len(w[2])) /\ Cardinality(1..Len(w[2])) = Len(w[2])
      BY <3>2, OneToLen
    <3>5. IsFiniteSet(S!OkLegs(w, 2)) /\ Cardinality(S!OkLegs(w, 2)) <= Cardinality(1..Len(w[2]))
      BY <3>3, <3>4, FS_Subset
    <3> QED BY <3>4, <3>5, FS_CardinalityType
  <2> HIDE DEF good
  <2> DEFINE role == "critic"
             zero == 0
  <2>3. zero \in Int /\ role \in Roles /\ s \in S!Opens(S!Crew(good, role, zero))
    BY <1>6, RolesAre
  <2> HIDE DEF role, zero
  <2>4. s.asks \in Seq(AskSet) /\ Len(s.asks) = good /\ (\A i \in 1..good : s.asks[i].keep = zero)
        /\ Len(v) = Len(w) + 1 /\ (\A j \in 1..Len(w) : v[j] = w[j])
    BY <2>1, <2>3, WaveAdds
  <2> HIDE DEF v
  <2>5. Len(v) = 3 /\ Len(v[1]) = 1 /\ Len(v[2]) <= c
    BY <1>1, <1>6, <2>4
  <2> HIDE DEF c
  <2>6. KeepsFor(p, v, 0) /\ Shape(p, v)
    BY <1>1, <1>6, <2>5 DEF KeepsFor, Shape, c
  <2>7. \A y : KeepsFor(p, w, y) => y = Len(w[2])
    BY <1>6 DEF KeepsFor
  <2>8. MayFollow(p, w, s.asks, 0)
    BY <1>1, <1>6, <2>1, <2>4, <2>6, <2>7 DEF MayFollow, v, zero
  <2> QED BY <2>8
<1> HIDE DEF k, c, v, first, m, half, good
<1> QED BY <1>3, <1>4, <1>5, <1>6

\* Whatever a strategy decides, a wave it opens is one that may follow.
LEMMA DecideFollows ==
  ASSUME NEW p \in Plans, NEW w \in Seq(Seq(LegSet)), Shape(p, w), NEW halted \in BOOLEAN,
         NEW s \in S!Decide(p, w, halted), s.act = "wave", p.name \in Names
  PROVE  \E x \in Nat : MayFollow(p, w, s.asks, x)
<1>1. CASE p.name \in {"fanout", "custom"}
  BY <1>1, FanoutFollows DEF S!Decide
<1>2. CASE p.name = "pair"
  BY <1>2, PairFollows DEF S!Decide
<1>3. CASE p.name = "pipeline"
  BY <1>3, PipelineFollows DEF S!Decide
<1>4. CASE p.name = "critic-loop"
  BY <1>4, CriticLoopFollows DEF S!Decide
<1>5. CASE p.name = "debate"
  BY <1>5, DebateFollows DEF S!Decide
<1>6. CASE p.name = "council-rounds"
  BY <1>6, CouncilFollows DEF S!Decide
<1>7. CASE p.name = "magi"
  BY <1>7, MagiFollows DEF S!Decide
<1>8. CASE p.name = "judge"
  <2>1. s \in S!Judged(p, w, halted, 1, S!Texts(w))
    BY <1>8 DEF S!Decide, S!Judge
  <2> DEFINE one == 1
             entries == S!Texts(w)
  <2>2. one \in Nat /\ s \in S!Judged(p, w, halted, one, entries) /\ entries = IF p.name = "judge" THEN S!Texts(w) ELSE S!Diffs(w)
    BY <1>8, <2>1
  <2> HIDE DEF one, entries
  <2> QED BY <1>8, <2>2, JudgedFollows
<1>9. CASE p.name = "compete"
  <2>1. s \in S!Judged(p, w, halted, 2, S!Diffs(w))
    BY <1>9 DEF S!Decide, S!Compete
  <2> DEFINE two == 2
             entries == S!Diffs(w)
  <2>2. two \in Nat /\ s \in S!Judged(p, w, halted, two, entries) /\ entries = IF p.name = "judge" THEN S!Texts(w) ELSE S!Diffs(w)
    BY <1>9, <2>1
  <2> HIDE DEF two, entries
  <2> QED BY <1>9, <2>2, JudgedFollows
<1>10. CASE p.name = "synthesize"
  BY <1>10, SynthesizeFollows DEF S!Decide
<1>11. CASE p.name = "map"
  BY <1>11, MapFollows DEF S!Decide
<1> QED BY <1>1, <1>2, <1>3, <1>4, <1>5, <1>6, <1>7, <1>8, <1>9, <1>10, <1>11 DEF Names

---------------------------------------------------------------------------
(* The wave a strategy waits for *)

\* The legs still to begin, those in line, those begun twice; a plan its children fit.
Pend(now) == {i \in DOMAIN now : now[i].st \in {"thunk", "line", "granted"}}
Lined(now) == {i \in DOMAIN now : now[i].st = "line"}
Again(now) == {i \in DOMAIN now : now[i].again \/ now[i].st = "retry"}
Roomy(p) == p.budget = 0 /\ S!Needs(p) <= p.max

\* What has begun, what may still begin and what the wave keeps fit the limit.
WaveFits(p, w, now, n) ==
  /\ \A i \in DOMAIN now : now[i].st \notin {"fatal", "dropped"}
  /\ \E x \in Nat : /\ KeepsFor(p, w, x) /\ \A i \in DOMAIN now : now[i].keep = x
                    /\ n + Cardinality(Pend(now)) + x <= p.max
  /\ p.name = "magi" /\ Len(w) = 1 => n + Cardinality(Pend(now)) <= p.n + Cardinality(Again(now))

\* The line holds each leg that waits once, and all that is to begin fits.
CouncilInv ==
  /\ plan \in Plans /\ kids \in Nat /\ stopped \in BOOLEAN /\ waves \in Seq(Seq(LegSet)) /\ Shape(plan, waves)
  /\ slots = [free |-> slots.free, line |-> slots.line]
  /\ waves = <<>> => kids = 0 /\ slots.line = <<>>
  /\ waves # <<>> => IsLine(slots.line, Lined(S!Now))
  /\ waves # <<>> => \A i \in DOMAIN S!Now : S!Now[i].again => S!Now[i].st = "settled"
  /\ waves # <<>> /\ Roomy(plan) => WaveFits(plan, waves, S!Now, kids)

\* The last wave changes, the others do not.
LEMMA LastWave ==
  ASSUME NEW w \in Seq(Seq(LegSet)), w # <<>>, NEW new \in Seq(LegSet), Len(new) = Len(w[Len(w)])
  PROVE  /\ [w EXCEPT ![Len(w)] = new] \in Seq(Seq(LegSet)) /\ Len([w EXCEPT ![Len(w)] = new]) = Len(w)
         /\ [w EXCEPT ![Len(w)] = new] # <<>> /\ [w EXCEPT ![Len(w)] = new][Len(w)] = new
         /\ \A k \in 1..Len(w) : k # Len(w) => [w EXCEPT ![Len(w)] = new][k] = w[k]
         /\ \A k \in 1..Len(w) : Len([w EXCEPT ![Len(w)] = new][k]) = Len(w[k])
<1> DEFINE v == [w EXCEPT ![Len(w)] = new]
<1> DEFINE n == Len(w)
<1>1. n \in Nat /\ n \in 1..n /\ DOMAIN w = 1..n /\ \A k \in 1..n : w[k] \in Seq(LegSet)
  OBVIOUS
<1>2. v = [w EXCEPT ![n] = new] /\ Len(new) = Len(w[n])
  OBVIOUS
<1> HIDE DEF v, n
<1>3. DOMAIN v = 1..n /\ v[n] = new /\ \A k \in 1..n : k # n => v[k] = w[k]
  BY <1>1, <1>2
<1>4. \A k \in 1..n : v[k] \in Seq(LegSet) /\ Len(v[k]) = Len(w[k])
  <2> TAKE k \in 1..n
  <2>1. CASE k = n
    BY <1>2, <1>3, <2>1
  <2>2. CASE k # n
    BY <1>1, <1>3, <2>2
  <2> QED BY <2>1, <2>2
<1>5. v = [k \in 1..n |-> v[k]]
  BY <1>1, <1>2
<1>6. v \in [1..n -> Seq(LegSet)]
  BY <1>4, <1>5
<1>7. v \in Seq(Seq(LegSet)) /\ Len(v) = n
  BY <1>1, <1>3, <1>6, SeqDef
<1>8. v # <<>>
  BY <1>1, <1>7
<1> QED BY <1>3, <1>4, <1>7, <1>8 DEF v, n

\* The shape of the waves does not see what the last one is up to while it runs.
LEMMA ShapeStays ==
  ASSUME NEW p, p.name \in Names, NEW w \in Seq(Seq(LegSet)), NEW v \in Seq(Seq(LegSet)), Len(v) = Len(w),
         \A k \in 1..Len(w) : (k # Len(w) => v[k] = w[k]) /\ Len(v[k]) = Len(w[k]),
         Shape(p, w)
  PROVE  Shape(p, v) /\ \A x : KeepsFor(p, w, x) => KeepsFor(p, v, x)
<1>0. Len(w) \in Nat
  OBVIOUS
<1>1. \A n : Panels(w, n) => Panels(v, n)
  BY DEF Panels
<1>2. \A k \in 1..Len(w) : k < Len(w) => (AllGood(w, k) => AllGood(v, k))
  BY <1>0 DEF AllGood
<1>3. Len(w) = 2 => S!Texts(v) = S!Texts(w) /\ S!Diffs(v) = S!Diffs(w)
  <2> SUFFICES ASSUME Len(w) = 2 PROVE S!Texts(v) = S!Texts(w) /\ S!Diffs(v) = S!Diffs(w)
    OBVIOUS
  <2>1. 1 \in 1..Len(w) /\ 1 # Len(w)
    OBVIOUS
  <2>2. v[1] = w[1]
    BY <2>1
  <2> QED BY <2>2 DEF S!Texts, S!Diffs
<1>4. Len(w) >= 1 => Len(v[1]) = Len(w[1])
  BY <1>0
<1>5. Len(w) >= 2 => Len(v[2]) = Len(w[2])
  BY <1>0
<1>6. \A x : KeepsFor(p, w, x) => KeepsFor(p, v, x)
  BY <1>5 DEF KeepsFor
<1>7. Shape(p, v)
  <2>1. CASE p.name \in {"fanout", "custom", "debate", "pair", "council-rounds", "magi"}
    BY <1>1, <2>1 DEF Shape
  <2>2. CASE p.name = "pipeline"
    BY <1>1, <1>2, <2>2 DEF Shape
  <2>3. CASE p.name = "critic-loop"
    BY <1>1, <1>2, <2>3 DEF Shape
  <2>4. CASE p.name \in {"judge", "compete", "synthesize"}
    BY <1>0, <1>3, <1>4, <1>5, <2>4 DEF Shape
  <2>5. CASE p.name = "map"
    BY <1>0, <1>4, <1>5, <2>5 DEF Shape
  <2> QED BY <2>1, <2>2, <2>3, <2>4, <2>5 DEF Names
<1> QED BY <1>6, <1>7

\* A step of a leg keeps the invariant when it keeps the line and the limit.
LEMMA CouncilMoves ==
  ASSUME CouncilInv, waves # <<>>, plan.name \in Names, plan' = plan, kids' \in Nat, stopped' \in BOOLEAN,
         NEW new \in Seq(LegSet), Len(new) = Len(S!Now), waves' = [waves EXCEPT ![Len(waves)] = new],
         slots' = [free |-> slots'.free, line |-> slots'.line], IsLine(slots'.line, Lined(new)),
         \A i \in DOMAIN new : new[i].again => new[i].st = "settled",
         Roomy(plan) => WaveFits(plan, waves, new, kids')
  PROVE  CouncilInv'
<1>1. waves \in Seq(Seq(LegSet)) /\ Shape(plan, waves) /\ S!Now = waves[Len(waves)]
  BY DEF CouncilInv, S!Now
<1> DEFINE w == waves
           v == [w EXCEPT ![Len(w)] = new]
<1>2. waves' = v
  OBVIOUS
<1>3. /\ v \in Seq(Seq(LegSet)) /\ Len(v) = Len(w) /\ v # <<>> /\ v[Len(w)] = new
      /\ \A k \in 1..Len(w) : k # Len(w) => v[k] = w[k]
      /\ \A k \in 1..Len(w) : Len(v[k]) = Len(w[k])
  <2>1. w \in Seq(Seq(LegSet)) /\ w # <<>> /\ Len(new) = Len(w[Len(w)])
    BY <1>1
  <2> HIDE DEF w
  <2> QED BY <2>1, LastWave
<1> HIDE DEF v
<1>4. Shape(plan, v) /\ \A x : KeepsFor(plan, w, x) => KeepsFor(plan, v, x)
  <2> DEFINE p == plan
  <2>1. w \in Seq(Seq(LegSet)) /\ Shape(p, w) /\ p.name \in Names
    BY <1>1
  <2> HIDE DEF w, p
  <2>2. Shape(p, v) /\ \A x : KeepsFor(p, w, x) => KeepsFor(p, v, x)
    BY <1>3, <2>1, ShapeStays
  <2> QED BY <2>2 DEF p
<1>5. S!Now' = new
  BY <1>2, <1>3 DEF S!Now
<1>6. Roomy(plan) => WaveFits(plan, v, new, kids')
  BY <1>3, <1>4 DEF WaveFits
<1>7. Roomy(plan') <=> Roomy(plan)
  BY DEF Roomy
<1>8. plan \in Plans
  BY DEF CouncilInv
<1> QED BY <1>2, <1>3, <1>4, <1>5, <1>6, <1>7, <1>8 DEF CouncilInv, Roomy

\* A leg that is given a slot.
GrantedLeg(leg) == [leg EXCEPT !.st = "granted"]

\* A wave in which one leg moves and the heirs of its slot have it.
Turned(now, i, leg, H) ==
  [j \in DOMAIN now |-> CASE j = i -> leg
                         [] j # i /\ j \in H -> GrantedLeg(now[j])
                         [] OTHER -> now[j]]

LEMMA TurnedIs ==
  ASSUME NEW now \in Seq(LegSet), NEW i \in DOMAIN now, NEW leg \in LegSet, NEW H \in SUBSET Lined(now),
         leg.keep = now[i].keep, leg.again => leg.st = "settled",
         \A j \in DOMAIN now : now[j].again => now[j].st = "settled"
  PROVE  /\ Turned(now, i, leg, H) \in Seq(LegSet) /\ DOMAIN Turned(now, i, leg, H) = DOMAIN now
         /\ Len(Turned(now, i, leg, H)) = Len(now) /\ Turned(now, i, leg, H)[i] = leg
         /\ \A j \in DOMAIN now :
              /\ Turned(now, i, leg, H)[j].keep = now[j].keep
              /\ Turned(now, i, leg, H)[j].again => Turned(now, i, leg, H)[j].st = "settled"
              /\ j # i /\ j \notin H => Turned(now, i, leg, H)[j] = now[j]
              /\ j # i /\ j \in H => Turned(now, i, leg, H)[j].st = "granted" /\ Turned(now, i, leg, H)[j].again = now[j].again
<1> DEFINE new == Turned(now, i, leg, H)
<1>1. DOMAIN new = DOMAIN now /\ DOMAIN now = 1..Len(now) /\ Len(now) \in Nat /\ \A j \in DOMAIN now : now[j] \in LegSet
  BY DEF Turned
<1>2. \A j \in DOMAIN now :
        /\ j = i => new[j] = leg
        /\ j # i /\ j \notin H => new[j] = now[j]
        /\ j # i /\ j \in H => new[j] = GrantedLeg(now[j])
  BY DEF Turned
<1>3. new = [j \in 1..Len(now) |-> new[j]]
  BY <1>1 DEF Turned
<1> HIDE DEF new
<1>4. \A j \in H : now[j].st = "line" /\ j \in DOMAIN now
  BY DEF Lined
<1>5. \A m \in LegSet : GrantedLeg(m) \in LegSet /\ GrantedLeg(m).keep = m.keep /\ GrantedLeg(m).st = "granted" /\ GrantedLeg(m).again = m.again
  BY DEF LegSet, LegStates, GrantedLeg
<1>6. \A j \in DOMAIN now : j # i /\ j \in H =>
         /\ new[j] \in LegSet /\ new[j].keep = now[j].keep /\ new[j].st = "granted" /\ new[j].again = now[j].again
         /\ now[j].again = FALSE
  <2> SUFFICES ASSUME NEW j \in DOMAIN now, j # i, j \in H
               PROVE  /\ new[j] \in LegSet /\ new[j].keep = now[j].keep /\ new[j].st = "granted" /\ new[j].again = now[j].again
                      /\ now[j].again = FALSE
    OBVIOUS
  <2>1. now[j] \in LegSet /\ new[j] = GrantedLeg(now[j]) /\ now[j].st = "line"
    BY <1>1, <1>2, <1>4
  <2>2. now[j].again \in BOOLEAN
    BY <2>1 DEF LegSet
  <2>3. now[j].again = FALSE
    BY <2>1, <2>2
  <2> QED BY <1>5, <2>1, <2>3
<1>7. \A j \in DOMAIN now : new[j] \in LegSet
  BY <1>1, <1>2, <1>6
<1>8. new \in [1..Len(now) -> LegSet]
  BY <1>1, <1>3, <1>7
<1>9. new \in Seq(LegSet) /\ Len(new) = Len(now)
  BY <1>1, <1>8, SeqDef
<1>10. \A j \in DOMAIN now : new[j].keep = now[j].keep /\ (new[j].again => new[j].st = "settled")
  BY <1>2, <1>6
<1> QED BY <1>1, <1>2, <1>6, <1>9, <1>10 DEF new

\* Who waits, who is still to begin and who began twice, when one leg moves.
LEMMA TurnedCounts ==
  ASSUME NEW now \in Seq(LegSet), NEW i \in DOMAIN now, NEW leg \in LegSet, NEW H \in SUBSET Lined(now),
         leg.keep = now[i].keep, leg.again => leg.st = "settled", i \notin H,
         \A j \in DOMAIN now : now[j].again => now[j].st = "settled",
         NEW new, new = Turned(now, i, leg, H)
  PROVE  /\ Lined(new) = ((Lined(now) \ H) \ {i}) \cup (IF leg.st = "line" THEN {i} ELSE {})
         /\ Pend(new) = (Pend(now) \ {i}) \cup (IF leg.st \in {"thunk", "line", "granted"} THEN {i} ELSE {})
         /\ Again(new) = (Again(now) \ {i}) \cup (IF leg.again \/ leg.st = "retry" THEN {i} ELSE {})
<1>1. /\ DOMAIN new = DOMAIN now /\ new[i] = leg
      /\ \A j \in DOMAIN now :
           /\ j # i /\ j \notin H => new[j] = now[j]
           /\ j # i /\ j \in H => new[j].st = "granted" /\ new[j].again = now[j].again
  BY TurnedIs
<1>2. \A j \in H : now[j].st = "line" /\ j \in DOMAIN now
  BY DEF Lined
<1>3. Lined(new) = ((Lined(now) \ H) \ {i}) \cup (IF leg.st = "line" THEN {i} ELSE {})
  BY <1>1, <1>2 DEF Lined
<1>4. Pend(new) = (Pend(now) \ {i}) \cup (IF leg.st \in {"thunk", "line", "granted"} THEN {i} ELSE {})
  BY <1>1, <1>2 DEF Pend
<1>5. Again(new) = (Again(now) \ {i}) \cup (IF leg.again \/ leg.st = "retry" THEN {i} ELSE {})
  BY <1>1, <1>2 DEF Again
<1> QED BY <1>3, <1>4, <1>5

\* The counts of a wave are numbers.
LEMMA CountsOfWave ==
  ASSUME NEW now \in Seq(LegSet)
  PROVE  /\ Pend(now) \in SUBSET DOMAIN now /\ Again(now) \in SUBSET DOMAIN now /\ IsFiniteSet(DOMAIN now)
         /\ IsFiniteSet(Pend(now)) /\ IsFiniteSet(Again(now))
         /\ Cardinality(Pend(now)) \in Nat /\ Cardinality(Again(now)) \in Nat
<1>1. DOMAIN now = 1..Len(now) /\ Len(now) \in Nat
  OBVIOUS
<1>2. IsFiniteSet(DOMAIN now)
  BY <1>1, OneToLen
<1>3. Pend(now) \in SUBSET DOMAIN now /\ Again(now) \in SUBSET DOMAIN now
  BY DEF Pend, Again
<1>4. IsFiniteSet(Pend(now)) /\ IsFiniteSet(Again(now))
  BY <1>2, <1>3, FS_Subset
<1> QED BY <1>2, <1>3, <1>4, FS_CardinalityType

\* One that goes out of a set, one that comes in.
LEMMA OneOut ==
  \A E : IsFiniteSet(E) => \A x \in E : IsFiniteSet(E \ {x}) /\ Cardinality(E \ {x}) = Cardinality(E) - 1
BY FS_RemoveElement

LEMMA OneIn ==
  \A E : IsFiniteSet(E) => \A x : x \notin E => IsFiniteSet(E \cup {x}) /\ Cardinality(E \cup {x}) = Cardinality(E) + 1
BY FS_AddElement

\* A leg that moves on without a child more than it had still to begin.
LEMMA FitsOn ==
  ASSUME NEW p, NEW w, NEW now \in Seq(LegSet), NEW n \in Nat, WaveFits(p, w, now, n), p.max \in Nat, p.n \in Nat,
         NEW new \in Seq(LegSet), DOMAIN new = DOMAIN now, NEW n1 \in Nat,
         \A j \in DOMAIN now : new[j].keep = now[j].keep /\ new[j].st \notin {"fatal", "dropped"},
         n1 + Cardinality(Pend(new)) <= n + Cardinality(Pend(now)), Cardinality(Again(new)) >= Cardinality(Again(now))
  PROVE  WaveFits(p, w, new, n1)
<1> DEFINE a == Cardinality(Pend(now))
           b == Cardinality(Pend(new))
           c == Cardinality(Again(now))
           d == Cardinality(Again(new))
<1>1. a \in Nat /\ b \in Nat /\ c \in Nat /\ d \in Nat
  BY CountsOfWave
<1>2. n1 + b <= n + a /\ d >= c
  OBVIOUS
<1>3. PICK x \in Nat : KeepsFor(p, w, x) /\ (\A i \in DOMAIN now : now[i].keep = x) /\ n + a + x <= p.max
  BY DEF WaveFits
<1>4. p.name = "magi" /\ Len(w) = 1 => n + a <= p.n + c
  BY DEF WaveFits
<1> HIDE DEF a, b, c, d
<1>5. n1 + b + x <= p.max
  BY <1>1, <1>2, <1>3
<1>6. p.name = "magi" /\ Len(w) = 1 => n1 + b <= p.n + d
  BY <1>1, <1>2, <1>4
<1> QED BY <1>3, <1>5, <1>6 DEF WaveFits, b, d

\* A leg that begins a second time, with a child nobody else will need.
LEMMA FitsAgain ==
  ASSUME NEW p, NEW w, NEW now \in Seq(LegSet), NEW n \in Nat, WaveFits(p, w, now, n), p.max \in Nat, p.n \in Nat,
         NEW new \in Seq(LegSet), DOMAIN new = DOMAIN now, NEW i \in DOMAIN now, n + now[i].keep + Cardinality(Pend(now)) < p.max,
         \A j \in DOMAIN now : new[j].keep = now[j].keep /\ new[j].st \notin {"fatal", "dropped"},
         Pend(new) = Pend(now), Cardinality(Again(new)) = Cardinality(Again(now)) + 1
  PROVE  WaveFits(p, w, new, n + 1)
<1> DEFINE a == Cardinality(Pend(now))
           c == Cardinality(Again(now))
<1>1. a \in Nat /\ c \in Nat
  BY CountsOfWave
<1>3. PICK x \in Nat : KeepsFor(p, w, x) /\ (\A j \in DOMAIN now : now[j].keep = x)
  BY DEF WaveFits
<1>4. p.name = "magi" /\ Len(w) = 1 => n + a <= p.n + c
  BY DEF WaveFits
<1>5. n + x + a < p.max
  BY <1>3
<1> HIDE DEF a, c
<1>6. n + 1 + a + x <= p.max
  BY <1>1, <1>3, <1>5
<1>7. p.name = "magi" /\ Len(w) = 1 => n + 1 + a <= p.n + (c + 1)
  BY <1>1, <1>4
<1> QED BY <1>3, <1>6, <1>7 DEF WaveFits, a, c

---------------------------------------------------------------------------
(* What a leg does to its wave *)

\* What a leg that settles is like, what it answers and what it costs.
LEMMA SettledIs ==
  ASSUME NEW leg \in LegSet, NEW reply \in S!Answers, NEW used \in Nat
  PROVE  /\ S!Settled(leg, reply, used) \in LegSet /\ S!Settled(leg, reply, used).keep = leg.keep
         /\ S!Settled(leg, reply, used).st = "settled" /\ S!Settled(leg, reply, used).again = leg.again
BY DEF S!Settled, LegSet, LegStates

LEMMA AnswersAre ==
  /\ "abort" \in S!Answers /\ "denied" \in S!Answers
  /\ \A p \in Plans : \A role \in Roles : \A reply \in p.says[role] \cup {"abort"} : reply \in S!Answers
<1>1. S!Answers = {"yes", "no", "prose", "blank", "contract", "denied", "provider", "broken", "abort"}
  BY DEF S!Answers, S!Good, S!Votes, S!Bad
<1>2. \A p \in Plans : \A role \in Roles : p.says[role] \in SUBSET S!Answers
  BY <1>1, PlansAreCounted DEF Roles
<1> QED BY <1>1, <1>2

LEMMA CostsAre == \A reply : \A cost \in S!Costs(reply) : cost \in Nat
BY DEF S!Costs

\* A slot that comes back goes to the first in line, who leaves the line.
LEMMA SlotBack ==
  ASSUME slots = [free |-> slots.free, line |-> slots.line], NEW W, IsLine(slots.line, W)
  PROVE  /\ S!Heir(slots) \in SUBSET W
         /\ S!Returned(slots) = [free |-> S!Returned(slots).free, line |-> S!Returned(slots).line]
         /\ IsLine(S!Returned(slots).line, W \ S!Heir(slots))
<1> DEFINE q == slots.line
           f == slots.free
<1>1. slots = [free |-> f, line |-> q]
  OBVIOUS
<1>2. CASE q = <<>>
  <2>1. S!Heir(slots) = {} /\ S!Returned(slots) = [free |-> f + 1, line |-> q]
    BY <1>1, <1>2 DEF S!Heir, S!Returned
  <2>2. W \ {} = W
    OBVIOUS
  <2> QED BY <2>1, <2>2
<1>3. CASE q # <<>>
  <2>1. S!Heir(slots) = {Head(q)} /\ S!Returned(slots) = [free |-> f, line |-> Tail(q)]
    BY <1>1, <1>3 DEF S!Heir, S!Returned
  <2>2. Head(q) \in W /\ IsLine(Tail(q), W \ {Head(q)})
    <3> HIDE DEF q
    <3>1. IsLine(q, W)
      BY DEF q
    <3> QED BY <1>3, <3>1, LineShrinks
  <2> QED BY <2>1, <2>2
<1> QED BY <1>2, <1>3

\* Any move of one leg.
LEMMA LegTurns ==
  ASSUME CouncilInv, waves # <<>>, plan' = plan, kids' \in Nat, stopped' \in BOOLEAN,
         NEW i \in DOMAIN S!Now, NEW leg \in LegSet, NEW H \in SUBSET Lined(S!Now), i \notin H,
         leg.keep = S!Now[i].keep, leg.again => leg.st = "settled",
         waves' = [waves EXCEPT ![Len(waves)] = Turned(S!Now, i, leg, H)],
         slots' = [free |-> slots'.free, line |-> slots'.line],
         IsLine(slots'.line, ((Lined(S!Now) \ H) \ {i}) \cup (IF leg.st = "line" THEN {i} ELSE {})),
         Roomy(plan) => WaveFits(plan, waves, Turned(S!Now, i, leg, H), kids')
  PROVE  CouncilInv'
<1> DEFINE now == S!Now
           new == Turned(now, i, leg, H)
<1>1. now \in Seq(LegSet) /\ plan.name \in Names /\ \A j \in DOMAIN now : now[j].again => now[j].st = "settled"
  <2>1. plan.name \in Names
    BY PlansAreCounted DEF CouncilInv, Names
  <2>2. Len(waves) \in 1..Len(waves) /\ waves \in Seq(Seq(LegSet))
    BY DEF CouncilInv
  <2> QED BY <2>1, <2>2 DEF CouncilInv, S!Now
<1>2. i \in DOMAIN now /\ H \in SUBSET Lined(now) /\ leg.keep = now[i].keep
  OBVIOUS
<1> HIDE DEF now
<1>3. /\ new \in Seq(LegSet) /\ DOMAIN new = DOMAIN now /\ Len(new) = Len(now)
      /\ \A j \in DOMAIN now : new[j].again => new[j].st = "settled"
  BY <1>1, <1>2, TurnedIs
<1>4. Lined(new) = ((Lined(now) \ H) \ {i}) \cup (IF leg.st = "line" THEN {i} ELSE {})
  BY <1>1, <1>2, TurnedCounts
<1>5. waves' = [waves EXCEPT ![Len(waves)] = new] /\ (Roomy(plan) => WaveFits(plan, waves, new, kids'))
  BY DEF now
<1>6. IsLine(slots'.line, Lined(new))
  BY <1>4 DEF now
<1> HIDE DEF new
<1>7. Len(new) = Len(S!Now)
  BY <1>3 DEF now
<1> QED BY <1>1, <1>3, <1>5, <1>6, <1>7, CouncilMoves

\* A leg that goes on, and one that begins.
LEMMA TurnFits ==
  ASSUME NEW p, NEW w, NEW now \in Seq(LegSet), NEW n \in Nat, WaveFits(p, w, now, n), p.max \in Nat, p.n \in Nat,
         NEW i \in DOMAIN now, NEW leg \in LegSet, NEW H \in SUBSET Lined(now), i \notin H,
         leg.keep = now[i].keep, leg.again => leg.st = "settled", leg.st \notin {"fatal", "dropped"},
         \A j \in DOMAIN now : now[j].again => now[j].st = "settled",
         now[i].again \/ now[i].st = "retry" => leg.again \/ leg.st = "retry",
         NEW n1 \in Nat,
         \/ n1 = n /\ (leg.st \in {"thunk", "line", "granted"} => now[i].st \in {"thunk", "line", "granted"})
         \/ n1 = n + 1 /\ leg.st \notin {"thunk", "line", "granted"} /\ now[i].st \in {"thunk", "line", "granted"}
  PROVE  WaveFits(p, w, Turned(now, i, leg, H), n1)
<1> DEFINE new == Turned(now, i, leg, H)
<1>1. /\ new \in Seq(LegSet) /\ DOMAIN new = DOMAIN now /\ new[i] = leg
      /\ \A j \in DOMAIN now : /\ new[j].keep = now[j].keep
                               /\ j # i /\ j \notin H => new[j] = now[j]
                               /\ j # i /\ j \in H => new[j].st = "granted"
  BY TurnedIs
<1>2. /\ Pend(new) = (Pend(now) \ {i}) \cup (IF leg.st \in {"thunk", "line", "granted"} THEN {i} ELSE {})
      /\ Again(new) = (Again(now) \ {i}) \cup (IF leg.again \/ leg.st = "retry" THEN {i} ELSE {})
  BY TurnedCounts
<1> HIDE DEF new
<1>3. \A j \in DOMAIN now : new[j].keep = now[j].keep /\ new[j].st \notin {"fatal", "dropped"}
  BY <1>1 DEF WaveFits
<1>4. /\ IsFiniteSet(Pend(now)) /\ IsFiniteSet(Pend(new)) /\ Cardinality(Pend(now)) \in Nat /\ Cardinality(Pend(new)) \in Nat
      /\ IsFiniteSet(Again(now)) /\ IsFiniteSet(Again(new)) /\ Cardinality(Again(now)) \in Nat /\ Cardinality(Again(new)) \in Nat
  BY <1>1, CountsOfWave
<1>5. Again(now) \in SUBSET Again(new)
  BY <1>2 DEF Again
<1>6. Cardinality(Again(now)) <= Cardinality(Again(new))
  BY <1>4, <1>5, FS_Subset
<1>7. n1 + Cardinality(Pend(new)) <= n + Cardinality(Pend(now))
  <2>1. CASE n1 = n /\ (leg.st \in {"thunk", "line", "granted"} => now[i].st \in {"thunk", "line", "granted"})
    <3>1. Pend(new) \in SUBSET Pend(now)
      BY <1>2, <2>1 DEF Pend
    <3>2. Cardinality(Pend(new)) <= Cardinality(Pend(now))
      BY <1>4, <3>1, FS_Subset
    <3> QED BY <1>4, <2>1, <3>2
  <2>2. CASE n1 = n + 1 /\ leg.st \notin {"thunk", "line", "granted"} /\ now[i].st \in {"thunk", "line", "granted"}
    <3>1. Pend(new) = Pend(now) \ {i} /\ i \in Pend(now)
      BY <1>2, <2>2 DEF Pend
    <3>2. Cardinality(Pend(new)) = Cardinality(Pend(now)) - 1
      BY <1>4, <3>1, OneOut
    <3> QED BY <1>4, <2>2, <3>2
  <2> QED BY <2>1, <2>2
<1>8. WaveFits(p, w, new, n1)
  BY <1>1, <1>3, <1>6, <1>7, FitsOn
<1> QED BY <1>8 DEF new

\* A leg that begins a second time.
LEMMA RetryFits ==
  ASSUME NEW p, NEW w, NEW now \in Seq(LegSet), NEW n \in Nat, WaveFits(p, w, now, n), p.max \in Nat, p.n \in Nat,
         NEW i \in DOMAIN now, now[i].st = "first", NEW leg \in LegSet, leg.keep = now[i].keep, leg.st = "retry", ~leg.again,
         \A j \in DOMAIN now : now[j].again => now[j].st = "settled",
         n + now[i].keep + Cardinality(Pend(now)) < p.max
  PROVE  WaveFits(p, w, Turned(now, i, leg, {}), n + 1)
<1> DEFINE none == {}
           new == Turned(now, i, leg, none)
<1>0. none \in SUBSET Lined(now) /\ i \notin none
  OBVIOUS
<1> HIDE DEF none
<1>1. /\ new \in Seq(LegSet) /\ DOMAIN new = DOMAIN now /\ new[i] = leg
      /\ \A j \in DOMAIN now : /\ new[j].keep = now[j].keep
                               /\ j # i /\ j \notin none => new[j] = now[j]
  BY <1>0, TurnedIs
<1>2. /\ Pend(new) = (Pend(now) \ {i}) \cup (IF leg.st \in {"thunk", "line", "granted"} THEN {i} ELSE {})
      /\ Again(new) = (Again(now) \ {i}) \cup (IF leg.again \/ leg.st = "retry" THEN {i} ELSE {})
  BY <1>0, TurnedCounts
<1> HIDE DEF new
<1>3. \A j \in DOMAIN now : new[j].keep = now[j].keep /\ new[j].st \notin {"fatal", "dropped"}
  BY <1>1 DEF WaveFits, none
<1>4. IsFiniteSet(Again(now))
  BY CountsOfWave
<1>5. Pend(new) = Pend(now) /\ Again(new) = Again(now) \cup {i} /\ i \notin Again(now)
  BY <1>2 DEF Pend, Again
<1>6. Cardinality(Again(new)) = Cardinality(Again(now)) + 1
  BY <1>4, <1>5, OneIn
<1>7. WaveFits(p, w, new, n + 1)
  BY <1>1, <1>3, <1>5, <1>6, FitsAgain
<1> QED BY <1>7 DEF new, none

---------------------------------------------------------------------------
(* The steps of a run *)

\* The wave a strategy waits for is its last.
LEMMA NowIs ==
  ASSUME CouncilInv, waves # <<>>
  PROVE  /\ S!Now \in Seq(LegSet) /\ plan.name \in Names /\ plan.max \in Nat /\ plan.n \in Nat
         /\ \A j \in DOMAIN S!Now : S!Now[j] \in LegSet /\ (S!Now[j].again => S!Now[j].st = "settled")
         /\ Lined(S!Now) = {j \in DOMAIN S!Now : S!Now[j].st = "line"} /\ IsLine(slots.line, Lined(S!Now))
<1>1. plan.name \in Names /\ plan.max \in Nat /\ plan.n \in Nat
  BY PlansAreCounted DEF CouncilInv, Names
<1>2. Len(waves) \in 1..Len(waves) /\ waves \in Seq(Seq(LegSet))
  BY DEF CouncilInv
<1>3. S!Now \in Seq(LegSet)
  BY <1>2 DEF S!Now
<1>4. \A j \in DOMAIN S!Now : S!Now[j] \in LegSet
  BY <1>3
<1> QED BY <1>1, <1>3, <1>4 DEF CouncilInv, Lined

\* The wave as the actions write it.
LEMMA WithIs ==
  ASSUME NEW i \in DOMAIN S!Now, NEW leg
  PROVE  S!Become(S!With(i, leg)) => waves' = [waves EXCEPT ![Len(waves)] = Turned(S!Now, i, leg, {})]
<1> DEFINE now == S!Now
<1>1. [j \in DOMAIN now |-> [now EXCEPT ![i] = leg][j]] = Turned(now, i, leg, {})
  <2>1. \A j \in DOMAIN now : [now EXCEPT ![i] = leg][j] = IF j = i THEN leg ELSE now[j]
    OBVIOUS
  <2>2. \A j \in DOMAIN now : j # i => Turned(now, i, leg, {})[j] = now[j]
    BY DEF Turned
  <2>3. Turned(now, i, leg, {})[i] = leg /\ DOMAIN Turned(now, i, leg, {}) = DOMAIN now
    BY DEF Turned
  <2>4. Turned(now, i, leg, {}) = [j \in DOMAIN now |-> IF j = i THEN leg ELSE now[j]]
    BY DEF Turned
  <2> QED BY <2>1, <2>4
<1> QED BY <1>1 DEF S!Become, S!With

\* A leg that leaves gives its slot back.
LEMMA LeavesIs ==
  ASSUME NEW i \in DOMAIN S!Now, NEW leg, S!Leaves(i, leg)
  PROVE  slots' = S!Returned(slots) /\ waves' = [waves EXCEPT ![Len(waves)] = Turned(S!Now, i, leg, S!Heir(slots))]
<1> DEFINE now == S!Now
           f == [j \in DOMAIN now |-> CASE j = i -> leg
                                      [] j # i /\ j \in S!Heir(slots) -> [now[j] EXCEPT !.st = "granted"]
                                      [] OTHER -> now[j]]
<1>1. slots' = S!Returned(slots) /\ waves' = [waves EXCEPT ![Len(waves)] = [j \in DOMAIN now |-> f[j]]]
  BY DEF S!Leaves, S!Become
<1>2. f = Turned(now, i, leg, S!Heir(slots))
  BY DEF Turned, GrantedLeg
<1>3. [j \in DOMAIN now |-> f[j]] = f
  OBVIOUS
<1> QED BY <1>1, <1>2, <1>3

\* A leg that leaves its slot, with what it had or what it was told.
LEMMA LegLeaves ==
  ASSUME CouncilInv, waves # <<>>, plan' = plan, stopped' \in BOOLEAN, NEW i \in DOMAIN S!Now,
         S!Now[i].st \in {"granted", "first", "retry"}, NEW leg \in LegSet, S!Leaves(i, leg), leg.keep = S!Now[i].keep,
         leg.st = "settled", S!Now[i].st = "retry" => leg.again,
         kids' = kids \/ (kids' = kids + 1 /\ S!Now[i].st = "granted")
  PROVE  CouncilInv'
<1> DEFINE now == S!Now
           H == S!Heir(slots)
<1>1. /\ now \in Seq(LegSet) /\ plan.name \in Names /\ plan.max \in Nat /\ plan.n \in Nat
      /\ (\A j \in DOMAIN now : now[j].again => now[j].st = "settled") /\ IsLine(slots.line, Lined(now))
  BY NowIs
<1>2. slots' = S!Returned(slots) /\ waves' = [waves EXCEPT ![Len(waves)] = Turned(now, i, leg, H)]
  BY LeavesIs
<1>3. /\ H \in SUBSET Lined(now)
      /\ S!Returned(slots) = [free |-> S!Returned(slots).free, line |-> S!Returned(slots).line]
      /\ IsLine(S!Returned(slots).line, Lined(now) \ H)
  <2>1. slots = [free |-> slots.free, line |-> slots.line]
    BY DEF CouncilInv
  <2> DEFINE W == Lined(now)
  <2>2. IsLine(slots.line, W)
    BY <1>1
  <2> HIDE DEF W
  <2> QED BY <2>1, <2>2, SlotBack DEF W
<1> HIDE DEF H
<1>4. i \notin Lined(now) /\ i \notin H
  BY <1>3 DEF Lined
<1>5. IsLine(slots'.line, ((Lined(now) \ H) \ {i}) \cup (IF leg.st = "line" THEN {i} ELSE {}))
  <2>1. ((Lined(now) \ H) \ {i}) \cup (IF leg.st = "line" THEN {i} ELSE {}) = Lined(now) \ H
    BY <1>4
  <2> QED BY <1>2, <1>3, <2>1
<1>6. kids \in Nat /\ kids' \in Nat
  BY DEF CouncilInv
<1>7. Roomy(plan) => WaveFits(plan, waves, Turned(now, i, leg, H), kids')
  <2> SUFFICES ASSUME Roomy(plan) PROVE WaveFits(plan, waves, Turned(now, i, leg, H), kids')
    OBVIOUS
  <2> DEFINE p == plan
             w == waves
             n == kids
             n1 == kids'
  <2>1. WaveFits(p, w, now, n)
    BY DEF CouncilInv
  <2>2. p.max \in Nat /\ p.n \in Nat /\ n \in Nat /\ n1 \in Nat
    BY <1>1, <1>6
  <2>3. \/ n1 = n /\ (leg.st \in {"thunk", "line", "granted"} => now[i].st \in {"thunk", "line", "granted"})
        \/ n1 = n + 1 /\ leg.st \notin {"thunk", "line", "granted"} /\ now[i].st \in {"thunk", "line", "granted"}
    OBVIOUS
  <2>4. /\ i \in DOMAIN now /\ leg.keep = now[i].keep /\ leg.st = "settled"
        /\ (now[i].again \/ now[i].st = "retry" => leg.again \/ leg.st = "retry")
    BY <1>1
  <2> HIDE DEF p, w, n, n1, now
  <2>5. WaveFits(p, w, Turned(now, i, leg, H), n1)
    BY <1>1, <1>3, <1>4, <2>1, <2>2, <2>3, <2>4, TurnFits
  <2> QED BY <2>5 DEF p, w, n1
<1> HIDE DEF now
<1>8. i \in DOMAIN S!Now /\ leg.keep = S!Now[i].keep /\ H \in SUBSET Lined(S!Now)
  BY <1>3 DEF now
<1>9. waves' = [waves EXCEPT ![Len(waves)] = Turned(S!Now, i, leg, H)]
      /\ IsLine(slots'.line, ((Lined(S!Now) \ H) \ {i}) \cup (IF leg.st = "line" THEN {i} ELSE {}))
      /\ (Roomy(plan) => WaveFits(plan, waves, Turned(S!Now, i, leg, H), kids'))
  BY <1>2, <1>5, <1>7 DEF now
<1>10. slots' = [free |-> slots'.free, line |-> slots'.line]
  BY <1>2, <1>3
<1> QED BY <1>4, <1>6, <1>8, <1>9, <1>10, LegTurns

\* A leg that moves while no slot comes back.
LEMMA LegStays ==
  ASSUME CouncilInv, waves # <<>>, plan' = plan, kids' \in Nat, stopped' \in BOOLEAN, NEW i \in DOMAIN S!Now,
         NEW leg \in LegSet, S!Become(S!With(i, leg)), leg.keep = S!Now[i].keep, leg.st \notin {"fatal", "dropped"},
         ~leg.again, ~S!Now[i].again, S!Now[i].st \notin {"line", "retry"},
         slots' = [free |-> slots'.free, line |-> slots'.line],
         IsLine(slots'.line, Lined(S!Now) \cup (IF leg.st = "line" THEN {i} ELSE {})),
         Roomy(plan) =>
           \/ kids' = kids /\ (leg.st \in {"thunk", "line", "granted"} => S!Now[i].st \in {"thunk", "line", "granted"})
           \/ kids' = kids + 1 /\ leg.st \notin {"thunk", "line", "granted"} /\ S!Now[i].st \in {"thunk", "line", "granted"}
           \/ /\ kids' = kids + 1 /\ S!Now[i].st = "first" /\ leg.st = "retry"
              /\ kids + S!Now[i].keep + Cardinality(Pend(S!Now)) < plan.max
  PROVE  CouncilInv'
<1> DEFINE now == S!Now
           none == {}
<1>1. /\ now \in Seq(LegSet) /\ plan.name \in Names /\ plan.max \in Nat /\ plan.n \in Nat
      /\ \A j \in DOMAIN now : now[j].again => now[j].st = "settled"
  BY NowIs
<1>2. waves' = [waves EXCEPT ![Len(waves)] = Turned(now, i, leg, none)]
  BY WithIs
<1>3. none \in SUBSET Lined(now) /\ i \notin none
  OBVIOUS
<1> HIDE DEF none
<1>4. i \notin Lined(now)
  BY DEF Lined
<1>5. IsLine(slots'.line, ((Lined(now) \ none) \ {i}) \cup (IF leg.st = "line" THEN {i} ELSE {}))
  <2>1. (Lined(now) \ none) \ {i} = Lined(now)
    BY <1>4 DEF none
  <2> QED BY <2>1
<1>6. kids \in Nat
  BY DEF CouncilInv
<1>7. Roomy(plan) => WaveFits(plan, waves, Turned(now, i, leg, none), kids')
  <2> SUFFICES ASSUME Roomy(plan) PROVE WaveFits(plan, waves, Turned(now, i, leg, none), kids')
    OBVIOUS
  <2> DEFINE p == plan
             w == waves
             n == kids
             n1 == kids'
  <2>1. WaveFits(p, w, now, n)
    BY DEF CouncilInv
  <2>2. p.max \in Nat /\ p.n \in Nat /\ n \in Nat /\ n1 \in Nat
    BY <1>1, <1>6
  <2>4. i \in DOMAIN now /\ leg.keep = now[i].keep /\ ~now[i].again /\ now[i].st # "retry"
    OBVIOUS
  <2>3. CASE \/ n1 = n /\ (leg.st \in {"thunk", "line", "granted"} => now[i].st \in {"thunk", "line", "granted"})
             \/ n1 = n + 1 /\ leg.st \notin {"thunk", "line", "granted"} /\ now[i].st \in {"thunk", "line", "granted"}
    <3> HIDE DEF p, w, n, n1, now
    <3>5. WaveFits(p, w, Turned(now, i, leg, none), n1)
      BY <1>1, <1>3, <2>1, <2>2, <2>3, <2>4, TurnFits
    <3> QED BY <3>5 DEF p, w, n1
  <2>5. CASE n1 = n + 1 /\ now[i].st = "first" /\ leg.st = "retry" /\ n + now[i].keep + Cardinality(Pend(now)) < p.max
    <3> HIDE DEF p, w, n, n1, now
    <3>5. WaveFits(p, w, Turned(now, i, leg, {}), n + 1)
      BY <1>1, <2>1, <2>2, <2>4, <2>5, RetryFits
    <3> QED BY <2>5, <3>5 DEF p, w, n1, none
  <2> QED BY <2>3, <2>5
<1> HIDE DEF now
<1>8. i \in DOMAIN S!Now /\ leg.keep = S!Now[i].keep /\ none \in SUBSET Lined(S!Now)
  BY <1>3 DEF now
<1>9. waves' = [waves EXCEPT ![Len(waves)] = Turned(S!Now, i, leg, none)]
      /\ IsLine(slots'.line, ((Lined(S!Now) \ none) \ {i}) \cup (IF leg.st = "line" THEN {i} ELSE {}))
      /\ (Roomy(plan) => WaveFits(plan, waves, Turned(S!Now, i, leg, none), kids'))
  BY <1>2, <1>5, <1>7 DEF now
<1> QED BY <1>3, <1>8, <1>9, LegTurns

\* A leg that asks for a slot: it has one at once or it waits.
LEMMA PulledLegs ==
  ASSUME CouncilInv, NEW i, S!Pulls(i)
  PROVE  CouncilInv'
<1> DEFINE now == S!Now
           m == now[i]
<1>1. waves # <<>> /\ i \in DOMAIN now /\ m.st = "thunk" /\ plan' = plan /\ kids' = kids /\ stopped' = stopped
  BY DEF S!Pulls, S!Live
<1>2. /\ m \in LegSet /\ ~m.again /\ IsLine(slots.line, Lined(now)) /\ kids \in Nat /\ stopped \in BOOLEAN
      /\ slots = [free |-> slots.free, line |-> slots.line]
  BY <1>1, NowIs DEF CouncilInv
<1>3. i \notin Lined(now)
  BY <1>1 DEF Lined
<1> DEFINE leg(reply) == S!Settled(m, reply, 0)
           put(st_) == [m EXCEPT !.st = st_]
<1>4. \A reply \in {"denied", "abort"} : /\ leg(reply) \in LegSet /\ leg(reply).keep = m.keep
                                         /\ leg(reply).st = "settled" /\ leg(reply).again = m.again
  BY <1>2, SettledIs, AnswersAre
<1>5. /\ put("granted") \in LegSet /\ put("granted").keep = m.keep /\ put("granted").st = "granted" /\ put("granted").again = m.again
      /\ put("line") \in LegSet /\ put("line").keep = m.keep /\ put("line").st = "line" /\ put("line").again = m.again
  BY <1>2 DEF LegSet, LegStates
<1>6. \/ \E reply \in {"denied", "abort"} : S!Become(S!With(i, leg(reply))) /\ slots' = slots
      \/ S!Become(S!With(i, put("granted"))) /\ slots' = S!Taken(slots)
      \/ S!Become(S!With(i, put("line"))) /\ slots' = S!Queued(slots, i)
  BY <1>1 DEF S!Pulls
<1> HIDE DEF leg, put
<1>7. ASSUME NEW reply \in {"denied", "abort"}, S!Become(S!With(i, leg(reply))), slots' = slots PROVE CouncilInv'
  <2> DEFINE l == leg(reply)
  <2>1. /\ l \in LegSet /\ l.keep = S!Now[i].keep /\ l.st = "settled" /\ ~l.again /\ S!Become(S!With(i, l))
    BY <1>2, <1>4, <1>7
  <2> HIDE DEF l
  <2>2. IsLine(slots'.line, Lined(S!Now) \cup (IF l.st = "line" THEN {i} ELSE {}))
    <3>1. Lined(S!Now) \cup (IF l.st = "line" THEN {i} ELSE {}) = Lined(S!Now)
      BY <2>1
    <3> QED BY <1>2, <1>7, <3>1
  <2>3. kids' \in Nat /\ stopped' \in BOOLEAN /\ slots' = [free |-> slots'.free, line |-> slots'.line] /\ kids' = kids
    BY <1>1, <1>2, <1>7
  <2> QED BY <1>1, <1>2, <2>1, <2>2, <2>3, LegStays
<1>8. ASSUME S!Become(S!With(i, put("granted"))), slots' = S!Taken(slots) PROVE CouncilInv'
  <2> DEFINE l == put("granted")
  <2>1. /\ l \in LegSet /\ l.keep = S!Now[i].keep /\ l.st = "granted" /\ ~l.again /\ S!Become(S!With(i, l))
    BY <1>2, <1>5, <1>8
  <2> HIDE DEF l
  <2>0. slots' = [free |-> slots'.free, line |-> slots.line]
    BY <1>2, <1>8 DEF S!Taken
  <2>2. IsLine(slots'.line, Lined(S!Now) \cup (IF l.st = "line" THEN {i} ELSE {}))
    <3>1. Lined(S!Now) \cup (IF l.st = "line" THEN {i} ELSE {}) = Lined(S!Now)
      BY <2>1
    <3>2. slots'.line = slots.line
      BY <2>0
    <3> QED BY <1>2, <3>1, <3>2
  <2>3. kids' \in Nat /\ stopped' \in BOOLEAN /\ slots' = [free |-> slots'.free, line |-> slots'.line] /\ kids' = kids
    BY <1>1, <1>2, <2>0
  <2> QED BY <1>1, <1>2, <2>1, <2>2, <2>3, LegStays
<1>9. ASSUME S!Become(S!With(i, put("line"))), slots' = S!Queued(slots, i) PROVE CouncilInv'
  <2> DEFINE l == put("line")
  <2>1. /\ l \in LegSet /\ l.keep = S!Now[i].keep /\ l.st = "line" /\ ~l.again /\ S!Become(S!With(i, l))
    BY <1>2, <1>5, <1>9
  <2> HIDE DEF l
  <2>0. slots' = [free |-> slots.free, line |-> Append(slots.line, i)]
    BY <1>2, <1>9 DEF S!Queued
  <2>2. IsLine(slots'.line, Lined(S!Now) \cup (IF l.st = "line" THEN {i} ELSE {}))
    <3> DEFINE q == slots.line
               W == Lined(S!Now)
    <3>1. IsLine(q, W) /\ i \notin W
      BY <1>2, <1>3
    <3> HIDE DEF q, W
    <3>2. IsLine(Append(q, i), W \cup {i})
      BY <3>1, LineGrows
    <3>3. slots'.line = Append(q, i)
      BY <2>0 DEF q
    <3> QED BY <2>1, <3>2, <3>3 DEF W
  <2>3. kids' \in Nat /\ stopped' \in BOOLEAN /\ slots' = [free |-> slots'.free, line |-> slots'.line] /\ kids' = kids
    BY <1>1, <1>2, <2>0
  <2> QED BY <1>1, <1>2, <2>1, <2>2, <2>3, LegStays
<1> QED BY <1>6, <1>7, <1>8, <1>9

\* A leg that has a slot: with the limit reached it throws, which no plan that fits can see.
LEMMA GrantedLegFits ==
  ASSUME CouncilInv, waves # <<>>, NEW i \in DOMAIN S!Now, S!Now[i].st = "granted", Roomy(plan)
  PROVE  ~S!Spent
<1> DEFINE c == Cardinality(Pend(S!Now))
<1>1. WaveFits(plan, waves, S!Now, kids) /\ kids \in Nat /\ plan.max \in Nat /\ plan.budget = 0 /\ S!Now \in Seq(LegSet)
  BY NowIs DEF CouncilInv, Roomy
<1>2. PICK x \in Nat : kids + c + x <= plan.max
  BY <1>1 DEF WaveFits
<1>3. c \in Nat /\ c > 0
  <2>1. i \in Pend(S!Now)
    BY DEF Pend
  <2>2. IsFiniteSet(Pend(S!Now)) /\ c \in Nat
    BY <1>1, CountsOfWave
  <2> QED BY <2>1, <2>2, FS_EmptySet
<1> HIDE DEF c
<1>4. kids < plan.max
  BY <1>1, <1>2, <1>3
<1> QED BY <1>1, <1>4 DEF S!Spent

\* A leg that throws had a slot, and no room: none does in a plan that fits.
LEMMA FatalLegs ==
  ASSUME CouncilInv, waves # <<>>, plan' = plan, kids' = kids, stopped' = stopped,
         NEW i \in DOMAIN S!Now, S!Now[i].st = "granted", S!Spent, slots' = S!Returned(slots),
         S!Become([j \in DOMAIN S!Now |->
             CASE j = i -> [S!Now[j] EXCEPT !.st = "fatal"]
               [] j # i /\ j \in S!Heir(slots) -> [S!Now[j] EXCEPT !.st = "granted"]
               [] j # i /\ S!Now[j].st = "thunk" -> [S!Now[j] EXCEPT !.st = "dropped"]
               [] OTHER -> S!Now[j]])
  PROVE  CouncilInv'
<1> DEFINE now == S!Now
           H == S!Heir(slots)
           new == [j \in DOMAIN now |->
             CASE j = i -> [now[j] EXCEPT !.st = "fatal"]
               [] j # i /\ j \in H -> [now[j] EXCEPT !.st = "granted"]
               [] j # i /\ now[j].st = "thunk" -> [now[j] EXCEPT !.st = "dropped"]
               [] OTHER -> now[j]]
<1>0. ~Roomy(plan)
  BY GrantedLegFits
<1>1. /\ now \in Seq(LegSet) /\ plan.name \in Names /\ IsLine(slots.line, Lined(now)) /\ kids \in Nat /\ stopped \in BOOLEAN
      /\ \A j \in DOMAIN now : now[j] \in LegSet /\ (now[j].again => now[j].st = "settled")
      /\ slots = [free |-> slots.free, line |-> slots.line]
  BY NowIs DEF CouncilInv
<1>2. waves' = [waves EXCEPT ![Len(waves)] = new]
  <2>1. [j \in DOMAIN now |-> new[j]] = new
    OBVIOUS
  <2> QED BY <2>1 DEF S!Become
<1>3. /\ H \in SUBSET Lined(now)
      /\ S!Returned(slots) = [free |-> S!Returned(slots).free, line |-> S!Returned(slots).line]
      /\ IsLine(S!Returned(slots).line, Lined(now) \ H)
  <2> DEFINE W == Lined(now)
  <2>2. IsLine(slots.line, W)
    BY <1>1
  <2> HIDE DEF W
  <2> QED BY <1>1, <2>2, SlotBack DEF W
<1>4. now[i].st = "granted" /\ i \in DOMAIN now
  OBVIOUS
<1> HIDE DEF H, now
<1>5. \A j \in DOMAIN now : /\ new[j] \in LegSet /\ (new[j].again => new[j].st = "settled")
                            /\ new[j].st = "line" <=> now[j].st = "line" /\ j \notin H
  <2> SUFFICES ASSUME NEW j \in DOMAIN now
               PROVE  /\ new[j] \in LegSet /\ (new[j].again => new[j].st = "settled")
                      /\ new[j].st = "line" <=> now[j].st = "line" /\ j \notin H
    OBVIOUS
  <2>0. now[j] \in LegSet /\ (now[j].again => now[j].st = "settled")
    BY <1>1
  <2>00. j \in H => now[j].st = "line"
    BY <1>3 DEF Lined
  <2> DEFINE m == now[j]
  <2>m. /\ \A st_ \in {"fatal", "granted", "dropped"} :
             [m EXCEPT !.st = st_] \in LegSet /\ [m EXCEPT !.st = st_].again = m.again /\ [m EXCEPT !.st = st_].st = st_
    BY <2>0 DEF LegSet, LegStates
  <2>n. m.st \in {"granted", "line", "thunk"} => ~m.again
    BY <2>0
  <2>1. CASE j = i
    <3>1. new[j] = [m EXCEPT !.st = "fatal"]
      BY <2>1
    <3> QED BY <1>4, <2>1, <2>m, <2>n, <3>1
  <2>2. CASE j # i /\ j \in H
    <3>1. new[j] = [m EXCEPT !.st = "granted"]
      BY <2>00, <2>2
    <3> QED BY <2>00, <2>2, <2>m, <2>n, <3>1
  <2>3. CASE j # i /\ j \notin H /\ m.st = "thunk"
    <3>1. new[j] = [m EXCEPT !.st = "dropped"]
      BY <2>3
    <3> QED BY <2>3, <2>m, <2>n, <3>1
  <2>4. CASE j # i /\ j \notin H /\ m.st # "thunk"
    <3>1. new[j] = m
      BY <2>4
    <3> QED BY <2>0, <2>4, <3>1
  <2> QED BY <2>1, <2>2, <2>3, <2>4
<1>6. DOMAIN new = DOMAIN now /\ DOMAIN now = 1..Len(now) /\ Len(now) \in Nat /\ new = [j \in 1..Len(now) |-> new[j]]
  BY <1>1
<1> HIDE DEF new
<1>7. Lined(new) = Lined(now) \ H
  BY <1>5, <1>6 DEF Lined
<1>8. new \in [1..Len(now) -> LegSet]
  BY <1>5, <1>6
<1>9. new \in Seq(LegSet) /\ Len(new) = Len(S!Now)
  BY <1>6, <1>8, SeqDef DEF now
<1>10. /\ slots' = [free |-> slots'.free, line |-> slots'.line] /\ IsLine(slots'.line, Lined(new))
       /\ kids' \in Nat /\ stopped' \in BOOLEAN
  BY <1>1, <1>3, <1>7
<1>11. \A j \in DOMAIN new : new[j].again => new[j].st = "settled"
  BY <1>5, <1>6
<1> QED BY <1>0, <1>1, <1>2, <1>9, <1>10, <1>11, CouncilMoves

\* A leg whose slot came through begins.
LEMMA ResumedLegs ==
  ASSUME CouncilInv, NEW i, S!Resumes(i)
  PROVE  CouncilInv'
<1> DEFINE m == S!Now[i]
           l == S!Settled(m, "abort", 0)
           g == [m EXCEPT !.st = "first"]
<1>1. waves # <<>> /\ i \in DOMAIN S!Now /\ m.st = "granted" /\ plan' = plan /\ stopped' = stopped
  BY DEF S!Resumes, S!Live
<1>2. m \in LegSet /\ ~m.again /\ kids \in Nat /\ stopped \in BOOLEAN /\ IsLine(slots.line, Lined(S!Now))
      /\ slots = [free |-> slots.free, line |-> slots.line]
  BY <1>1, NowIs DEF CouncilInv
<1>3. l \in LegSet /\ l.keep = m.keep /\ l.st = "settled" /\ l.again = m.again
  <2> DEFINE zero == 0
             reply == "abort"
  <2>1. zero \in Nat /\ reply \in S!Answers
    BY AnswersAre
  <2> HIDE DEF zero, reply
  <2>2. S!Settled(m, reply, zero) \in LegSet /\ S!Settled(m, reply, zero).keep = m.keep
        /\ S!Settled(m, reply, zero).st = "settled" /\ S!Settled(m, reply, zero).again = m.again
    BY <1>2, <2>1, SettledIs
  <2> QED BY <2>2 DEF zero, reply
<1>4. g \in LegSet /\ g.keep = m.keep /\ g.st = "first" /\ g.again = m.again
  BY <1>2 DEF LegSet, LegStates
<1>5. \/ S!Leaves(i, l) /\ kids' = kids
      \/ S!Leaves(i, l) /\ kids' = kids + 1
      \/ S!Become(S!With(i, g)) /\ slots' = slots /\ kids' = kids + 1
      \/ /\ S!Spent /\ slots' = S!Returned(slots) /\ kids' = kids
         /\ S!Become([j \in DOMAIN S!Now |->
             CASE j = i -> [S!Now[j] EXCEPT !.st = "fatal"]
               [] j # i /\ j \in S!Heir(slots) -> [S!Now[j] EXCEPT !.st = "granted"]
               [] j # i /\ S!Now[j].st = "thunk" -> [S!Now[j] EXCEPT !.st = "dropped"]
               [] OTHER -> S!Now[j]])
  BY <1>1 DEF S!Resumes
<1> HIDE DEF l, g
<1>6. CASE S!Leaves(i, l) /\ kids' \in {kids, kids + 1}
  <2>1. kids' = kids \/ (kids' = kids + 1 /\ S!Now[i].st = "granted")
    BY <1>1, <1>6
  <2>2. S!Now[i].st \in {"granted", "first", "retry"} /\ l.keep = S!Now[i].keep /\ (S!Now[i].st = "retry" => l.again)
    BY <1>1, <1>3
  <2>3. stopped' \in BOOLEAN
    BY <1>1, <1>2
  <2> QED BY <1>1, <1>3, <1>6, <2>1, <2>2, <2>3, LegLeaves
<1>7. CASE S!Become(S!With(i, g)) /\ slots' = slots /\ kids' = kids + 1
  <2>1. IsLine(slots'.line, Lined(S!Now) \cup (IF g.st = "line" THEN {i} ELSE {}))
    <3>1. Lined(S!Now) \cup (IF g.st = "line" THEN {i} ELSE {}) = Lined(S!Now)
      BY <1>4
    <3> QED BY <1>2, <1>7, <3>1
  <2>2. kids' \in Nat /\ stopped' \in BOOLEAN /\ slots' = [free |-> slots'.free, line |-> slots'.line]
    BY <1>1, <1>2, <1>7
  <2> QED BY <1>1, <1>2, <1>4, <1>7, <2>1, <2>2, LegStays
<1>8. CASE /\ S!Spent /\ slots' = S!Returned(slots) /\ kids' = kids
           /\ S!Become([j \in DOMAIN S!Now |->
             CASE j = i -> [S!Now[j] EXCEPT !.st = "fatal"]
               [] j # i /\ j \in S!Heir(slots) -> [S!Now[j] EXCEPT !.st = "granted"]
               [] j # i /\ S!Now[j].st = "thunk" -> [S!Now[j] EXCEPT !.st = "dropped"]
               [] OTHER -> S!Now[j]])
  BY <1>1, <1>8, FatalLegs
<1> QED BY <1>5, <1>6, <1>7, <1>8

\* A leg whose engine answers.
LEMMA EndedLegs ==
  ASSUME CouncilInv, NEW i, NEW halted, S!FirstEnds(i, halted)
  PROVE  CouncilInv'
<1> DEFINE m == S!Now[i]
<1>1. waves # <<>> /\ i \in DOMAIN S!Now /\ m.st = "first" /\ plan' = plan /\ stopped' = stopped
  BY DEF S!FirstEnds, S!Live
<1>2. /\ m \in LegSet /\ ~m.again /\ kids \in Nat /\ stopped \in BOOLEAN /\ IsLine(slots.line, Lined(S!Now))
      /\ slots = [free |-> slots.free, line |-> slots.line] /\ plan \in Plans
  BY <1>1, NowIs DEF CouncilInv
<1>3. \E reply \in plan.says[m.role] \cup {"abort"} : \E cost \in S!Costs(reply) :
        \/ S!Leaves(i, S!Settled(m, reply, cost)) /\ kids' = kids
        \/ S!Leaves(i, S!Settled(m, "abort", cost)) /\ kids' = kids
        \/ /\ S!Become(S!With(i, [m EXCEPT !.st = "retry", !.used = cost])) /\ S!Affords(i)
           /\ kids' = kids + 1 /\ slots' = slots
  <2>1. PICK reply \in plan.says[m.role] \cup {"abort"} : \E cost \in S!Costs(reply) :
          IF S!Recovers(i, reply, halted)
          THEN \/ /\ S!Become(S!With(i, [m EXCEPT !.st = "retry", !.used = cost]))
                  /\ kids' = kids + 1 /\ UNCHANGED slots
               \/ S!Leaves(i, S!Settled(m, "abort", cost)) /\ UNCHANGED kids
          ELSE S!Leaves(i, S!Settled(m, reply, cost)) /\ UNCHANGED kids
    BY DEF S!FirstEnds
  <2>2. PICK cost \in S!Costs(reply) :
          IF S!Recovers(i, reply, halted)
          THEN \/ /\ S!Become(S!With(i, [m EXCEPT !.st = "retry", !.used = cost]))
                  /\ kids' = kids + 1 /\ UNCHANGED slots
               \/ S!Leaves(i, S!Settled(m, "abort", cost)) /\ UNCHANGED kids
          ELSE S!Leaves(i, S!Settled(m, reply, cost)) /\ UNCHANGED kids
    BY <2>1
  <2>3. S!Recovers(i, reply, halted) => S!Affords(i)
    BY DEF S!Recovers
  <2>4. CASE S!Recovers(i, reply, halted)
    BY <2>2, <2>3, <2>4
  <2>5. CASE ~S!Recovers(i, reply, halted)
    BY <2>2, <2>5
  <2> QED BY <2>4, <2>5
<1>a. PICK reply \in plan.says[m.role] \cup {"abort"} : \E cost \in S!Costs(reply) :
        \/ S!Leaves(i, S!Settled(m, reply, cost)) /\ kids' = kids
        \/ S!Leaves(i, S!Settled(m, "abort", cost)) /\ kids' = kids
        \/ /\ S!Become(S!With(i, [m EXCEPT !.st = "retry", !.used = cost])) /\ S!Affords(i)
           /\ kids' = kids + 1 /\ slots' = slots
  BY <1>3
<1>b. PICK cost \in S!Costs(reply) :
        \/ S!Leaves(i, S!Settled(m, reply, cost)) /\ kids' = kids
        \/ S!Leaves(i, S!Settled(m, "abort", cost)) /\ kids' = kids
        \/ /\ S!Become(S!With(i, [m EXCEPT !.st = "retry", !.used = cost])) /\ S!Affords(i)
           /\ kids' = kids + 1 /\ slots' = slots
  BY <1>a
<1>4. reply \in S!Answers /\ cost \in Nat /\ "abort" \in S!Answers
  <2>1. m.role \in Roles
    BY <1>2 DEF LegSet
  <2> HIDE DEF m
  <2> QED BY <1>2, <1>b, <2>1, AnswersAre, CostsAre
<1>5. ASSUME NEW word \in S!Answers, S!Leaves(i, S!Settled(m, word, cost)), kids' = kids PROVE CouncilInv'
  <2> DEFINE l == S!Settled(m, word, cost)
  <2>1. l \in LegSet /\ l.keep = S!Now[i].keep /\ l.st = "settled" /\ S!Leaves(i, l)
    BY <1>2, <1>4, <1>5, SettledIs
  <2> HIDE DEF l
  <2>2. S!Now[i].st \in {"granted", "first", "retry"} /\ (S!Now[i].st = "retry" => l.again) /\ stopped' \in BOOLEAN
    BY <1>1, <1>2
  <2> QED BY <1>1, <1>5, <2>1, <2>2, LegLeaves
<1>6. CASE /\ S!Become(S!With(i, [m EXCEPT !.st = "retry", !.used = cost])) /\ S!Affords(i)
           /\ kids' = kids + 1 /\ slots' = slots
  <2> DEFINE l == [m EXCEPT !.st = "retry", !.used = cost]
  <2>1. l \in LegSet /\ l.keep = m.keep /\ l.st = "retry" /\ ~l.again
    <3>1. \A x \in LegSet : \A c \in Nat : LET y == [x EXCEPT !.st = "retry", !.used = c] IN
            y \in LegSet /\ y.keep = x.keep /\ y.st = "retry" /\ y.again = x.again
      BY DEF LegSet, LegStates
    <3> HIDE DEF m
    <3> QED BY <1>2, <1>4, <3>1
  <2>2. S!Become(S!With(i, l))
    BY <1>6
  <2> HIDE DEF l
  <2>3. IsLine(slots'.line, Lined(S!Now) \cup (IF l.st = "line" THEN {i} ELSE {}))
    <3>1. Lined(S!Now) \cup (IF l.st = "line" THEN {i} ELSE {}) = Lined(S!Now)
      BY <2>1
    <3> QED BY <1>2, <1>6, <3>1
  <2>4. kids' \in Nat /\ stopped' \in BOOLEAN /\ slots' = [free |-> slots'.free, line |-> slots'.line]
    BY <1>1, <1>2, <1>6
  <2>5. kids + S!Now[i].keep + Cardinality(Pend(S!Now)) < plan.max
    <3>1. S!In({"thunk", "line", "granted"}) = Pend(S!Now)
      BY DEF S!In, Pend
    <3> QED BY <1>6, <3>1, CountS DEF S!Affords
  <2> QED BY <1>1, <1>2, <1>6, <2>1, <2>2, <2>3, <2>4, <2>5, LegStays
<1> QED BY <1>b, <1>4, <1>5, <1>6

\* A leg that tries its fallback.
LEMMA RetriedLegs ==
  ASSUME CouncilInv, NEW i, NEW halted, S!RetryEnds(i, halted)
  PROVE  CouncilInv'
<1> DEFINE m == S!Now[i]
<1>1. waves # <<>> /\ i \in DOMAIN S!Now /\ m.st = "retry" /\ plan' = plan /\ stopped' = stopped /\ kids' = kids
  BY DEF S!RetryEnds, S!Live
<1>2. /\ m \in LegSet /\ kids \in Nat /\ stopped \in BOOLEAN /\ plan \in Plans
  BY <1>1, NowIs DEF CouncilInv
<1>3. PICK reply \in plan.says[m.role] \cup {"abort"} : \E cost \in S!Costs(reply) :
        S!Leaves(i, [S!Settled(m, reply, S!Bill(m, cost)) EXCEPT !.again = TRUE])
  BY DEF S!RetryEnds
<1>b. PICK cost \in S!Costs(reply) :
        S!Leaves(i, [S!Settled(m, reply, S!Bill(m, cost)) EXCEPT !.again = TRUE])
  BY <1>3
<1>4. reply \in S!Answers /\ cost \in Nat /\ m.used \in Nat
  <2>1. m.role \in Roles /\ m.used \in Nat
    BY <1>2 DEF LegSet
  <2> HIDE DEF m
  <2> QED BY <1>2, <1>b, <2>1, AnswersAre, CostsAre
<1> DEFINE bill == S!Bill(m, cost)
           k == S!Settled(m, reply, bill)
           l == [k EXCEPT !.again = TRUE]
<1>5. bill \in Nat
  BY <1>4 DEF S!Bill
<1>6. S!Leaves(i, l)
  BY <1>b
<1> HIDE DEF bill
<1>7. k \in LegSet /\ k.keep = m.keep /\ k.st = "settled"
  <2> HIDE DEF m
  <2> QED BY <1>2, <1>4, <1>5, SettledIs
<1> HIDE DEF k
<1>8. l \in LegSet /\ l.keep = m.keep /\ l.st = "settled" /\ l.again
  BY <1>7 DEF LegSet
<1> HIDE DEF l
<1>9. stopped' \in BOOLEAN /\ S!Now[i].st \in {"granted", "first", "retry"} /\ l.keep = S!Now[i].keep
  BY <1>1, <1>2, <1>8
<1> QED BY <1>1, <1>6, <1>8, <1>9, LegLeaves

\* The stop empties the line; whoever has a slot finds out by himself.
LEMMA StoppedLegs ==
  ASSUME CouncilInv, S!StopRun
  PROVE  CouncilInv'
<1>1. plan' = plan /\ kids' = kids /\ stopped' = TRUE
  BY DEF S!StopRun
<1>2. CASE waves = <<>>
  <2>1. waves' = waves /\ slots' = slots
    BY <1>2 DEF S!StopRun
  <2> QED BY <1>1, <1>2, <2>1 DEF CouncilInv
<1>3. CASE waves # <<>>
  <2> DEFINE now == S!Now
             new == [j \in DOMAIN now |-> IF now[j].st = "line" THEN S!Settled(now[j], "abort", 0) ELSE now[j]]
  <2>1. /\ now \in Seq(LegSet) /\ plan.name \in Names /\ plan.max \in Nat /\ plan.n \in Nat /\ kids \in Nat
        /\ \A j \in DOMAIN now : now[j] \in LegSet /\ (now[j].again => now[j].st = "settled")
        /\ slots = [free |-> slots.free, line |-> slots.line]
    BY <1>3, NowIs DEF CouncilInv
  <2>2. slots' = S!Emptied(slots) /\ waves' = [waves EXCEPT ![Len(waves)] = new]
    <3>1. slots' = S!Emptied(slots) /\ S!Become(new)
      BY <1>3 DEF S!StopRun
    <3>2. [j \in DOMAIN now |-> new[j]] = new
      OBVIOUS
    <3> QED BY <3>1, <3>2 DEF S!Become
  <2>3. Roomy(plan) => WaveFits(plan, waves, now, kids)
    BY <1>3 DEF CouncilInv
  <2> HIDE DEF now
  <2>4. \A j \in DOMAIN now :
          /\ new[j] \in LegSet /\ new[j].keep = now[j].keep /\ new[j].again = now[j].again
          /\ now[j].st = "line" => new[j].st = "settled"
          /\ now[j].st # "line" => new[j] = now[j]
    <3> TAKE j \in DOMAIN now
    <3> DEFINE zero == 0
               reply == "abort"
               m == now[j]
    <3>1. zero \in Nat /\ reply \in S!Answers /\ m \in LegSet
      BY <2>1, AnswersAre
    <3>2. new[j] = IF m.st = "line" THEN S!Settled(m, reply, zero) ELSE m
      OBVIOUS
    <3> HIDE DEF zero, reply, new
    <3>3. S!Settled(m, reply, zero) \in LegSet /\ S!Settled(m, reply, zero).keep = m.keep
          /\ S!Settled(m, reply, zero).st = "settled" /\ S!Settled(m, reply, zero).again = m.again
      <4> HIDE DEF m
      <4> QED BY <3>1, SettledIs
    <3> QED BY <3>1, <3>2, <3>3
  <2>5. DOMAIN new = DOMAIN now /\ DOMAIN now = 1..Len(now) /\ Len(now) \in Nat /\ new = [j \in 1..Len(now) |-> new[j]]
    BY <2>1
  <2> HIDE DEF new
  <2>6. new \in [1..Len(now) -> LegSet]
    BY <2>4, <2>5
  <2>7. new \in Seq(LegSet) /\ Len(new) = Len(now)
    BY <2>5, <2>6, SeqDef
  <2>8. Lined(new) = {} /\ Pend(new) \in SUBSET Pend(now) /\ Again(new) = Again(now)
    BY <2>4, <2>5 DEF Lined, Pend, Again
  <2>9. slots' = [free |-> slots.free, line |-> <<>>]
    BY <2>1, <2>2 DEF S!Emptied
  <2>10. IsLine(slots'.line, Lined(new)) /\ slots' = [free |-> slots'.free, line |-> slots'.line]
    BY <2>8, <2>9, NobodyInLine
  <2>11. Roomy(plan) => WaveFits(plan, waves, new, kids)
    <3> SUFFICES ASSUME Roomy(plan) PROVE WaveFits(plan, waves, new, kids)
      OBVIOUS
    <3> DEFINE p == plan
               w == waves
               n == kids
               a == Cardinality(Pend(now))
               b == Cardinality(Pend(new))
               c == Cardinality(Again(now))
               d == Cardinality(Again(new))
    <3>1. WaveFits(p, w, now, n) /\ p.max \in Nat /\ p.n \in Nat /\ n \in Nat
      BY <2>1, <2>3
    <3>2. IsFiniteSet(Pend(now)) /\ a \in Nat /\ c \in Nat /\ b \in Nat
      BY <2>1, <2>7, CountsOfWave
    <3>3. b <= a
      BY <2>8, <3>2, FS_Subset
    <3>4. d >= c
      BY <2>8, <3>2
    <3>5. n + b <= n + a
      <4> HIDE DEF a, b
      <4> QED BY <3>1, <3>2, <3>3
    <3>6. \A j \in DOMAIN now : new[j].keep = now[j].keep /\ new[j].st \notin {"fatal", "dropped"}
      BY <2>4, <3>1 DEF WaveFits
    <3> HIDE DEF p, w, n
    <3>7. WaveFits(p, w, new, n)
      BY <2>1, <2>5, <2>7, <3>1, <3>4, <3>5, <3>6, FitsOn
    <3> QED BY <3>7 DEF p, w, n
  <2>12. \A j \in DOMAIN new : new[j].again => new[j].st = "settled"
    <3> TAKE j \in DOMAIN new
    <3>1. j \in DOMAIN now /\ (now[j].again => now[j].st = "settled")
      BY <2>1, <2>5
    <3> QED BY <2>4, <3>1
  <2>13. Len(new) = Len(S!Now) /\ kids' \in Nat /\ stopped' \in BOOLEAN /\ (Roomy(plan) => WaveFits(plan, waves, new, kids'))
    BY <1>1, <2>1, <2>7, <2>11 DEF now
  <2> QED BY <1>1, <1>3, <2>1, <2>2, <2>7, <2>10, <2>12, <2>13, CouncilMoves
<1> QED BY <1>2, <1>3

\* A second look is offered only when the whole panel can be paid for once more.
LEMMA ReflectionIsPaid ==
  ASSUME NEW p, NEW w, S!Reflects(p, w)
  PROVE  p.n + Cardinality({i \in DOMAIN w[1] : w[1][i].again}) + p.n <= p.max
BY CountS DEF S!Reflects, S!Quantify

\* A wave that has just begun.
LEMMA BegunFits ==
  ASSUME NEW crew \in Seq(AskSet)
  PROVE  /\ S!Begun(crew) \in Seq(LegSet) /\ Lined(S!Begun(crew)) = {} /\ Again(S!Begun(crew)) = {}
         /\ Cardinality(Pend(S!Begun(crew))) = Len(crew) /\ DOMAIN S!Begun(crew) = 1..Len(crew) /\ Len(crew) \in Nat
         /\ \A i \in DOMAIN S!Begun(crew) : /\ S!Begun(crew)[i].st = "thunk" /\ ~S!Begun(crew)[i].again
                                            /\ S!Begun(crew)[i].keep = crew[i].keep
<1> DEFINE b == S!Begun(crew)
<1>1. b \in Seq(LegSet) /\ Len(b) = Len(crew) /\ \A i \in 1..Len(crew) : b[i].keep = crew[i].keep /\ b[i].st = "thunk" /\ ~b[i].again
  BY BegunIs
<1> HIDE DEF b
<1>2. DOMAIN b = 1..Len(crew) /\ Len(crew) \in Nat
  BY <1>1
<1>3. Lined(b) = {} /\ Again(b) = {} /\ Pend(b) = 1..Len(crew)
  BY <1>1, <1>2 DEF Lined, Again, Pend
<1>4. Cardinality(Pend(b)) = Len(crew)
  BY <1>2, <1>3, OneToLen
<1> QED BY <1>1, <1>2, <1>3, <1>4 DEF b

\* A wave fits when the one before has settled.
LEMMA NextWaveFits ==
  ASSUME NEW p, p.name \in Names, p.n \in Nat, p.max \in Nat, Roomy(p), NEW w \in Seq(Seq(LegSet)), NEW n \in Nat,
         w = <<>> => n = 0,
         w # <<>> => WaveFits(p, w, w[Len(w)], n) /\ \A i \in DOMAIN w[Len(w)] : w[Len(w)][i].st = "settled",
         NEW crew \in Seq(AskSet), NEW x \in Nat, MayFollow(p, w, crew, x)
  PROVE  WaveFits(p, Append(w, S!Begun(crew)), S!Begun(crew), n)
<1> DEFINE b == S!Begun(crew)
           v == Append(w, b)
           c == Len(crew)
           now == w[Len(w)]
<1>1. /\ b \in Seq(LegSet) /\ Again(b) = {} /\ Cardinality(Pend(b)) = c /\ DOMAIN b = 1..c /\ c \in Nat
      /\ \A i \in DOMAIN b : b[i].st = "thunk" /\ b[i].keep = crew[i].keep
  BY BegunFits
<1>2. /\ KeepsFor(p, v, x) /\ Shape(p, v) /\ \A i \in 1..c : crew[i].keep = x
  BY DEF MayFollow
<1> HIDE DEF b
<1>3. Len(v) = Len(w) + 1 /\ v[Len(w) + 1] = b /\ Len(w) \in Nat /\ (w = <<>> <=> Len(w) = 0)
  BY <1>1, OneMoreWave
<1> HIDE DEF v
<1>4. n + c + x <= p.max
  <2>1. CASE w = <<>>
    <3>1. n = 0 /\ c + x <= p.max
      BY <2>1 DEF MayFollow, Roomy
    <3> QED BY <1>1, <3>1
  <2>2. CASE w # <<>>
    <3>0. WaveFits(p, w, now, n) /\ \A i \in DOMAIN now : now[i].st = "settled"
      BY <2>2
    <3>1. Pend(now) = {} /\ Again(now) = {i \in DOMAIN now : now[i].again}
      BY <3>0 DEF Pend, Again
    <3>2. Cardinality(Pend(now)) = 0
      BY <3>1, FS_EmptySet
    <3>3. PICK y \in Nat : KeepsFor(p, w, y) /\ n + Cardinality(Pend(now)) + y <= p.max
      BY <3>0 DEF WaveFits
    <3>4. CASE p.name # "magi"
      <4>1. c + x <= y
        BY <2>2, <3>3, <3>4 DEF MayFollow
      <4>2. n + 0 + y <= p.max
        BY <3>2, <3>3
      <4> QED BY <1>1, <3>3, <4>1, <4>2
    <3>5. CASE p.name = "magi"
      <4>1. Len(w) = 1 /\ c = p.n /\ S!Reflects(p, w)
        BY <2>2, <3>5 DEF MayFollow
      <4>2. x = 0
        BY <1>2, <3>5 DEF KeepsFor
      <4> DEFINE r == Cardinality(Again(now))
      <4>3. p.n + r + p.n <= p.max
        BY <3>1, <4>1, ReflectionIsPaid
      <4>4. n + 0 <= p.n + r
        BY <3>0, <3>2, <3>5, <4>1 DEF WaveFits
      <4>5. r \in Nat
        <5>1. now \in Seq(LegSet)
          <6>1. Len(w) \in 1..Len(w)
            BY <4>1
          <6> QED BY <6>1
        <5> HIDE DEF now
        <5> QED BY <5>1, CountsOfWave
      <4> HIDE DEF r
      <4> QED BY <1>1, <4>1, <4>2, <4>3, <4>4, <4>5
    <3> QED BY <3>4, <3>5
  <2> QED BY <2>1, <2>2
<1>5. p.name = "magi" /\ Len(v) = 1 => n + c <= p.n + 0
  <2> SUFFICES ASSUME p.name = "magi", Len(v) = 1 PROVE n + c <= p.n + 0
    OBVIOUS
  <2>0. Len(w) = 0
    <3> DEFINE lv == Len(v)
               lw == Len(w)
    <3>1. lv = lw + 1 /\ lw \in Nat /\ lv = 1
      BY <1>3
    <3> HIDE DEF lv, lw
    <3>2. lw = 0
      BY <3>1
    <3> QED BY <3>2 DEF lw
  <2>1. n = 0 /\ v[1] = b
    <3>1. w = <<>>
      BY <1>3, <2>0
    <3>2. v[0 + 1] = b
      BY <1>3, <2>0
    <3>3. n = 0
      BY <3>1
    <3> QED BY <3>2, <3>3
  <2>2. Len(v[1]) = p.n
    BY <1>2 DEF Shape, Panels
  <2>3. c = p.n
    BY <1>1, <2>1, <2>2
  <2> QED BY <2>1, <2>3
<1>6. Cardinality(Again(b)) = 0
  BY <1>1, FS_EmptySet
<1> HIDE DEF c
<1>7. WaveFits(p, v, b, n)
  BY <1>1, <1>2, <1>4, <1>5, <1>6 DEF WaveFits
<1> QED BY <1>7 DEF b, v

\* A strategy that goes on from a wave that has settled, or ends.
LEMMA ContinuedWaves ==
  ASSUME CouncilInv, S!Continue
  PROVE  CouncilInv'
<1>1. plan' = plan /\ slots' = slots /\ kids' = kids /\ stopped' = stopped
  BY DEF S!Continue
<1>2. PICK s \in S!Decide(plan, waves, stopped) : S!Takes(s)
  BY DEF S!Continue
<1>3. /\ plan \in Plans /\ plan.name \in Names /\ plan.n \in Nat /\ plan.max \in Nat /\ kids \in Nat /\ stopped \in BOOLEAN
      /\ waves \in Seq(Seq(LegSet)) /\ Shape(plan, waves) /\ slots = [free |-> slots.free, line |-> slots.line]
  BY PlansAreCounted DEF CouncilInv, Names
<1>4. CASE s.act # "wave"
  <2>1. waves' = waves
    BY <1>2, <1>4 DEF S!Takes
  <2>2. S!Now' = S!Now /\ (Roomy(plan') <=> Roomy(plan))
    BY <1>1, <2>1 DEF S!Now, Roomy
  <2> QED BY <1>1, <2>1, <2>2 DEF CouncilInv, Roomy
<1>5. CASE s.act = "wave"
  <2> DEFINE crew == s.asks
             b == S!Begun(crew)
             w == waves
  <2>1. PICK x \in Nat : MayFollow(plan, w, crew, x)
    BY <1>3, <1>5, DecideFollows
  <2>2. crew \in Seq(AskSet) /\ Shape(plan, Append(w, b))
    BY <2>1 DEF MayFollow
  <2>3. waves' = Append(w, b)
    BY <1>2, <1>5 DEF S!Takes
  <2>4. waves # <<>> => /\ S!Now = waves[Len(waves)] /\ Lined(S!Now) = {}
                        /\ \A i \in DOMAIN S!Now : S!Now[i].st = "settled"
    BY DEF S!Continue, S!In, S!Now, Lined
  <2>5. slots.line = <<>>
    <3>1. CASE waves = <<>>
      BY <3>1 DEF CouncilInv
    <3>2. CASE waves # <<>>
      <4> DEFINE q == slots.line
                 W == Lined(S!Now)
      <4>1. IsLine(q, W) /\ W = {}
        BY <2>4, <3>2 DEF CouncilInv
      <4> HIDE DEF q, W
      <4>2. q = <<>>
        BY <4>1, EmptyLine
      <4> QED BY <4>2 DEF q
    <3> QED BY <3>1, <3>2
  <2>6. Roomy(plan) => WaveFits(plan, Append(w, b), b, kids)
    <3> SUFFICES ASSUME Roomy(plan) PROVE WaveFits(plan, Append(w, b), b, kids)
      OBVIOUS
    <3> DEFINE p == plan
               n == kids
    <3>1. p.name \in Names /\ p.n \in Nat /\ p.max \in Nat /\ Roomy(p) /\ n \in Nat /\ w \in Seq(Seq(LegSet)) /\ MayFollow(p, w, crew, x)
      BY <1>3, <2>1
    <3>2. w = <<>> => n = 0
      BY DEF CouncilInv
    <3>3. w # <<>> => WaveFits(p, w, w[Len(w)], n) /\ \A i \in DOMAIN w[Len(w)] : w[Len(w)][i].st = "settled"
      BY <2>4 DEF CouncilInv
    <3> HIDE DEF p, n, w, crew
    <3>4. WaveFits(p, Append(w, S!Begun(crew)), S!Begun(crew), n)
      BY <2>2, <3>1, <3>2, <3>3, NextWaveFits
    <3> QED BY <3>4 DEF p, n
  <2>7. /\ b \in Seq(LegSet) /\ Lined(b) = {} /\ \A i \in DOMAIN b : ~b[i].again
    <3> HIDE DEF crew
    <3> QED BY <2>2, BegunFits
  <2> HIDE DEF crew, b, w
  <2>8. w \in Seq(Seq(LegSet))
    BY <1>3 DEF w
  <2>9. Append(w, b) \in Seq(Seq(LegSet)) /\ Len(Append(w, b)) = Len(w) + 1 /\ Append(w, b)[Len(w) + 1] = b /\ Append(w, b) # <<>>
    BY <2>7, <2>8, OneMoreWave
  <2>10. S!Now' = b
    BY <2>3, <2>9 DEF S!Now
  <2>11. IsLine(slots'.line, Lined(b))
    BY <1>1, <2>5, <2>7, NobodyInLine
  <2>12. Roomy(plan') <=> Roomy(plan)
    BY <1>1 DEF Roomy
  <2> QED BY <1>1, <1>3, <2>2, <2>3, <2>6, <2>7, <2>9, <2>10, <2>11, <2>12 DEF CouncilInv, Roomy, b, w
<1> QED BY <1>4, <1>5

\* No step of a council breaks the invariant.
LEMMA CouncilStepKeeps ==
  ASSUME CouncilInv, [S!Next]_(S!vars)
  PROVE  CouncilInv'
<1>1. CASE UNCHANGED S!vars
  BY <1>1 DEF CouncilInv, S!vars, S!Now, Roomy
<1>2. CASE S!Next
  BY <1>2, ContinuedWaves, StoppedLegs, PulledLegs, ResumedLegs, EndedLegs, RetriedLegs DEF S!Next, S!LegStep
<1> QED BY <1>1, <1>2

\* The limit of children, from the invariant.
LEMMA CouncilFits ==
  ASSUME CouncilInv
  PROVE  S!PlannedLegsFit
BY DEF CouncilInv, S!PlannedLegsFit, Roomy, WaveFits, S!In

\* At every moment of every strategy the children begun, those its wave has still to begin and
\* those it keeps for its later waves fit the limit, each leg that waits is in line once, and
\* the waves are those its program opens: policy.ts and the strategies under strategies/.
THEOREM CouncilIsSound == Spec => [](part = "council" => CouncilInv)
<1> DEFINE Inv == part = "council" => CouncilInv
<1>1. Init => Inv
  <2> SUFFICES ASSUME S!Init PROVE CouncilInv
    BY DEF Init
  <2>1. plan \in Plans /\ waves = <<>> /\ slots = [free |-> plan.conc, line |-> <<>>] /\ kids = 0 /\ stopped = FALSE
    BY DEF S!Init, S!Fresh
  <2>2. waves \in Seq(Seq(LegSet)) /\ Len(waves) = 0
    BY <2>1
  <2>3. Shape(plan, waves)
    <3>1. \A n : Panels(waves, n)
      BY <2>2 DEF Panels
    <3>2. plan.n \in Nat /\ plan.rounds \in Nat
      BY <2>1, PlansAreCounted
    <3> QED BY <2>2, <3>1, <3>2 DEF Shape
  <2> QED BY <2>1, <2>2, <2>3 DEF CouncilInv
<1>2. Inv /\ [Next]_vars => Inv'
  <2> SUFFICES ASSUME Inv, [Next]_vars, part' = "council" PROVE CouncilInv'
    OBVIOUS
  <2>1. InCouncil(S!Next) \/ UNCHANGED <<part, councilVars>>
    BY DEF Next, vars, InFlow, InTurns, InCalls, InRuns, InCheckouts, InPersona, InRows, others
  <2>2. CouncilInv /\ [S!Next]_(S!vars)
    BY <2>1 DEF InCouncil, councilVars, S!vars
  <2> QED BY <2>2, CouncilStepKeeps
<1> QED BY <1>1, <1>2, PTL DEF Spec
====
