---- MODULE Personas ----
(***************************************************************************)
(* The persona of a session (src/persona/controller.ts, driven by          *)
(* session_start, f8, /persona and the operator's own model) and the       *)
(* models of its participants (model setup and editing in                  *)
(* src/extension.ts and src/extension/persona-model-settings.ts), with     *)
(* what companions are told of it (src/extension/memory-owner.ts).         *)
(*                                                                         *)
(* A persona declares a model ("none" of its own, "gone" one the session   *)
(* does not have), a thinking level ("none", "junk" no level) and whether  *)
(* it restricts the tools.  Setting the host's model takes time and may be *)
(* refused; everything else a switch does is done at once.                 *)
(***************************************************************************)
EXTENDS Integers, Sequences, SequencesExt, FiniteSets

CONSTANTS Scenes, Keys, None

VARIABLES
  scene,
  shelf,       \* the definitions: as the files are, as loaded, and how often they were loaded
  session,     \* "new", "starting", "up", "down"
  active,      \* the active persona: its name, its definition, the load it is of
  ctl,         \* the host's model, thinking and tools, and the controller's baselines
  flights,     \* switches that wait for the host to set a model
  remembered,  \* the persona the settings file names
  owner,       \* what companions are told: bound, ready, what they heard last, and whether
               \* session_start is still to make it ready
  own,         \* history: what the operator chose, and whether a persona's model is in force
  mixed,       \* a switch began while another was under way
  models,      \* <<persona, key>> -> the setup whose choice is in memory, and in the file; or 0
  prompted,    \* the participants this instance has asked about
  queue,       \* automatic setups in the line for the operator, the open one first
  picks,       \* each setup or edit: where it is, for which persona, which of its questions are
               \* left (the first is open), what is chosen
  filed,       \* history: for each model written, under which persona it was chosen
  asks,        \* history: automatic questions not taken back
  budget       \* gestures, refusals, failed writes left

Plain == [model |-> "none", thinking |-> "none", tools |-> FALSE]
Nobody == [name |-> None, load |-> 0, def |-> Plain]
Persona(n) == [name |-> n, load |-> shelf.load, def |-> shelf.loaded[n]]
Names == DOMAIN scene.defs
Loaded == DOMAIN shelf.loaded

Idle == [at |-> "idle", for |-> Nobody, left |-> {}, chosen |-> {}, added |-> {}, stopped |-> FALSE]

PersonasStart(s, at) ==
  /\ scene = s /\ session = at
  /\ shelf = [files |-> s.defs, loaded |-> s.defs, load |-> 0]
  /\ active = Nobody /\ flights = <<>> /\ mixed = FALSE
  /\ ctl = [model |-> "own", thinking |-> "own", tools |-> "all", kept |-> "none", over |-> FALSE,
            thought |-> "none", thinkOver |-> FALSE, restricted |-> FALSE]
  /\ own = [model |-> "own", thinking |-> "own", held |-> FALSE]
  /\ remembered = s.remembered
  /\ owner = [bound |-> FALSE, pending |-> FALSE, ready |-> FALSE, heard |-> "not ready"]
  /\ models = [memory |-> [p \in Names \X Keys |-> 0], file |-> [p \in Names \X Keys |-> 0]]
  /\ prompted = {} /\ queue = <<>> /\ filed = {}
  /\ picks = [r \in DOMAIN s.setups |-> Idle]
  /\ asks = [p \in Names \X Keys |-> 0]
  /\ budget = s.budget

PersonasInit == \E s \in Scenes : PersonasStart(s, "new")

Spend(what) == budget[what] > 0 /\ budget' = [budget EXCEPT ![what] = @ - 1]

pickVars == <<models, prompted, queue, picks, filed, asks>>

---------------------------------------------------------------------------
\* The controller, as functions on its state.

RestoresThinking(c) ==
  IF c.thinkOver THEN [c EXCEPT !.thinking = c.thought, !.thinkOver = FALSE, !.thought = "none"] ELSE c

AppliesThinking(c, p) ==
  CASE p.def.thinking = "none" -> RestoresThinking(c)
    [] p.def.thinking = "junk" -> c
    [] OTHER -> [c EXCEPT !.thinking = p.def.thinking, !.thinkOver = TRUE, !.thought = IF c.thinkOver THEN @ ELSE c.thinking]

RestoresTools(c) == IF c.restricted THEN [c EXCEPT !.tools = "all", !.restricted = FALSE] ELSE c

\* The tools a persona's capabilities leave; none without a persona.
Caps(p) == CASE p.name = None -> "none" [] p.name # None /\ p.def.tools -> p.name [] OTHER -> "all"

\* now: the persona that is active when the tools are set.
AppliesTools(c, p, now) ==
  IF p.def.tools THEN [c EXCEPT !.tools = Caps(now), !.restricted = TRUE] ELSE RestoresTools(c)

\* applyModel and restoreModel as far as setModel: what they ask the host for, or "none".
Asks(c, p) ==
  CASE p.def.model = "none" -> IF c.over THEN c.kept ELSE "none"
    [] p.def.model = "gone" -> "none"
    [] OTHER -> p.def.model
Overrides(p) == p.def.model \notin {"none", "gone"}
FirstOverride(c, p) == Overrides(p) /\ ~c.over
BeforeModel(c, p) ==
  CASE p.def.model = "none" -> [c EXCEPT !.over = FALSE, !.kept = "none"]
    [] FirstOverride(c, p) -> [c EXCEPT !.over = TRUE, !.kept = c.model]
    [] OTHER -> c

\* Wrong: the baseline of a model that was never set is kept.
Phantom(c, f) == c

\* A refused first override leaves no baseline behind.
Refused(c, f) == IF f.first THEN [c EXCEPT !.over = FALSE, !.kept = "none"] ELSE c

\* What follows the model: thinking and tools (deactivate gave the tools back first).
AfterModel(c, p, now) ==
  IF p.name = None THEN RestoresThinking(c) ELSE AppliesTools(AppliesThinking(c, p), p, now)

---------------------------------------------------------------------------
\* Companions.

Reads(o, p) == IF o.bound /\ o.ready THEN p.name ELSE "not ready"

\* setStatus notifies, once the binding is ready.
Heard(o, p) == IF o.bound /\ o.ready THEN [o EXCEPT !.heard = p.name] ELSE o

---------------------------------------------------------------------------
\* A switch: everything up to the call of setModel, or all of it when no model is asked for.

Remembers(name, f) == IF f.saves THEN name ELSE remembered

Switches(p, saves, starts) ==
  LET c == IF p.name = None THEN RestoresTools(ctl) ELSE ctl
      f == [to |-> p, asks |-> Asks(c, p), first |-> FirstOverride(c, p), saves |-> saves, starts |-> starts]
  IN  /\ active' = p
      /\ owner' = Heard(owner, p)
      /\ mixed' = (mixed \/ flights # <<>>)
      /\ IF f.asks = "none"
           THEN /\ ctl' = AfterModel(BeforeModel(c, p), p, p)
                /\ remembered' = Remembers(p.name, f) /\ UNCHANGED flights
           ELSE /\ ctl' = BeforeModel(c, p) /\ flights' = Append(flights, f) /\ UNCHANGED remembered

\* The host has set the model, or refused it; a restored baseline that is refused
\* stays lost, and the operator keeps what the host has.
Lands(i) ==
  LET f == flights[i] IN
  /\ flights' = RemoveAt(flights, i)
  /\ remembered' = Remembers(f.to.name, f)
  /\ \/ /\ ctl' = AfterModel([ctl EXCEPT !.model = f.asks], f.to, active)
        /\ own' = [own EXCEPT !.held = Overrides(f.to)] /\ UNCHANGED budget
     \/ /\ Spend("refusals")
        /\ ctl' = AfterModel(Refused(ctl, f), f.to, active)
        /\ own' = IF Overrides(f.to) THEN own ELSE [own EXCEPT !.model = ctl.model, !.held = FALSE]
  /\ UNCHANGED <<scene, shelf, session, active, owner, mixed, pickVars>>

\* session_start: definitions and the remembered persona, if it is installed.
Begins ==
  /\ session = "new" /\ session' = "starting"
  /\ shelf' = [shelf EXCEPT !.loaded = shelf.files, !.load = 1]
  /\ IF remembered \in DOMAIN shelf.files
       THEN LET p == [name |-> remembered, load |-> 1, def |-> shelf.files[remembered]]
                f == [to |-> p, asks |-> Asks(ctl, p), first |-> FirstOverride(ctl, p), saves |-> FALSE, starts |-> TRUE]
            IN  /\ active' = p
                /\ IF f.asks = "none" THEN ctl' = AfterModel(BeforeModel(ctl, p), p, p) /\ UNCHANGED flights
                                  ELSE ctl' = BeforeModel(ctl, p) /\ flights' = <<f>>
       ELSE UNCHANGED <<active, ctl, flights>>
  /\ owner' = [owner EXCEPT !.bound = TRUE, !.pending = TRUE]
  /\ UNCHANGED <<scene, remembered, own, mixed, pickVars, budget>>

\* Wrong: whoever finishes starting makes the owner ready.
AnyBinding(o) == TRUE

\* Only the binding it was made for, which a shutdown takes away.
SameBinding(o) == o.bound

\* memoryOwnerReady, when session_start is through; a shutdown may have come.
Readies ==
  /\ owner.pending /\ ~\E i \in DOMAIN flights : flights[i].starts
  /\ session' = IF session = "starting" THEN "up" ELSE session
  /\ owner' = IF SameBinding(owner) THEN [bound |-> TRUE, pending |-> FALSE, ready |-> TRUE, heard |-> active.name]
                                    ELSE [owner EXCEPT !.pending = FALSE]
  /\ UNCHANGED <<scene, shelf, active, ctl, flights, remembered, own, mixed, pickVars, budget>>

\* session_shutdown: this instance is over, whatever still runs in it.
ShutsDown ==
  /\ scene.ends /\ session \in {"starting", "up"} /\ session' = "down"
  /\ owner' = [owner EXCEPT !.bound = FALSE, !.ready = FALSE, !.heard = "not ready"]
  /\ UNCHANGED <<scene, shelf, active, ctl, flights, remembered, own, mixed, pickVars, budget>>

Alive == session \in {"starting", "up"}

Gesture(p, saves) ==
  /\ Alive /\ Spend("gestures") /\ Switches(p, saves, FALSE)
  /\ UNCHANGED <<scene, shelf, session, own, pickVars>>

\* f8: the next of the loaded personas, after the last one none.
Cycles ==
  LET here == {i \in DOMAIN scene.cycle : scene.cycle[i] = active.name}
      rest == {i \in DOMAIN scene.cycle : scene.cycle[i] \in Loaded /\ \A j \in here : j < i}
  IN  /\ Loaded # {}
      /\ Gesture(IF rest = {} THEN Nobody ELSE Persona(scene.cycle[CHOOSE i \in rest : \A j \in rest : i <= j]), TRUE)

\* /persona <name> and /persona off.
Picks == \E n \in Loaded : Gesture(Persona(n), TRUE)
Off == Gesture(Nobody, TRUE)

\* A definition file is edited or removed, and /persona reload reads it: the active
\* persona takes its new definition, or goes with it; what is remembered stays.
Reloads ==
  /\ Alive /\ Spend("gestures") /\ scene.edited # shelf.files
  /\ shelf' = [files |-> scene.edited, loaded |-> scene.edited, load |-> shelf.load + 1]
  /\ IF active.name = None
       THEN UNCHANGED <<active, ctl, flights, owner, mixed, remembered>>
       ELSE Switches(IF active.name \in DOMAIN scene.edited
                       THEN [name |-> active.name, load |-> shelf.load + 1, def |-> scene.edited[active.name]]
                       ELSE Nobody, FALSE, FALSE)
  /\ UNCHANGED <<scene, session, own, pickVars>>

\* The operator sets a model or a level by hand: theirs, unless the persona's is in force.
Chooses ==
  /\ Alive /\ Spend("choices") /\ flights = <<>>
  /\ \/ ctl' = [ctl EXCEPT !.model = "new"] /\ own' = IF own.held THEN own ELSE [own EXCEPT !.model = "new"]
     \/ ctl' = [ctl EXCEPT !.thinking = "new"] /\ own' = IF ctl.thinkOver THEN own ELSE [own EXCEPT !.thinking = "new"]
  /\ UNCHANGED <<scene, shelf, session, active, flights, remembered, owner, mixed, pickVars>>

---------------------------------------------------------------------------
\* The models of the participants: automatic setups wait in one line for the
\* operator; edits (/persona models) and drafts (/persona-settings) do not.

Setups == DOMAIN picks
Kind(r) == scene.setups[r].kind
personaVars == <<scene, shelf, session, active, ctl, flights, remembered, owner, own, mixed>>

Cell(r, k) == <<picks[r].for.name, k>>

\* Wrong: only the session is looked at.
StillAlive(r) == Alive

\* modelSelectionScope: the same persona as loaded, in the same session.
IsCurrent(r) == Alive /\ active = picks[r].for

Asked(r) == scene.setups[r].keys
Questions(r) == DOMAIN Asked(r)
First(left) == CHOOSE i \in left : \A j \in left : i <= j
Rest(left) == left \ {First(left)}

Missing(name, r, left) ==
  {i \in left : LET c == <<name, Asked(r)[i]>> IN models.memory[c] = 0 /\ c \notin prompted}

\* Wrong: what was missing when the run was launched is asked for.
AsLaunched(r) == picks[r].left

\* A setup ahead in the line may have asked, or an edit assigned, meanwhile.
StillMissing(r) == Missing(picks[r].for.name, r, picks[r].left)

Sets(r, who, left, stage) ==
  /\ Alive /\ picks[r].at = "idle" /\ who.name # None /\ left # {}
  /\ picks' = [picks EXCEPT ![r] = [Idle EXCEPT !.for = who, !.left = left, !.at = stage]]
  /\ UNCHANGED <<personaVars, filed, asks, budget>>

\* ensurePersonaModels, editPersonaModels and openPersonaModelSettings, up to their first question.
Launches(r) ==
  /\ Kind(r) = "auto" /\ Sets(r, active, Missing(active.name, r, Questions(r)), "queued")
  /\ queue' = Append(queue, r) /\ UNCHANGED <<models, prompted>>

Edits(r) ==
  /\ Kind(r) = "edit" /\ Sets(r, active, Questions(r), "asking")
  /\ prompted' = prompted \union {<<active.name, Head(Asked(r))>>} /\ UNCHANGED <<models, queue>>

\* Opening the settings reads the file again.
Drafts(r) ==
  /\ Kind(r) = "draft" /\ scene.setups[r].for \in Loaded
  /\ Sets(r, Persona(scene.setups[r].for), Questions(r), "asking")
  /\ models' = [models EXCEPT !.memory = models.file] /\ UNCHANGED <<prompted, queue>>

Opened(r, left) == Cell(r, Asked(r)[First(left)])
Puts(r, p, left) ==
  IF left = {} THEN [p EXCEPT !.at = "over", !.left = {}]
               ELSE [p EXCEPT !.at = "asking", !.left = left, !.added = @ \union ({Opened(r, left)} \ prompted)]
Prompts(r, left) ==
  /\ prompted' = IF left = {} THEN prompted ELSE prompted \union {Opened(r, left)}
  /\ asks' = IF left = {} \/ Kind(r) # "auto" THEN asks ELSE [asks EXCEPT ![Opened(r, left)] = @ + 1]

\* inGateLine: the turn of the first in the line.
Opens(r) ==
  /\ queue # <<>> /\ Head(queue) = r /\ picks[r].at = "queued"
  /\ LET left == IF IsCurrent(r) THEN StillMissing(r) ELSE {} IN
     /\ picks' = [picks EXCEPT ![r] = Puts(r, @, left)]
     /\ queue' = IF left = {} THEN Tail(queue) ELSE queue
     /\ Prompts(r, left)
  /\ UNCHANGED <<personaVars, models, filed, budget>>

Leaves(r) ==
  LET place == {i \in DOMAIN queue : queue[i] = r} IN
  queue' = IF place = {} THEN queue ELSE RemoveAt(queue, CHOOSE i \in place : TRUE)

\* patchPersonaSettings: the file takes the patch and memory becomes the file.
Patched(r, m, chosen) == [x \in DOMAIN m |-> IF x \in {Cell(r, c.key) : c \in chosen} THEN r ELSE m[x]]
Writes(r, chosen) == models' = [memory |-> Patched(r, models.file, chosen), file |-> Patched(r, models.file, chosen)] /\ UNCHANGED budget
Filed(r, chosen) == filed' = filed \union {[for |-> picks[r].for.name, under |-> c.under, alive |-> Alive] : c \in chosen}

\* savePersonaModels: what cannot be written holds for this session.
Files(r, chosen) ==
  /\ Filed(r, chosen)
  /\ \/ Writes(r, chosen)
     \/ Spend("faults") /\ models' = [models EXCEPT !.memory = Patched(r, models.memory, chosen)]

FilesDraft(r, chosen) == Filed(r, chosen) /\ (Writes(r, chosen) \/ (Spend("faults") /\ UNCHANGED models))

Taken(r, under) == picks[r].chosen \union {[key |-> Asked(r)[First(picks[r].left)], under |-> under]}

Discards(r) ==
  /\ picks' = [picks EXCEPT ![r] = [@ EXCEPT !.at = "over", !.left = {}]] /\ Leaves(r)
  /\ UNCHANGED <<models, filed, prompted, asks, budget>>

\* One answer: a model, or none; a dialog that breaks ends the questions.  Nothing
\* counts once the persona or the session is another.
Answers(r) ==
  /\ picks[r].at = "asking" /\ Kind(r) # "draft"
  /\ \/ ~IsCurrent(r) /\ Discards(r)
     \/ IsCurrent(r) /\ \E how \in {"takes", "declines", "breaks"} :
          LET chosen == IF how = "takes" THEN Taken(r, active.name) ELSE picks[r].chosen
              left == IF how = "breaks" THEN {} ELSE Rest(picks[r].left)
          IN  /\ picks' = [picks EXCEPT ![r] = [Puts(r, @, left) EXCEPT !.chosen = chosen]]
              /\ Prompts(r, left)
              /\ IF left = {} /\ chosen # {} THEN Files(r, chosen) ELSE UNCHANGED <<models, filed, budget>>
              /\ IF left = {} THEN Leaves(r) ELSE UNCHANGED queue
  /\ UNCHANGED personaVars

\* A draft is filed at Done; a dialog that is cancelled or breaks, or another session, drops it.
DraftAnswers(r) ==
  /\ picks[r].at = "asking" /\ Kind(r) = "draft"
  /\ \/ Discards(r)
     \/ Alive /\ \E chosen \in {picks[r].chosen, Taken(r, picks[r].for.name)} :
          LET left == Rest(picks[r].left) IN
          /\ picks' = [picks EXCEPT ![r] = [Puts(r, @, left) EXCEPT !.chosen = chosen]]
          /\ IF left = {} /\ chosen # {} THEN FilesDraft(r, chosen) ELSE UNCHANGED <<models, filed, budget>>
          /\ UNCHANGED <<prompted, asks, queue>>
  /\ UNCHANGED personaVars

\* Wrong: what a stopped run had asked stays asked.
StillAsked(r) == {}

\* What only a stopped setup has asked may be asked again.
TakenBack(r) == picks[r].added

\* The operator stops the run of an automatic setup: it leaves the line at once.
Stops(r) ==
  /\ scene.stops /\ Kind(r) = "auto" /\ picks[r].at \in {"queued", "asking"}
  /\ picks' = [picks EXCEPT ![r] = [@ EXCEPT !.at = "over", !.left = {}, !.stopped = TRUE]]
  /\ prompted' = prompted \ TakenBack(r)
  /\ asks' = [c \in DOMAIN asks |-> IF c \in picks[r].added THEN asks[c] - 1 ELSE asks[c]]
  /\ Leaves(r)
  /\ UNCHANGED <<personaVars, models, filed, budget>>

PersonasNext ==
  \/ Begins \/ Readies \/ ShutsDown \/ Cycles \/ Picks \/ Off \/ Reloads \/ Chooses
  \/ \E i \in DOMAIN flights : Lands(i)
  \/ \E r \in Setups : Launches(r) \/ Edits(r) \/ Drafts(r) \/ Opens(r) \/ Answers(r) \/ DraftAnswers(r) \/ Stops(r)

---------------------------------------------------------------------------
\* controller.ts:6, "lose-nothing": with no switch under way, an axis the persona leaves
\* alone has the operator's own value again, and the tools are the persona's.  A switch
\* that overtakes another may leave the settings of both.
SettingsAreRestored ==
  ~mixed /\ flights = <<>> =>
    /\ active.def.model = "none" => ctl.model = own.model
    /\ active.def.thinking = "none" => ctl.thinking = own.thinking
    /\ ctl.tools = IF active.name = None THEN "all" ELSE Caps(active)

\* memory-owner.ts:31: an owner is ready only in a session that has started and is not over,
\* and what companions heard last is what they would read.
OwnerIsTrue ==
  /\ owner.ready => session = "up"
  /\ owner.heard = Reads(owner, active)

\* extension.ts:1617, 1638: a participant is asked about once; a model is filed only for the
\* persona, and in the session, under which it was chosen; what a stopped run asked can be asked again.
PicksAreKept ==
  /\ \A c \in DOMAIN asks : asks[c] <= 1
  /\ \A x \in filed : x.for = x.under /\ x.alive
  /\ \A c \in prompted : asks[c] = 1 \/ \E r \in Setups : Kind(r) = "edit" /\ picks[r].for.name = c[1]
====
