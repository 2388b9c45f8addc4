---- MODULE SeededFiles ----
(***************************************************************************)
(* The files a session puts into the user's directory as it starts.        *)
(*                                                                         *)
(* The defaults a release installs and later releases upgrade:             *)
(* src/core/seed.ts, for one persona file and the agent file its new text  *)
(* needs.  And, in the second half, the files of an old data directory     *)
(* that are carried into the current one: src/core/data-root.ts, for one   *)
(* file.  The two touch different files.                                   *)
(*                                                                         *)
(* Each session upgrades once, as it starts; the user edits at any time.   *)
(* The steps are the file-system calls others can come between.  An editor *)
(* that keeps the old file open and writes into it after it was moved      *)
(* aside is outside the model.                                             *)
(***************************************************************************)
EXTENDS Integers

CONSTANTS
  Upgraders,  \* the sessions that upgrade
  MaxEdits,   \* bound: saves of the user's editor, and explicit restores
  Movers      \* the sessions that carry an old directory's file over

VARIABLES
  target,    \* the user's file: none, or [data, mark: its inode and size]
  addition,  \* the agent file the new text needs is there
  aside,     \* [session -> the file it moved away, or none]
  step,      \* [session -> where it is; seen: the mark it inspected]
  edits,     \* saves so far
  theirs,    \* history: the save that is owed, 0 for none
  overrun,   \* history: since then a file was put back over one that had just come
  hasLinks,  \* the file system has hard links
  source,    \* the old name: the file it names, or none
  dest,      \* the current name
  at,        \* [session -> where it is]
  made,      \* [session -> it made the link it may undo]
  own,       \* history: the current directory's own file was written
  astray     \* history: what excuses a name too many, or a name too few (below)

seedVars == <<target, addition, aside, step, edits, theirs, overrun>>
rootVars == <<hasLinks, source, dest, at, made, own, astray>>

\* What a file may hold: an earlier release's text, this one's (installed by an
\* upgrade, or seeded), a part of it, or the user's.
Edit(n) == 10 + n
Texts == [old |-> 0, upgraded |-> 1, seeded |-> 2, torn |-> 3]

SeedsStart(file, there) ==
  /\ target = file /\ addition \in there /\ aside = [p \in Upgraders |-> {}]
  /\ step = [p \in Upgraders |-> [at |-> "new", seen |-> 0]]
  /\ edits = 0 /\ theirs = 0 /\ overrun = FALSE

SeedsInit == SeedsStart({[data |-> Texts.old, mark |-> 0]}, BOOLEAN)

To(p, place) == step' = [step EXCEPT ![p].at = place]
Goes(p, from, place) == step[p].at = from /\ To(p, place)

\* Wrong: whatever was moved aside is taken for an earlier release's text.
AnyText(f) == TRUE

\* inspectPristineSeededDefault: size, inode and digest of a known release.
Pristine(f) == f.data = Texts.old

Inspects(p) ==
  /\ step[p].at = "new"
  /\ \/ \E f \in target : f.data = Texts.old /\ step' = [step EXCEPT ![p] = [at |-> "inspected", seen |-> f.mark]]
     \/ (\A f \in target : f.data # Texts.old) /\ To(p, "done")
     \/ To(p, "done")
  /\ UNCHANGED <<target, addition, aside, edits, theirs, overrun>>

\* Wrong: a missing addition is left for later.
AdditionOptional == TRUE

AdditionThere == addition'

\* installMissingAddition: linked into its place, or there already.
InstallsAddition(p) ==
  /\ addition' \in {addition, TRUE}
  /\ Goes(p, "inspected", IF AdditionThere THEN "equipped" ELSE "done")
  /\ UNCHANGED <<target, aside, edits, theirs, overrun>>

\* The new text is staged, or cannot be, and the target looked at once more.
Looks(p) ==
  /\ step[p].at = "equipped"
  /\ \/ (\E f \in target : f.mark = step[p].seen) /\ To(p, "looked")
     \/ To(p, "done")
  /\ UNCHANGED <<target, addition, aside, edits, theirs, overrun>>

MovesAside(p) ==
  /\ IF target = {} THEN Goes(p, "looked", "done") ELSE Goes(p, "looked", "moved")
  /\ aside' = [aside EXCEPT ![p] = target] /\ target' = {}
  /\ UNCHANGED <<addition, edits, theirs, overrun>>

\* The file that was moved is inspected again, which may fail.
Reinspects(p) ==
  /\ step[p].at = "moved"
  /\ \/ (\E f \in aside[p] : Pristine(f)) /\ To(p, "verified")
     \/ To(p, "returning")
  /\ UNCHANGED <<target, addition, aside, edits, theirs, overrun>>

\* The link fails when a file has come meanwhile; that file stays, and the old
\* one is dropped.
Installs(p) ==
  /\ step[p].at = "verified"
  /\ \/ To(p, "dropping") /\ target' = IF target = {} THEN {[data |-> Texts.upgraded, mark |-> -1]} ELSE target
     \/ To(p, "returning") /\ UNCHANGED target
  /\ UNCHANGED <<addition, aside, edits, theirs, overrun>>

\* The removal may fail: the old text stays beside.
DropsOld(p) ==
  /\ Goes(p, "dropping", "done") /\ aside' \in {aside, [aside EXCEPT ![p] = {}]}
  /\ UNCHANGED <<target, addition, edits, theirs, overrun>>

\* restoreBackupIfTargetMissing: a look, and a rename that replaces.
LooksAgain(p) ==
  /\ step[p].at = "returning" /\ To(p, IF target = {} THEN "missing" ELSE "done")
  /\ UNCHANGED <<target, addition, aside, edits, theirs, overrun>>

PutsBack(p) ==
  /\ Goes(p, "missing", "done")
  /\ \/ target' = aside[p] /\ aside' = [aside EXCEPT ![p] = {}] /\ overrun' = (overrun \/ target # {})
     \/ UNCHANGED <<target, aside, overrun>>
  /\ UNCHANGED <<addition, edits, theirs>>

Dies(p) == step[p].at # "dead" /\ To(p, "dead") /\ UNCHANGED <<target, addition, aside, edits, theirs, overrun>>

\* The user saves: into the file, whose size may stay what it was, or by
\* replacing it, or where there is none.
UserSaves ==
  /\ edits < MaxEdits /\ edits' = edits + 1 /\ theirs' = edits'
  /\ \E keeps \in BOOLEAN :
       target' = {[data |-> Edit(edits'),
                   mark |-> IF keeps /\ target # {} THEN (CHOOSE f \in target : TRUE).mark ELSE edits']}
  /\ overrun' = FALSE
  /\ UNCHANGED <<addition, aside, step>>

\* "/persona seed" fills what is missing; the copy is not atomic, and its
\* process may die in it.
Seeds ==
  /\ \/ target = {} /\ \E text \in {Texts.seeded, Texts.torn} : target' = {[data |-> text, mark |-> -2]}
        /\ UNCHANGED addition
     \/ ~addition /\ addition' = TRUE /\ UNCHANGED target
  /\ UNCHANGED <<aside, step, edits, theirs, overrun>>

\* "/persona restore": what is there is replaced, because the user asked.
Restores ==
  /\ edits < MaxEdits /\ edits' = edits + 1
  /\ target' = {[data |-> Texts.seeded, mark |-> -2]} /\ theirs' = 0
  /\ UNCHANGED <<addition, aside, step, overrun>>

SeedsNext ==
  \/ \E p \in Upgraders :
       \/ Inspects(p) \/ InstallsAddition(p) \/ Looks(p) \/ MovesAside(p) \/ Reinspects(p) \/ Installs(p)
       \/ DropsOld(p) \/ LooksAgain(p) \/ PutsBack(p) \/ Dies(p)
  \/ UserSaves \/ Seeds \/ Restores

SeedsSpec == SeedsInit /\ [][SeedsNext]_seedVars

---------------------------------------------------------------------------
\* The old data directory.  Each placement is a link and then an unlink, or a copy
\* where there are no links; the steps are the calls other sessions, and the
\* writers of the current directory, can come between.

\* Files: the one to carry, its copies, half of a copy, a writer's own.
Bytes == [carried |-> 0, copied |-> 1, half |-> 2, other |-> 3]
Whole == {Bytes.carried, Bytes.copied}

RootStart(files, links) ==
  /\ hasLinks \in links /\ source = files /\ dest = {}
  /\ at = [p \in Movers |-> "new"] /\ made = [p \in Movers |-> FALSE]
  /\ own = FALSE /\ astray = {}

RootInit == RootStart({Bytes.carried}, BOOLEAN)

Moves(p, from, to) == at[p] = from /\ at' = [at EXCEPT ![p] = to]

\* isSameFile: two names of one file.
SameFile == source # {} /\ source = dest

\* readdir finds the entry, or not.
Lists(p) ==
  /\ Moves(p, "new", IF source = {} THEN "done" ELSE "listed")
  /\ UNCHANGED <<hasLinks, source, dest, made, own, astray>>

\* Wrong: a name that is taken is replaced.
TakenAnyway == {}

Taken == dest

\* link: it fails when the source is gone or the name is taken; a link that an
\* earlier or another session made is finished, not undone.
Links(p) ==
  /\ at[p] = "listed"
  /\ \/ hasLinks /\ source # {} /\ Taken = {} /\ Moves(p, "listed", "placed")
        /\ dest' = source /\ made' = [made EXCEPT ![p] = TRUE]
     \/ source # {} /\ SameFile /\ Moves(p, "listed", "placed") /\ UNCHANGED <<dest, made>>
     \/ (source = {} \/ dest # {}) /\ ~SameFile /\ Moves(p, "listed", "done") /\ UNCHANGED <<dest, made>>
     \/ ~hasLinks /\ source # {} /\ dest = {} /\ Moves(p, "listed", "copying")
        /\ dest' = {Bytes.half} /\ UNCHANGED made
  /\ UNCHANGED <<hasLinks, source, own, astray>>

\* The copy ends, or fails and takes back what it wrote.
Copied(p) ==
  /\ \/ Moves(p, "copying", "placed") /\ dest' = {Bytes.copied}
     \/ Moves(p, "copying", "done") /\ dest' = {}
  /\ UNCHANGED <<hasLinks, source, made, own, astray>>

\* Wrong: whatever happened before, the placement is undone.
UndoesAny(p) == TRUE

Undoes(p) == made[p]

\* unlink of the old name; a handle elsewhere may refuse it.
Unlinks(p) ==
  /\ at[p] = "placed"
  /\ \/ /\ source' = {} /\ Moves(p, "placed", "done")
        /\ UNCHANGED astray
     \/ /\ source # {} /\ UNCHANGED source
        /\ Moves(p, "placed", IF Undoes(p) THEN "refused" ELSE "done")
        /\ astray' = IF made[p] THEN astray ELSE astray \union {"name"}
  /\ UNCHANGED <<hasLinks, dest, made, own>>

\* unwindPlacement: the link is this call's own, and the two names are looked at
\* once more before it is removed; what is left then is a look that is late.
Judges(p) ==
  /\ Moves(p, "refused", IF SameFile THEN "undoing" ELSE "done")
  /\ UNCHANGED <<hasLinks, source, dest, made, own, astray>>

\* Another session that saw the two names may have taken the old one, or be about
\* to: then the last name goes.
Overlaps(p) == source = {} \/ \E q \in Movers \ {p} : at[q] = "placed"

RemovesLink(p) ==
  /\ Moves(p, "undoing", "done")
  /\ \/ dest' = {} /\ astray' = IF Overlaps(p) THEN astray \union {"bytes"} ELSE astray
     \/ UNCHANGED dest /\ astray' = astray \union {"name"}
  /\ UNCHANGED <<hasLinks, source, made, own>>

MoverDies(p) ==
  /\ at[p] \notin {"done", "dead"} /\ at' = [at EXCEPT ![p] = "dead"] /\ astray' = astray \union {"name"}
  /\ UNCHANGED <<hasLinks, source, dest, made, own>>

\* A writer of the current directory makes its own file, where there is none.
OwnFileComes ==
  /\ ~own /\ dest = {} /\ dest' = {Bytes.other} /\ own' = TRUE
  /\ UNCHANGED <<hasLinks, source, at, made, astray>>

RootNext ==
  \/ \E p \in Movers :
       Lists(p) \/ Links(p) \/ Copied(p) \/ Unlinks(p) \/ Judges(p) \/ RemovesLink(p) \/ MoverDies(p)
  \/ OwnFileComes

RootSpec == RootInit /\ [][RootNext]_rootVars

---------------------------------------------------------------------------
Copies == target \union UNION {aside[p] : p \in Upgraders}

\* seed.ts:634 "skipped/reported rather than overwritten": the user's last save
\* is in its place or beside it, whoever upgrades, fails or dies meanwhile, unless
\* a file was put back over it in the moment restoreBackupIfTargetMissing leaves
\* open; the user is never left without any copy; and an upgraded persona has the
\* agent it needs.
SeedsAreSafe ==
  /\ theirs = 0 \/ overrun \/ \E f \in Copies : f.data = Edit(theirs)
  /\ Copies # {}
  /\ (\E f \in target : f.data = Texts.upgraded) => addition

Over == \A p \in Movers : at[p] \in {"done", "dead"}

\* data-root.ts:17: the bytes stay reachable whoever is interrupted or refused,
\* unless a link was undone while another session was finishing it; a file the
\* current directory has of its own is never replaced; and a move that was refused
\* leaves no second name (which would disable the ledger) unless undoing it was
\* refused too or somebody died.
CarriedOver ==
  /\ "bytes" \in astray \/ (source \union dest) \cap Whole # {}
  /\ own => dest = {Bytes.other} \/ "bytes" \in astray
  /\ Over /\ SameFile => "name" \in astray
====
