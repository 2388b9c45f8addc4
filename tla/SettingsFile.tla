---- MODULE SettingsFile ----
(***************************************************************************)
(* The settings file that the sessions of a machine share:                 *)
(* src/persona/settings-store.ts, written by the editors of                *)
(* src/extension/persona-settings.ts and persona-model-settings.ts, and by *)
(* the import of the retired stores when a session starts.                 *)
(*                                                                         *)
(* The steps are the file-system calls other processes can come between.   *)
(* A lock counts as old when its owner is dead: an owner that is suspended *)
(* for five minutes, or a third process that takes the same old lock away, *)
(* is outside the model (see the README).                                  *)
(***************************************************************************)
EXTENDS Integers, FiniteSets

CONSTANTS
  Procs,
  Keys,       \* the values a patch may set, with "last", the remembered persona
  MaxSaves    \* bound: saves of one process

VARIABLES
  file,      \* the settings: none, or [vals, rev]
  links,     \* names of that file: the second is the temporary of its creation
  lock,      \* the process the lock file names: at most one
  old,       \* the retired store: [v: its version, 0 for none; retired: removed; late: see below]
  imported,  \* what the file was created from, 0 for nothing
  backup,    \* the archive of the retired store, 0 for none
  proc,      \* [process -> at; draft: the keys staged; base: what it read; saves]
  acked,     \* [key -> the value saved last]
  selections \* the saves of "last"

vars == <<file, links, lock, old, imported, backup, proc, acked, selections>>

Empty == [vals |-> [k \in Keys |-> <<"default">>], rev |-> 0]
Imported(v) == [vals |-> [k \in Keys |-> <<"retired", v>>], rev |-> 0]
Idle == [at |-> "new", draft |-> {}, base |-> {}, saves |-> 0]

SettingsStart(versions) ==
  /\ file = {} /\ links = 1 /\ lock = {} /\ old \in [v : versions, retired : {FALSE}, late : {FALSE}]
  /\ imported = 0 /\ backup = 0
  /\ proc = [p \in Procs |-> Idle] /\ acked = Empty.vals /\ selections = 0

SettingsInit == SettingsStart({0, 1})

Moves(p, from, to) == proc[p].at = from /\ proc' = [proc EXCEPT ![p].at = to]
Migrating(p) == proc[p].draft = {}

\* readBoundedFile: a file of two names is unsafe to read.
Unsafe == file # {} /\ links = 2

HasOld == old.v # 0 /\ ~old.retired

\* The session starts: without a settings file, the retired store is imported.
Starts(p) ==
  /\ Moves(p, "new", IF file = {} /\ HasOld THEN "locking" ELSE "idle")
  /\ UNCHANGED <<file, links, lock, old, backup, imported, acked, selections>>

\* A choice in an editor, or a persona picked: staged.
Stages(p, k) ==
  /\ proc[p].at \in {"idle", "editing"} /\ proc[p].saves < MaxSaves
  /\ proc' = [proc EXCEPT ![p].at = "editing", ![p].draft = @ \union {k}]
  /\ UNCHANGED <<file, links, lock, old, backup, imported, acked, selections>>

\* Cancelled, or the session or the persona changed meanwhile.
Drops(p) ==
  /\ proc[p].at = "editing" /\ proc' = [proc EXCEPT ![p].at = "idle", ![p].draft = {}]
  /\ UNCHANGED <<file, links, lock, old, backup, imported, acked, selections>>

Saves(p) ==
  /\ proc[p].at = "editing" /\ proc' = [proc EXCEPT ![p].at = "locking", ![p].saves = @ + 1]
  /\ UNCHANGED <<file, links, lock, old, backup, imported, acked, selections>>

\* Wrong: the lock is not created exclusively.
AlwaysFree == TRUE

LockFree == lock = {}

TakesLock(p) ==
  /\ LockFree /\ Moves(p, "locking", "locked") /\ lock' = {p}
  /\ UNCHANGED <<file, links, old, backup, imported, acked, selections>>

Over(p) == proc' = [proc EXCEPT ![p].at = "idle", ![p].draft = {}, ![p].base = {}]

\* The attempts run out.
GivesUp(p) ==
  /\ proc[p].at = "locking" /\ lock # {} /\ Over(p)
  /\ UNCHANGED <<file, links, lock, old, backup, imported, acked, selections>>

\* Wrong: any lock looks old.
AnyOwner(q) == TRUE

Abandoned(q) == proc[q].at = "dead"

FindsOldLock(p) ==
  /\ \E q \in lock : Abandoned(q)
  /\ Moves(p, "locking", "judged") /\ UNCHANGED <<file, links, lock, old, backup, imported, acked, selections>>

UnlinksLock(p) ==
  /\ Moves(p, "judged", "locking") /\ lock' = {}
  /\ UNCHANGED <<file, links, old, backup, imported, acked, selections>>

\* Under the lock: the file is read, or found unreadable; an import finds the
\* file there, or its source gone.
Reads(p) ==
  /\ proc[p].at = "locked"
  /\ proc' = [proc EXCEPT ![p] =
       IF Unsafe \/ (Migrating(p) /\ (file # {} \/ ~HasOld)) THEN [@ EXCEPT !.at = "done"]
       ELSE [@ EXCEPT !.at = "read", !.base = IF Migrating(p) THEN {old.v} ELSE file]]
  /\ UNCHANGED <<file, links, lock, old, backup, imported, acked, selections>>

\* applyPatch, or the import.  A process saves a value of its own.
Base(p) == IF proc[p].base = {} THEN Empty ELSE CHOOSE f \in proc[p].base : TRUE
Patched(p, f) ==
  [vals |-> [k \in Keys |-> IF k \in proc[p].draft THEN <<"saved", p>> ELSE f.vals[k]],
   rev |-> f.rev + IF "last" \in proc[p].draft THEN 1 ELSE 0]
Written(p) == IF Migrating(p) THEN Imported(Base(p)) ELSE Patched(p, Base(p))
Saved(p) == IF Migrating(p) THEN Keys ELSE proc[p].draft

\* atomicWrite: over the file that was read by a rename, or into its place, if
\* there was none, by a link that fails when a file has come.
Creates(p) == Migrating(p) \/ proc[p].base = {}
Replaces(p) ==
  /\ proc[p].at = "read"
  /\ IF Creates(p) /\ file # {}
     THEN proc' = [proc EXCEPT ![p].at = "done"] /\ UNCHANGED <<file, links, acked, selections, imported>>
     ELSE /\ file' = {Written(p)} /\ links' = IF Creates(p) THEN 2 ELSE 1
          /\ proc' = [proc EXCEPT ![p].at = IF Creates(p) THEN "linked" ELSE "written"]
          /\ acked' = [k \in Keys |-> IF k \in Saved(p) THEN Written(p).vals[k] ELSE acked[k]]
          /\ imported' = IF Migrating(p) THEN Base(p) ELSE imported
          /\ selections' = selections + IF "last" \in proc[p].draft THEN 1 ELSE 0
  /\ UNCHANGED <<lock, old, backup>>

WriteFails(p) == Moves(p, "read", "done") /\ UNCHANGED <<file, links, lock, old, backup, imported, acked, selections>>

RemovesTemp(p) ==
  /\ Moves(p, "linked", IF Migrating(p) THEN "archiving" ELSE "written") /\ links' = 1
  /\ UNCHANGED <<file, lock, old, backup, imported, acked, selections>>

\* Wrong: the source is not compared with what was imported.
SameOrNot(p) == TRUE

SameSource(p) == old.v = Base(p)

\* archiveUnchanged: the copy never takes the place of an archive; the source is
\* compared before and after, and kept when anything is amiss.
Copies(p) ==
  /\ proc[p].at = "archiving"
  /\ \/ /\ SameSource(p) /\ backup = 0 /\ Moves(p, "archiving", "copied")
        /\ backup' = Base(p)
     \/ Moves(p, "archiving", "done") /\ UNCHANGED backup
  /\ UNCHANGED <<file, links, lock, old, imported, acked, selections>>

Confirms(p) ==
  /\ proc[p].at = "copied"
  /\ \/ SameSource(p) /\ Moves(p, "copied", "confirmed") /\ UNCHANGED backup
     \/ Moves(p, "copied", "done") /\ backup' = 0
  /\ UNCHANGED <<file, links, lock, old, imported, acked, selections>>

Retires(p) ==
  /\ Moves(p, "confirmed", "done")
  /\ \/ old' = [old EXCEPT !.retired = TRUE] /\ UNCHANGED backup
     \/ backup' = 0 /\ UNCHANGED old
  /\ UNCHANGED <<file, links, lock, imported, acked, selections>>

\* removeOwnedLock: a lock that is another's is left.
Releases(p) ==
  /\ proc[p].at \in {"written", "done"} /\ Over(p) /\ lock' = lock \ {p}
  /\ UNCHANGED <<file, links, old, backup, imported, acked, selections>>

\* One process dies, anywhere.
Dies(p) ==
  /\ \A q \in Procs : proc[q].at # "dead"
  /\ proc' = [proc EXCEPT ![p].at = "dead"]
  /\ UNCHANGED <<file, links, lock, old, backup, imported, acked, selections>>

\* A session of an older release writes the retired store: too late, when the
\* last look at the store was taken and its removal comes next.
OlderReleaseWrites ==
  /\ HasOld /\ old.v = 1
  /\ old' = [old EXCEPT !.v = 2, !.late = \E p \in Procs : proc[p].at = "confirmed"]
  /\ UNCHANGED <<file, links, lock, backup, proc, imported, acked, selections>>

SettingsNext ==
  \/ \E p \in Procs :
       \/ Starts(p) \/ Drops(p) \/ Saves(p) \/ TakesLock(p) \/ GivesUp(p) \/ FindsOldLock(p) \/ UnlinksLock(p)
       \/ Reads(p) \/ Replaces(p) \/ WriteFails(p) \/ RemovesTemp(p) \/ Copies(p) \/ Confirms(p) \/ Retires(p)
       \/ Releases(p) \/ Dies(p)
       \/ \E k \in Keys : Stages(p, k)
  \/ OlderReleaseWrites

---------------------------------------------------------------------------
\* settings-store.ts:460 "under one cross-process lock": a value saved is there
\* until the same value is saved again, whoever else saves or dies meanwhile,
\* and the revision has counted every selection.
SavedIsKept ==
  \A f \in file : f.vals = acked /\ f.rev = selections

\* docs/REFERENCE.md:345 "Successfully migrated, unchanged legacy files are
\* archived": when the retired store goes, what it held at the last look is in
\* the archive and is what was imported.
RetiredIsImported ==
  old.retired => imported # 0 /\ backup = imported /\ (old.v = imported \/ old.late)
====
