---- MODULE LedgerLock ----
(***************************************************************************)
(* The sidecar lock of the work ledger (src/exocom/ledger.ts).  A process  *)
(* creates <ledger>.lock exclusively, writes its pid and a fresh token     *)
(* into it, and unlinks it on release while it still carries that token.   *)
(* A contender that finds the file reads the pid in it, and unlinks the    *)
(* file when that process is dead.  Reading and unlinking are two calls.   *)
(*                                                                         *)
(* A token is written once per acquisition, so its owner names it.  The    *)
(* attempts of a contender (LEDGER_LIMITS.lockAttempts) are not counted:   *)
(* it may give up whenever it finds the lock taken.                        *)
(***************************************************************************)

CONSTANTS Procs,   \* the Pi processes that share a ledger
          Nobody   \* the owner of a lock file that is not there

ASSUME LockAssumption == Nobody \notin Procs

VARIABLES pc,      \* where each process is in acquireLedgerLock
          lock     \* the lock file: [owner, written]

lockVars == <<pc, lock>>

Stages == {"idle", "contend", "created", "judged", "held", "dead"}
Free == [owner |-> Nobody, written |-> FALSE]

Taken == lock.owner # Nobody
Dead(p) == pc[p] = "dead"
Goto(p, stage) == pc' = [pc EXCEPT ![p] = stage]

LockInit == pc = [p \in Procs |-> "idle"] /\ lock = Free

Contend(p) == pc[p] = "idle" /\ Goto(p, "contend") /\ UNCHANGED lock

\* openSync(O_CREAT | O_EXCL)
Create(p) ==
  /\ pc[p] = "contend" /\ ~Taken
  /\ lock' = [owner |-> p, written |-> FALSE]
  /\ Goto(p, "created")

\* The payload goes through the descriptor, whatever the path names by then.
WritePayload(p) ==
  /\ pc[p] = "created"
  /\ lock' = IF lock.owner = p THEN [lock EXCEPT !.written = TRUE] ELSE lock
  /\ Goto(p, "held")

\* The write or its fsync failed: the path is unlinked and the caller refused.
PayloadFails(p) == pc[p] = "created" /\ lock' = Free /\ Goto(p, "idle")

\* Wrong: a lock is abandoned as soon as another process finds it.
AbandonedAlways(p) == Taken
\* The pid in the file is dead or ours.  A file without a pid is abandoned
\* once it is older than staleLockMs: no live creator takes that long.
Abandoned(p) == Taken /\ (Dead(lock.owner) \/ (lock.written /\ lock.owner = p))

Judge(p) == pc[p] = "contend" /\ Abandoned(p) /\ Goto(p, "judged") /\ UNCHANGED lock

\* unlinkSync removes whatever file is there now; ENOENT just tries again.
Steal(p) == pc[p] = "judged" /\ lock' = Free /\ Goto(p, "contend")

\* Every attempt found the lock taken: "ledger lock unavailable".
GiveUp(p) == pc[p] = "contend" /\ Taken /\ Goto(p, "idle") /\ UNCHANGED lock

\* releaseLockFile: only while the file still carries our token.
Release(p) ==
  /\ pc[p] = "held"
  /\ lock' = IF lock.owner = p THEN Free ELSE lock
  /\ Goto(p, "idle")

Crash(p) == ~Dead(p) /\ Goto(p, "dead") /\ UNCHANGED lock

LockNext ==
  \E p \in Procs :
     \/ Contend(p) \/ Create(p) \/ WritePayload(p) \/ PayloadFails(p)
     \/ Judge(p) \/ Steal(p) \/ GiveUp(p) \/ Release(p) \/ Crash(p)

LockSpec == LockInit /\ [][LockNext]_lockVars
----
\* The variables have their types.
LockTypeOK ==
  /\ pc \in [Procs -> Stages]
  /\ lock \in [owner : Procs \cup {Nobody}, written : BOOLEAN]

\* "A short `wx` sidecar lock serializes transactions on POSIX and Windows"
\* (ledger.ts:425): no two live processes are inside it at once.
OneTransactionAtATime ==
  \A p, q \in Procs : pc[p] = "held" /\ pc[q] = "held" => p = q

\* No process has died yet.
Calm == \A p \in Procs : ~Dead(p)
====
