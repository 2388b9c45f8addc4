---- MODULE LedgerStore ----
(***************************************************************************)
(* The shared work ledger as a file (src/exocom/ledger.ts): a JSONL        *)
(* journal, each commit inside the sidecar lock, crashes and I/O failures  *)
(* in the middle of a write, compaction into a snapshot, and leases that   *)
(* decide which owners a commit may forget.  One session per process.      *)
(*                                                                         *)
(* The journal is the sequence of its complete records; tail says what     *)
(* follows them: nothing, a last record without its newline, or a partial  *)
(* record.  File sizes are not counted: a commit may or may not be past    *)
(* the compaction threshold.                                               *)
(***************************************************************************)
EXTENDS LedgerLock, LedgerRules, SequencesExt

CONSTANTS
  Keys, AskIds,    \* the work keys and ask ids sessions use
  WriteSets,       \* the write sets they declare
  Kinds,           \* the kinds of events they commit
  Histories,       \* the journals the ledger may start from: committed events
  MaxCrashes       \* bound: processes that die

\* The events sessions write (collaboration.ts): a msg_id is fresh, a task is
\* named by the msg_id that created it.
MsgIds == 1..MaxEvents
Events ==
  UNION {
    [kind : {"claim", "task_create"}, id : MsgIds, key : Keys, from : Procs, paths : WriteSets],
    [kind : {"ask"}, id : MsgIds, key : Keys, from : Procs, to : Procs, askId : AskIds],
    [kind : {"answer"}, id : MsgIds, key : Keys, from : Procs, askId : AskIds],
    [kind : {"release"}, id : MsgIds, key : Keys, from : Procs],
    [kind : {"task_take", "task_finish"}, id : MsgIds, key : Keys, from : Procs, task : MsgIds]}

ASSUME StoreAssumption ==
  /\ NoTaker \notin Procs
  /\ MaxEvents \in Nat /\ MaxAsksFromTo \in Nat \ {0} /\ MaxResults \in Nat \ {0}
  /\ \A ab \in Clashing : <<ab[2], ab[1]>> \in Clashing
  /\ \A h \in Histories :
       /\ h \in Seq(Events) /\ Len(h) <= MaxEvents
       /\ \A n \in DOMAIN h : h[n].id = n

VARIABLES
  txn,       \* the commit each process is in: [event, live, phase, ok]
  journal,   \* the complete records of the ledger file
  tail,      \* "clean", "unterminated" or "torn"
  leased,    \* the sessions whose registry entry is fresh
  events,    \* how many events were made so far; a msg_id is its number
  owed       \* history: acknowledged facts nobody has had cause to remove

fileVars == <<journal, tail>>
storeVars == <<txn, journal, tail, leased, events, owed>>
vars == <<lockVars, storeVars>>

NoTxn == [phase |-> "none"]

\* The live sessions of a commit that could not read the registry: it does
\* not prune.  Any other commit counts at least its own session.
NoView == {}

Contents == Load(journal).state

\* What a session was told is in the ledger, and how it shows there.
FactKinds == {"claim", "ask", "answer", "task_take"}
Present(s, f) ==
  \/ f.kind = "claim" /\ \E c \in s.claims : c.id = f.id
  \/ f.kind = "ask" /\ \E a \in s.asks : a.id = f.id
  \/ f.kind = "answer" /\ \E i \in DOMAIN s.answers : s.answers[i].id = f.id
  \/ f.kind = "task_take" /\ \E t \in s.tasks : t.takeId = f.id /\ t.status = "taken"

StoreInit ==
  /\ LockInit
  /\ txn = [p \in Procs |-> NoTxn]
  /\ journal \in Histories /\ tail = "clean"
  /\ leased \in SUBSET Procs
  /\ events = Len(journal)
  /\ owed = {f \in ToSet(journal) : f.kind \in FactKinds /\ Present(Contents, f)}

----
(* What sessions commit.                                                   *)
Msg == {events + 1}
TaskIds == {t.id : t \in Contents.tasks}

Drafts(p) ==
  UNION {
    [kind : {"claim"}, id : Msg, key : Keys, from : {p}, paths : WriteSets \ {{}}],
    [kind : {"ask"}, id : Msg, key : Keys, from : {p}, to : leased \ {p}, askId : AskIds],
    {[kind |-> "answer", id |-> events + 1, key |-> a.key, from |-> p, askId |-> a.askId] :
       a \in Contents.asks},
    [kind : {"release"}, id : Msg, key : Keys, from : {p}],
    [kind : {"task_create"}, id : Msg, key : Keys, from : {p}, paths : WriteSets],
    [kind : {"task_take", "task_finish"}, id : Msg, key : Keys, from : {p}, task : TaskIds]}

\* A session on the plane commits.  The sessions that are live are listed
\* before commitLedgerEvent asks for the lock (dispatchSemantic).
Begin(p, e, live) ==
  /\ Contend(p)
  /\ p \in leased
  /\ events < MaxEvents
  /\ e.kind \in Kinds
  /\ events' = events + 1
  /\ txn' = [txn EXCEPT ![p] = [event |-> e, live |-> live, phase |-> "begun", ok |-> FALSE]]
  /\ UNCHANGED <<fileVars, leased, owed>>

BeginSome(p) ==
  \E e \in Drafts(p), live \in {leased, NoView} : Begin(p, e, live)

\* Steps of the lock protocol that say nothing about the file.
Locking(p) ==
  /\ Create(p) \/ WritePayload(p) \/ Judge(p) \/ Steal(p)
  /\ UNCHANGED storeVars

\* Wrong: the commit stays open after its lock was refused.
RefuseSilently(p) == (PayloadFails(p) \/ GiveUp(p)) /\ UNCHANGED storeVars
\* The lock was not obtained: the commit is refused.
Refuse(p) ==
  /\ PayloadFails(p) \/ GiveUp(p)
  /\ txn' = [txn EXCEPT ![p] = NoTxn]
  /\ UNCHANGED <<fileVars, leased, events, owed>>

InPhase(p, phase) == pc[p] = "held" /\ txn[p].phase = phase
Step(p, phase, ok) == txn' = [txn EXCEPT ![p].phase = phase, ![p].ok = ok]

\* recoverIncompleteTrailingRecordLocked: a partial record is cut off, a
\* complete one gets its newline.
Recover(p) ==
  /\ InPhase(p, "begun")
  /\ tail' = "clean"
  /\ UNCHANGED journal
  /\ Step(p, "recovered", FALSE)
  /\ UNCHANGED <<lockVars, leased, events, owed>>
----
(* The write of a commit.  From here on the event may have taken effect.   *)
Pruned(p, aged) ==
  IF txn[p].live = NoView THEN Contents ELSE Prune(Contents, txn[p].live, aged)
Outcome(p, aged) ==
  LET s == Pruned(p, aged) IN
  IF Accepts(s, txn[p].event) THEN Apply(s, txn[p].event) ELSE s

\* pruningChanged, or the file is big: the whole state is written again.
\* Wrong: only a big file is compacted.
CompactIfBig(p, aged, big) == big
MustCompact(p, aged, big) ==
  \/ Pruned(p, aged) # Contents
  \/ big /\ Accepts(Pruned(p, aged), txn[p].event)

Snapshot(s) == <<[kind |-> "ledger_snapshot_v1", state |-> s]>>

\* What a fact is owed to: an event that ends it, or a commit that found its
\* owner (or, for a question, its addressee) gone, or its receipt too old.
EndedBy(f, e) ==
  \/ e.kind = "release" /\ e.from = f.from /\ e.key = f.key
  \/ e.kind = "task_finish" /\ f.kind = "task_take" /\ e.from = f.from /\ e.task = f.task
  \/ e.kind = "answer" /\ f.kind = "ask" /\ e.askId = f.askId /\ e.from = f.to
  \/ e.kind = "answer" /\ f.kind = "answer" /\ Len(Contents.answers) >= MaxResults
PartyOf(f) == IF f.kind = "answer" THEN {} ELSE IF f.kind = "ask" THEN {f.from, f.to} ELSE {f.from}
Forgivable(p, aged) ==
  {f \in owed : \/ EndedBy(f, txn[p].event)
                \/ /\ txn[p].live # NoView
                   /\ ~(PartyOf(f) \subseteq txn[p].live) \/ (f.kind = "answer" /\ aged)}

\* Every outcome of one file operation: it works; it fails and leaves nothing;
\* it fails, or the process dies, with part or all of a record in the file.
Appended(e) ==
  /\ journal' = IF tail = "clean" THEN Append(journal, e)
                ELSE IF tail = "unterminated" THEN Front(journal) ELSE journal
  /\ tail' = "clean"
Untouched == UNCHANGED fileVars
HalfWritten(e) ==
  \/ journal' = journal /\ tail' = "torn"
  \/ journal' = Append(journal, e) /\ tail' \in {"unterminated", "clean"}
Replaced(s) == journal' = Snapshot(s) /\ tail' = "clean"

Plan(p, aged) == InPhase(p, "recovered") /\ owed' = owed \ Forgivable(p, aged)

\* canClaim is false for this commit: refused before anything is pruned.
CommitGated(p, aged) ==
  /\ InPhase(p, "recovered") /\ Writes(Pruned(p, aged), txn[p].event)
  /\ Step(p, "done", FALSE)
  /\ UNCHANGED <<lockVars, fileVars, leased, events, owed>>

Commit(p, aged, big) ==
  LET e == txn[p].event
      ok == Accepts(Pruned(p, aged), e) IN
  /\ Plan(p, aged)
  /\ IF MustCompact(p, aged, big) THEN Replaced(Outcome(p, aged))
     ELSE IF ok THEN Appended(e) ELSE Untouched
  /\ Step(p, "done", ok)
  /\ UNCHANGED <<lockVars, leased, events>>

\* The write fails: a snapshot leaves the journal alone; an append is rolled
\* back, and what is left when that fails too stays.
CommitFails(p, aged, big) ==
  /\ Plan(p, aged)
  /\ IF MustCompact(p, aged, big) THEN Untouched
     ELSE /\ Accepts(Pruned(p, aged), txn[p].event)
          /\ Untouched \/ HalfWritten(txn[p].event)
  /\ Step(p, "done", FALSE)
  /\ UNCHANGED <<lockVars, leased, events>>

MayDie == Cardinality({q \in Procs : Dead(q)}) < MaxCrashes

\* The process dies in the middle of its write.
CrashWriting(p, aged, big) ==
  /\ MayDie
  /\ Plan(p, aged)
  /\ Crash(p)
  /\ IF MustCompact(p, aged, big) THEN Replaced(Outcome(p, aged))
     ELSE Accepts(Pruned(p, aged), txn[p].event) /\ HalfWritten(txn[p].event)
  /\ txn' = [txn EXCEPT ![p] = NoTxn]
  /\ UNCHANGED <<leased, events>>

\* The lock is let go and the caller told.
Acknowledge(p) ==
  /\ InPhase(p, "done")
  /\ Release(p)
  /\ owed' = IF txn[p].ok /\ txn[p].event.kind \in FactKinds THEN owed \cup {txn[p].event} ELSE owed
  /\ txn' = [txn EXCEPT ![p] = NoTxn]
  /\ UNCHANGED <<fileVars, leased, events>>
----
(* Around the commits.  A process that dies outside the lock leaves nothing *)
(* behind: only its lease lapses.                                          *)
Die(p) ==
  /\ MayDie /\ pc[p] \in {"created", "held"}
  /\ Crash(p)
  /\ txn' = [txn EXCEPT ![p] = NoTxn]
  /\ UNCHANGED <<fileVars, leased, events, owed>>

\* A heartbeat is missed, or its process is found dead.
LeaseLapses(p) ==
  /\ p \in leased
  /\ leased' = leased \ {p}
  /\ UNCHANGED <<lockVars, txn, fileVars, events, owed>>

LeaseStarts(p) ==
  /\ p \notin leased /\ ~Dead(p)
  /\ leased' = leased \cup {p}
  /\ UNCHANGED <<lockVars, txn, fileVars, events, owed>>

StoreNext ==
  \E p \in Procs :
     \/ BeginSome(p) \/ Locking(p) \/ Refuse(p) \/ Recover(p)
     \/ Acknowledge(p)
     \/ \E aged \in BOOLEAN : CommitGated(p, aged)
     \/ \E aged, big \in BOOLEAN :
          Commit(p, aged, big) \/ CommitFails(p, aged, big) \/ CrashWriting(p, aged, big)
     \/ Die(p) \/ LeaseLapses(p) \/ LeaseStarts(p)

StoreSpec == StoreInit /\ [][StoreNext]_vars
----
\* Types; and a process is inside a commit exactly while it is in the lock
\* protocol, past its recovery only while it holds the lock.
StoreTypeOK ==
  /\ LockTypeOK
  /\ \A p \in Procs :
       /\ txn[p].phase \in {"none", "begun", "recovered", "done"}
       /\ txn[p].phase = "none" <=> pc[p] \in {"idle", "dead"}
       /\ txn[p].phase \in {"recovered", "done"} => pc[p] = "held"
  /\ tail \in {"clean", "unterminated", "torn"}
  /\ leased \subseteq Procs
  /\ events \in 0..MaxEvents

\* An acknowledged claim, question, answer or pickup is in the file from then
\* on, as every unlocked reader sees it, until an event ends it or a commit
\* finds its parties gone: crashes, torn appends, failed writes, recovery and
\* compaction lose none of it (commitLedgerEvent, ledger.ts:631-653).
AckedFactsDurable == \A f \in owed : Present(Contents, f)

\* The file always loads, and what a compaction would write now rebuilds
\* exactly this state: a snapshot never turns the ledger into an error that
\* refuses every later commit (parseSnapshot, ledger.ts:197-261).
LedgerReadable ==
  /\ Load(journal).ok
  /\ Load(Snapshot(Contents)) = [ok |-> TRUE, state |-> Contents]

\* A write task is taken exactly while its taker holds its claim: pickup is
\* atomic, and finish, release and lease loss leave no claim behind
\* (COLLABORATION.md: one taker, claim admitted together).
TakenIffClaimed ==
  LET s == Contents IN
  \A t \in s.tasks :
     /\ t.status = "taken" /\ t.paths # {} => HoldsItsClaim(s, t)
     /\ t.status # "taken" => \A c \in s.claims : c.id # t.takeId

\* "Event age must not evict a healthy long-running claim" (ledger.ts:317):
\* while a session's lease is live, only its own events end its claims.
LeasedClaimsRemain ==
  [][\A c \in Contents.claims :
       c.from \in leased /\ (\A d \in Load(journal').state.claims : d.id # c.id)
         => \E p \in Procs : /\ InPhase(p, "recovered")
                              /\ txn[p].event.from = c.from
                              /\ txn[p].event.kind \in {"release", "task_finish"}]_vars
====
