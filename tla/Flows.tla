---- MODULE Flows ----
(***************************************************************************)
(* A flow: phases run in the order of their needs, wave by wave, with      *)
(* checkpoints an operator approves, a journal from which a later run      *)
(* resumes, and an archive of results the journal may only refer to        *)
(* (src/orchestration/flow-run.ts and flow-journal.ts, as runFlowVisible   *)
(* of src/extension.ts runs them).                                         *)
(*                                                                         *)
(* One run of the flow at a time; each attempt at a phase makes an output  *)
(* of its own, known by its number.                                        *)
(***************************************************************************)
EXTENDS Integers, Sequences, SequencesExt, FiniteSetsExt

CONSTANTS
  Specs,        \* the flows: [phases, needs, gated, handoff]
  MaxRuns,      \* bound: runs of the flow
  MaxAttempts,  \* bound: attempts at phases, over all runs
  MaxCrashes    \* bound: crashes of the process

VARIABLES
  spec,      \* the flow
  ui,        \* an operator can be asked
  journal,   \* its lines for this flow, task and directory
  archived,  \* the outputs whose body the archive can give back
  life,      \* of the run: "none", "loop", "wave", "gates" or "over"
  done,      \* [phase -> result], NotRun before it has one
  gate,      \* gateState: [phase -> "open", "passed" or "rejected"]
  wave,      \* the phases of the wave
  got,       \* its settled phases, in order
  aborted,   \* the run's signal, unless it came after the last phase
  late,      \* attempts a run gave up on, which still go on: [phase, out, run]
  count,     \* [runs, attempts, crashes] so far, and history: [stale], successes that
             \* attempts of an earlier run wrote down
  seen,      \* history: outputs the operator approved
  paid       \* history: phases whose output a resume can use

runVars == <<life, done, gate, wave, got, aborted>>
vars == <<spec, ui, journal, archived, runVars, late, count, seen, paid>>

Phases == spec.phases
ByRef == spec.handoff = "reference"
Gated(p) == p \in spec.gated

\* A result: ok; out, the attempt it came from (0 for none); lost, when the
\* reference that stands for its output cannot be read (refUnavailable); how
\* it failed.
Result(ok, out, lost, how) == [ok |-> ok, out |-> out, lost |-> lost, how |-> how]
NotRun == Result(FALSE, 0, FALSE, "none")
Has(p) == done[p] # NotRun

Line(p, r, approved) == [phase |-> p, ok |-> r.ok, out |-> r.out, ref |-> ~r.lost, approved |-> approved]

\* A line that a crash cut short takes the next one with it.
Torn == [phase |-> "torn", ok |-> FALSE, out |-> 0, ref |-> FALSE, approved |-> FALSE]
Written(j, line) == IF j # <<>> /\ Last(j) = Torn THEN Front(j) ELSE Append(j, line)
Reads(j) == j # <<>> => Last(j) # Torn

\* parseJournal: the later line wins, a failure forgets, and an approval is
\* kept from an earlier line of the same phase.
Resumed(j, p) ==
  LET since == {i \in DOMAIN j : j[i].phase = p /\ \A k \in i..Len(j) : j[k].phase = p => j[k].ok}
  IN  IF since = {} THEN [ok |-> FALSE, approved |-> FALSE]
      ELSE [j[Max(since)] EXCEPT !.approved = \E i \in since : j[i].approved]

Init ==
  /\ spec \in Specs /\ ui \in BOOLEAN
  /\ journal = <<>> /\ archived = {}
  /\ life = "none" /\ done = [p \in Phases |-> NotRun] /\ gate = [p \in Phases |-> "open"]
  /\ wave = {} /\ got = <<>> /\ aborted = FALSE /\ late = {}
  /\ count = [runs |-> 0, attempts |-> 0, crashes |-> 0, stale |-> 0]
  /\ seen = {} /\ paid = {}

\* What a line of the journal stands for when the run begins.
Restored(e) == Result(TRUE, e.out, ByRef /\ ~(e.ref /\ e.out \in archived), "none")

\* A checkpoint nobody decided is run again; an output that cannot be read is
\* not, it only serves nobody.
\* Wrong: what cannot be read is run again.
Readable(p, e) == e.ok /\ ~Restored(e).lost /\ (Gated(p) => e.approved)
Reusable(p, e) == e.ok /\ (Gated(p) /\ ~e.approved => Restored(e).lost)

StartRun ==
  /\ life \in {"none", "over"} /\ count.runs < MaxRuns
  /\ LET kept == {p \in Phases : Reusable(p, Resumed(journal, p))} IN
       /\ done' = [p \in Phases |-> IF p \in kept THEN Restored(Resumed(journal, p)) ELSE NotRun]
       /\ gate' = [p \in Phases |->
                     IF p \in kept /\ Gated(p) /\ Resumed(journal, p).approved THEN "passed" ELSE "open"]
  /\ life' = "loop" /\ wave' = {} /\ got' = <<>> /\ aborted' = FALSE
  /\ count' = [count EXCEPT !.runs = @ + 1]
  /\ UNCHANGED <<spec, ui, journal, archived, late, seen, paid>>

GateResolved(p) == ~Gated(p) \/ gate[p] # "open" \/ (Has(p) /\ ~done[p].ok)
Waiting == {p \in Phases : ~Has(p)}
Ready == {p \in Waiting : \A n \in spec.needs[p] : Has(n) /\ GateResolved(n)}
\* Wrong: a declined checkpoint holds nobody up.
SpoiltWork(n) == ~done[n].ok \/ done[n].lost
Spoilt(n) == ~done[n].ok \/ gate[n] = "rejected" \/ done[n].lost
Blocked == {p \in Ready : \E n \in spec.needs[p] : Spoilt(n)}

\* A line each; a torn one takes the first of them with it.
Recorded(j, ps) ==
  LET lines == [i \in DOMAIN ps |-> Line(ps[i], NotRun, FALSE)] IN
  IF ps = <<>> THEN j ELSE Written(j, lines[1]) \o Tail(lines)

\* One pass of the loop: what is blocked is recorded as failed, the rest of
\* what is ready makes the next wave; a stop, or nothing ready, ends the run.
Pass ==
  /\ life = "loop"
  /\ IF aborted \/ Ready = {}
     THEN /\ life' = "over"
          /\ aborted' = (aborted /\ Waiting # {})
          /\ UNCHANGED <<journal, done, wave, count>>
     ELSE /\ count.attempts + Cardinality(Ready \ Blocked) <= MaxAttempts
          /\ life' = "wave"
          /\ wave' = Ready \ Blocked
          /\ done' = [p \in Phases |-> IF p \in Blocked THEN Result(FALSE, 0, FALSE, "blocked") ELSE done[p]]
          /\ journal' = Recorded(journal, SetToSeq(Blocked))
          /\ count' = [count EXCEPT !.attempts = @ + Cardinality(wave')]
          /\ UNCHANGED aborted
  /\ got' = <<>>
  /\ UNCHANGED <<spec, ui, archived, gate, late, seen, paid>>

\* The attempts of a wave are numbered in the order of its phases.
Nth(p) == count.attempts - Cardinality({q \in wave : spec.order[q] > spec.order[p]})

\* What an attempt may come to; by reference, one that could not be archived
\* stays done and is of no use to anybody.
Outcomes(out) ==
  {Result(FALSE, 0, FALSE, "failed"), Result(TRUE, out, FALSE, "none")}
    \cup (IF ByRef THEN {Result(TRUE, out, TRUE, "none")} ELSE {})

\* A resume can do without the phase from here on.
Lasts(j, p, r, approved) == r.ok /\ Reads(j) /\ (Gated(p) => approved)

\* An attempt ends and the journal has its line; one that was given up is
\* written down only if it succeeded.
PhaseEnds(p) ==
  /\ life = "wave" /\ p \in wave \ ToSet(got)
  /\ \E r \in Outcomes(Nth(p)) :
       /\ done' = [done EXCEPT ![p] = r]
       /\ journal' = Written(journal, Line(p, r, FALSE))
       /\ archived' = IF ByRef /\ r.ok /\ ~r.lost THEN archived \cup {r.out} ELSE archived
       /\ paid' = IF Lasts(journal, p, r, FALSE) THEN paid \cup {p} ELSE paid
  /\ got' = Append(got, p)
  /\ UNCHANGED <<spec, ui, life, gate, wave, aborted, late, count, seen>>

LateEnds(a) ==
  /\ a \in late
  /\ late' = late \ {a}
  /\ \E r \in Outcomes(a.out) :
       /\ journal' = IF r.ok THEN Written(journal, Line(a.phase, r, FALSE)) ELSE journal
       /\ archived' = IF ByRef /\ r.ok /\ ~r.lost THEN archived \cup {r.out} ELSE archived
       /\ paid' = IF Lasts(journal, a.phase, r, FALSE) THEN paid \cup {a.phase} ELSE paid
       /\ count' = IF r.ok /\ a.run # count.runs THEN [count EXCEPT !.stale = @ + 1] ELSE count
  /\ UNCHANGED <<spec, ui, runVars, seen>>

Stop ==
  /\ life \in {"loop", "wave", "gates"} /\ ~aborted
  /\ aborted' = TRUE
  /\ UNCHANGED <<spec, ui, journal, archived, life, done, gate, wave, got, late, count, seen, paid>>

\* Where the checkpoints of the wave stand that are still to be decided.
Due == {i \in DOMAIN got : Gated(got[i]) /\ done[got[i]].ok /\ gate[got[i]] = "open"}

\* A wave that is done goes on to its checkpoints, or out if it was stopped.
WaveEnds ==
  /\ life = "wave" /\ ToSet(got) = wave
  /\ life' = IF aborted THEN "over" ELSE "gates"
  /\ got' = IF aborted THEN <<>> ELSE got
  /\ wave' = {}
  /\ UNCHANGED <<spec, ui, journal, archived, done, gate, aborted, late, count, seen, paid>>

\* Wrong: a stopped wave is waited for.
NoGrace == life = "wave" /\ aborted /\ ToSet(got) = wave /\ UNCHANGED vars

\* The grace of a stopped wave is over: what still runs is given up.
GraceEnds ==
  /\ life = "wave" /\ aborted /\ ToSet(got) # wave
  /\ LET left == wave \ ToSet(got) IN
       /\ done' = [p \in Phases |-> IF p \in left THEN Result(FALSE, 0, FALSE, "abort") ELSE done[p]]
       /\ late' = late \cup {[phase |-> p, out |-> Nth(p), run |-> count.runs] : p \in left}
  /\ life' = "over" /\ wave' = {} /\ got' = <<>>
  /\ UNCHANGED <<spec, ui, journal, archived, gate, aborted, count, seen, paid>>

\* approveGate: without an operator, or stopped, the answer is no.
Decides(yes) ==
  /\ life = "gates" /\ Due # {}
  /\ yes => ui /\ ~aborted
  /\ LET p == got[Min(Due)] IN
       /\ gate' = [gate EXCEPT ![p] = IF yes THEN "passed" ELSE "rejected"]
       /\ journal' = IF yes THEN Written(journal, Line(p, done[p], TRUE)) ELSE journal
       /\ seen' = IF yes THEN seen \cup {done[p].out} ELSE seen
       /\ paid' = IF yes /\ Lasts(journal, p, done[p], TRUE) THEN paid \cup {p} ELSE paid
  /\ UNCHANGED <<spec, ui, archived, life, done, wave, got, aborted, late, count>>

GatesDone ==
  /\ life = "gates" /\ Due = {}
  /\ life' = "loop" /\ got' = <<>>
  /\ UNCHANGED <<spec, ui, journal, archived, done, gate, wave, aborted, late, count, seen, paid>>

\* What the run is to its reader.  A result nobody can read is a failure; what
\* was only blocked failed on another's account.
AllOk == \A p \in Phases : done[p].ok /\ ~done[p].lost
Faults == {p \in Phases : Has(p) /\ (~done[p].ok \/ done[p].lost)}
\* Wrong: whatever did not run counts as a failure of its own.
AllFaults == Faults
RootFaults == {p \in Faults : done[p].how # "blocked"}
Cancelled == aborted /\ \E p \in Phases : ~done[p].ok
Declined == {p \in Phases : gate[p] = "rejected"}
Disposition ==
  CASE AllOk -> "done"
    [] ~AllOk /\ ~Cancelled /\ RootFaults = {} /\ Declined # {} -> "stopped"
    [] OTHER -> "failed"

\* A run that succeeded leaves no line behind.
Clear ==
  /\ life = "over" /\ AllOk /\ journal # <<>>
  /\ journal' = <<>> /\ paid' = {}
  /\ UNCHANGED <<spec, ui, archived, runVars, late, count, seen>>

\* The process dies, perhaps in the middle of a line.
Crash ==
  /\ life \in {"wave", "gates"} /\ count.crashes < MaxCrashes
  /\ count' = [count EXCEPT !.crashes = @ + 1]
  /\ life' = "none" /\ wave' = {} /\ got' = <<>> /\ late' = {}
  /\ done' = [p \in Phases |-> NotRun] /\ gate' = [p \in Phases |-> "open"] /\ aborted' = FALSE
  /\ \/ UNCHANGED journal
     \/ Reads(journal) /\ journal' = Append(journal, Torn)
  /\ UNCHANGED <<spec, ui, archived, seen, paid>>

\* A session reads its own archive: to another session, or after a restart if
\* the entry was only in memory, a body is gone.
Forget ==
  /\ \E a \in archived : archived' = archived \ {a}
  /\ UNCHANGED <<spec, ui, journal, runVars, late, count, seen, paid>>

Next ==
  \/ StartRun \/ Pass \/ Stop \/ WaveEnds \/ GraceEnds \/ GatesDone \/ Clear \/ Crash \/ Forget
  \/ \E p \in Phases : PhaseEnds(p)
  \/ \E a \in late : LateEnds(a)
  \/ \E yes \in BOOLEAN : Decides(yes)

Spec == Init /\ [][Next]_vars

\* Timers fire and promises run on; a stopped prompt is dismissed.  Nothing is
\* assumed of the phases or of the operator.
Fairness ==
  /\ WF_vars(Pass) /\ WF_vars(WaveEnds) /\ WF_vars(GraceEnds) /\ WF_vars(GatesDone)
  /\ WF_vars(aborted /\ Decides(FALSE))

FairSpec == Spec /\ Fairness

---------------------------------------------------------------------------
\* No attempt that an earlier run gave up has written a success into the journal:
\* one that does takes its phase's place there, with what the phase was approved
\* for, and a line that was cleared comes back.
NoLateSuccess == count.stale = 0

\* extension.ts:2127 "only an explicit interactive approval may release
\* dependents": whatever a phase is given to work on succeeded, can be read,
\* and, behind a checkpoint, is the very output the operator approved.
WorksOnApproved ==
  \A p \in wave : \A n \in spec.needs[p] :
    done[n].ok /\ ~done[n].lost /\ (Gated(n) => done[n].out \in seen)

\* flow-run.ts:305: what was done and can be read back, also by a run that was
\* stopped or died, is not paid for again, as long as there was no late success.
PaidOnce == [][NoLateSuccess' /\ wave' # wave => wave' \cap paid = {}]_vars

\* A stop ends the run, whatever its phases and its operator do.
StopHeeded == aborted => life \in {"over", "none"}
StoppedRunEnds == <>[]StopHeeded

\* flow-run.ts:101 "a checkpoint the operator declined is a STOP, their choice,
\* never a failure", and nothing else is: a run that is stopped at a gate has
\* no phase that failed, was lost or was aborted, and whatever did not run
\* waits, directly or not, for that gate.
Upon(p) == UNION {{n} \cup spec.needs[n] : n \in spec.needs[p]}
OutcomeIsTrue ==
  life = "over" =>
    LET trouble == {p \in Phases : done[p].how \in {"failed", "abort"} \/ done[p].lost}
        held == {p \in Phases : Upon(p) \cap Declined # {}}
    IN  /\ Disposition = "stopped" <=> (~Cancelled /\ trouble = {} /\ held # {})
        /\ Disposition = "done" => Declined \cap UNION {spec.needs[p] : p \in Phases} = {}
====
