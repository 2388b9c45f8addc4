---- MODULE Telemetry ----
(***************************************************************************)
(* The telemetry log of one session (src/telemetry/producer.ts): its       *)
(* writers, one process after the other, and the sweeps of other sessions  *)
(* that remove old logs.  A writer and a sweep keep out of each other's    *)
(* way by markers; a log is compacted by renames a crash may cut short.    *)
(*                                                                         *)
(* A record is far smaller than the cap, so a compaction keeps at least    *)
(* the first record and the newest; one step of it may fail, and then its  *)
(* own repair works.                                                       *)
(***************************************************************************)
EXTENDS Integers, FiniteSets, FiniteSetsExt

CONSTANTS
  Writers,    \* the processes of the session
  Sweepers,   \* the sessions that sweep
  MaxRecords  \* bound: records of one log

VARIABLES
  main,      \* the log: none, or [recs: the numbers it holds, torn: no newline at its end]
  previous,  \* "<log>.previous"
  scratch,   \* the records of "<log>.trim-..."
  old,       \* nothing was written for the retention time
  writer,    \* [writer -> at; seq]
  sweep,     \* [sweeper -> where it is]
  leases,    \* writers' markers
  claims,    \* sweepers' markers
  written    \* history: the records written to what is not pruned

vars == <<main, previous, scratch, old, writer, sweep, leases, claims, written>>
logVars == <<main, previous, scratch, old, written>>

Records(file) == UNION {f.recs : f \in file}
Newest(recs) == Max(recs \union {0})

TelemetryStart ==
  /\ main = {} /\ previous = {} /\ scratch = {} /\ old = FALSE
  /\ writer = [w \in Writers |-> [at |-> "none", seq |-> 0]]
  /\ sweep = [q \in Sweepers |-> "none"]
  /\ leases = {} /\ claims = {} /\ written = {}

WriterGoes(w, from, to) == writer[w].at = from /\ writer' = [writer EXCEPT ![w].at = to]
SweepGoes(q, from, to) == sweep[q] = from /\ sweep' = [sweep EXCEPT ![q] = to]

Trimming == {"trim", "aside", "swap", "clear"}
Admitted(w) == writer[w].at \in {"admitted", "restored", "open"} \union Trimming

\* The constructor: a marker, and only then a look at the sweeps' claims.
Leases(w) ==
  /\ \A v \in Writers : writer[v].at \in {"none", "over", "dead"}
  /\ WriterGoes(w, "none", "leased") /\ leases' = leases \union {w}
  /\ UNCHANGED <<logVars, sweep, claims>>

\* The sweeps that are removing files.  Wrong, if only they refuse a writer.
Pruning == {q \in Sweepers : sweep[q] = "pruning"}

LiveClaims == {q \in claims : sweep[q] # "dead"}

\* assertNoPruneClaimsSync: a dead sweep's claim is removed, a live one's refuses.
Admits(w) ==
  /\ writer[w].at = "leased"
  /\ IF LiveClaims = {} THEN WriterGoes(w, "leased", "admitted") /\ claims' = {} /\ UNCHANGED leases
     ELSE WriterGoes(w, "leased", "over") /\ leases' = leases \ {w} /\ UNCHANGED claims
  /\ UNCHANGED <<logVars, sweep>>

\* Wrong: what a cut-short compaction put aside stays aside.
MainAsFound == main

MainRestored == IF main = {} THEN previous ELSE main

\* The files of a compaction a crash cut short.
Restores(w) ==
  /\ WriterGoes(w, "admitted", "restored")
  /\ main' = MainRestored /\ previous' = {} /\ scratch' = {}
  /\ UNCHANGED <<old, sweep, leases, claims, written>>

\* lastSequence; a torn tail gets its newline, unless that fails.
Opens(w) ==
  /\ writer[w].at = "restored"
  /\ writer' = [writer EXCEPT ![w] = [at |-> "open", seq |-> Newest(Records(main))]]
  /\ \/ main' = {[f EXCEPT !.torn = FALSE] : f \in main} /\ old' = (old /\ \A f \in main : ~f.torn)
     \/ UNCHANGED <<main, old>>
  /\ UNCHANGED <<previous, scratch, sweep, leases, claims, written>>

Log == IF main = {} THEN [recs |-> {}, torn |-> FALSE] ELSE CHOOSE f \in main : TRUE

\* publish and appendBounded: a record after a torn tail is fused with it.
Appends(w, big) ==
  LET n == writer[w].seq + 1 IN
  /\ writer[w].at = "open" /\ n <= MaxRecords
  /\ writer' = [writer EXCEPT ![w] = [at |-> IF big THEN "trim" ELSE "open", seq |-> n]]
  /\ main' = {[recs |-> IF Log.torn THEN Log.recs ELSE Log.recs \union {n}, torn |-> FALSE]}
  /\ written' = IF Log.torn THEN written ELSE written \union {n}
  /\ old' = FALSE
  /\ UNCHANGED <<previous, scratch, sweep, leases, claims>>

\* The write fails, or the process dies in it: part of a record may be there.
AppendBreaks(w, dies) ==
  /\ writer[w].at = "open" /\ writer[w].seq < MaxRecords
  /\ writer' = [writer EXCEPT ![w] = [at |-> IF dies THEN "dead" ELSE "open", seq |-> @.seq + 1]]
  /\ main' \in {main, {[Log EXCEPT !.torn = TRUE]}} /\ old' = FALSE
  /\ UNCHANGED <<previous, scratch, sweep, leases, claims, written>>

\* Wrong: the newest record may be among those that are cut.
KeepsFirst(recs, all) == Min(all) \in recs

Keeps(recs, all) == {Min(all), Max(all)} \subseteq recs

\* The compaction, one file operation a step.
WritesScratch(w) ==
  /\ writer[w].at = "trim" /\ Log.recs # {}
  /\ \/ \E recs \in SUBSET Log.recs : Keeps(recs, Log.recs) /\ scratch' = {[recs |-> recs, torn |-> FALSE]}
        /\ WriterGoes(w, "trim", "aside")
     \/ WriterGoes(w, "trim", "open") /\ UNCHANGED scratch
  /\ UNCHANGED <<main, previous, old, sweep, leases, claims, written>>

SetsAside(w) ==
  /\ \/ WriterGoes(w, "aside", "swap") /\ previous' = main /\ main' = {} /\ UNCHANGED scratch
     \/ WriterGoes(w, "aside", "open") /\ scratch' = {} /\ UNCHANGED <<main, previous>>
  /\ UNCHANGED <<old, sweep, leases, claims, written>>

Swaps(w) ==
  /\ \/ WriterGoes(w, "swap", "clear") /\ main' = scratch /\ UNCHANGED previous
     \/ WriterGoes(w, "swap", "open") /\ main' = previous /\ previous' = {}
  /\ scratch' = {}
  /\ UNCHANGED <<old, sweep, leases, claims, written>>

Clears(w) ==
  /\ WriterGoes(w, "clear", "open") /\ previous' = {}
  /\ main' \in {main, previous}
  /\ UNCHANGED <<scratch, old, sweep, leases, claims, written>>

\* A log without a readable record has nothing to compact but its last line.
NothingToTrim(w) == Log.recs = {} /\ WriterGoes(w, "trim", "open") /\ UNCHANGED <<logVars, sweep, leases, claims>>

\* stop: the writes come first, the marker goes last.
Stops(w) ==
  /\ WriterGoes(w, "open", "over") /\ leases' = leases \ {w}
  /\ UNCHANGED <<logVars, sweep, claims>>

WriterDies(w) ==
  /\ writer[w].at \notin {"none", "over", "dead"}
  /\ writer' = [writer EXCEPT ![w].at = "dead"]
  /\ UNCHANGED <<logVars, sweep, leases, claims>>

Ages == ~old /\ old' = TRUE /\ UNCHANGED <<main, previous, scratch, writer, sweep, leases, claims, written>>

\* flushTelemetryRetention: a look, a claim, a look at the writers, and one more
\* look at the files.
LooksFirst(q) == old /\ SweepGoes(q, "none", "old") /\ UNCHANGED <<logVars, writer, leases, claims>>
Claims(q) == SweepGoes(q, "old", "claimed") /\ claims' = claims \union {q} /\ UNCHANGED <<logVars, writer, leases>>

\* Wrong: any writer but one that is compacting is taken for dead.
BusyWriters == {w \in leases : writer[w].at \in Trimming}

Protected == {w \in leases : writer[w].at # "dead"}

\* hasProtectedWriter: markers of the dead are removed.
ChecksWriters(q) ==
  /\ SweepGoes(q, "claimed", IF Protected # {} THEN "leaving" ELSE "checked")
  /\ leases' = {w \in leases : writer[w].at # "dead"}
  /\ claims' = LiveClaims
  /\ UNCHANGED <<logVars, writer>>

LooksAgain(q) == SweepGoes(q, "checked", IF old THEN "pruning" ELSE "leaving") /\ UNCHANGED <<logVars, writer, leases, claims>>

\* The files go one by one.
Prunes(q) ==
  /\ sweep[q] = "pruning"
  /\ \/ main # {} /\ main' = {} /\ UNCHANGED <<previous, scratch, sweep>>
     \/ previous # {} /\ previous' = {} /\ UNCHANGED <<main, scratch, sweep>>
     \/ scratch # {} /\ scratch' = {} /\ UNCHANGED <<main, previous, sweep>>
     \/ SweepGoes(q, "pruning", "leaving") /\ UNCHANGED <<main, previous, scratch>>
  /\ written' = Records(main') \union Records(previous')
  /\ UNCHANGED <<old, writer, leases, claims>>

Leaves(q) == SweepGoes(q, "leaving", "none") /\ claims' = claims \ {q} /\ UNCHANGED <<logVars, writer, leases>>

SweepDies(q) ==
  /\ sweep[q] # "dead" /\ sweep' = [sweep EXCEPT ![q] = "dead"]
  /\ UNCHANGED <<logVars, writer, leases, claims>>

TelemetryNext ==
  \/ \E w \in Writers :
       \/ Leases(w) \/ Admits(w) \/ Restores(w) \/ Opens(w) \/ WritesScratch(w) \/ SetsAside(w) \/ Swaps(w)
       \/ Clears(w) \/ NothingToTrim(w) \/ Stops(w) \/ WriterDies(w)
       \/ \E b \in BOOLEAN : Appends(w, b) \/ AppendBreaks(w, b)
  \/ \E q \in Sweepers :
       \/ LooksFirst(q) \/ Claims(q) \/ ChecksWriters(q) \/ LooksAgain(q) \/ Prunes(q) \/ Leaves(q) \/ SweepDies(q)
  \/ Ages

TelemetrySpec == TelemetryStart /\ [][TelemetryNext]_vars

---------------------------------------------------------------------------
\* producer.ts:358 "live writer leases are retained": no sweep removes files while
\* a writer is admitted; the newest record written survives every compaction and
\* crash until it is pruned; and a writer's next number is new to its log.
LogIsKept ==
  /\ (\E w \in Writers : Admitted(w)) => Pruning = {}
  /\ written # {} => Max(written) \in Records(main) \union Records(previous)
  /\ \A w \in Writers : writer[w].at = "open" => Newest(written) <= writer[w].seq
====
