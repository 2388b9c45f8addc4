---- MODULE ResultArchive ----
(***************************************************************************)
(* Terminal reports kept in the session file that owns them:               *)
(* src/results/archive.ts and src/extension/results.ts.  A report is bound *)
(* to the activation in which its run was created; it is saved when the    *)
(* run ends, whatever session the host has open by then.                   *)
(*                                                                         *)
(* Everything here runs in one turn of the event loop, except that the     *)
(* host may open another session between its steps.  A report is its       *)
(* origin and its body; its reference is made once per origin.             *)
(*                                                                         *)
(* Beside the reports the file holds the logs of the session's monitors    *)
(* (src/monitor/archive.ts, wired in src/extension.ts), within a budget    *)
(* that outlives the process: they touch no variable of the reports.       *)
(***************************************************************************)
EXTENDS Integers, Sequences, SequencesExt

CONSTANTS
  Reporters,      \* the runs that report
  SessionFiles,   \* the sessions that have a file
  Memory,         \* what the host has open when it keeps no file
  Quota,          \* RESULT_MAX_ENTRIES
  MaxOwners,      \* bound: activations
  Watched,        \* the monitors of a session
  LogRecords,     \* MONITOR_LOG_MAX_RECORDS
  LogBytes,       \* MONITOR_LOG_MAX_BYTES
  LogSize         \* MONITOR_LOG_MAX_STREAM_CHARS: the size of a full log

VARIABLES
  hostFile,  \* what the host has open
  entries,   \* [file -> the reports in it]
  owners,    \* the activations: [file, seen: the history it was given, kept, charged]
  owner,     \* the current one, 0 for none
  bound,     \* [run -> the activation it was created in, 0 for none]
  receipt,   \* [run -> none, or what the run was told: [storage, body]]
  logs,      \* the monitor logs in a session's file: [mon, outcome, size]; Junk does not parse
  logger,    \* MonitorArchive of the process: [up, hydrated, blind, count, bytes,
             \* active: seq of [mon, size], done: seq of [mon, outcome, size, warned]]
  fate       \* history: [monitor -> none, running, cut by a crash, or how it ended]

logVars == <<logs, logger, fate>>
vars == <<hostFile, entries, owners, owner, bound, receipt>>

Refused == [storage |-> "none", body |-> 0]

ArchiveStart(open) ==
  /\ hostFile = open /\ entries = [f \in SessionFiles |-> <<>>]
  /\ owners = <<>> /\ owner = 0
  /\ bound = [r \in Reporters |-> 0] /\ receipt = [r \in Reporters |-> Refused]

ArchiveInit == \E f \in SessionFiles \union {Memory} : ArchiveStart(f)

\* The host opens another session; the extension hears of it later.
HostOpens(f) ==
  /\ f # hostFile /\ hostFile' = f
  /\ UNCHANGED <<entries, owners, owner, bound, receipt>>

\* activate: the owner of what is open, or a new one with the file's history.
Activates ==
  /\ Len(owners) < MaxOwners /\ ~(owner # 0 /\ owners[owner].file = hostFile)
  /\ LET seen == IF hostFile = Memory THEN <<>> ELSE entries[hostFile] IN
       owners' = Append(owners, [file |-> hostFile, seen |-> seen, kept |-> <<>>, charged |-> Len(seen)])
  /\ owner' = Len(owners')
  /\ UNCHANGED <<hostFile, entries, bound, receipt>>

\* dispose, as the session shuts down.
Disposes == owner # 0 /\ owner' = 0 /\ UNCHANGED <<hostFile, entries, owners, bound, receipt>>

\* bind, as the run is created.
Creates(r) ==
  /\ bound[r] = 0 /\ owner # 0 /\ bound' = [bound EXCEPT ![r] = owner]
  /\ UNCHANGED <<hostFile, entries, owners, owner, receipt>>

\* Wrong: the host may have opened another session meanwhile.
OwnerOnly(g) == g = owner

StillCurrent(g) == g = owner /\ owners[g].file = hostFile

Found(g, r) ==
  {e \in ToSet(owners[g].seen) \union {k.report : k \in ToSet(owners[g].kept)} : e.origin = <<g, r>>}
StorageOf(g, r) ==
  IF \E k \in ToSet(owners[g].kept) : k.report.origin = <<g, r>> /\ k.storage = "memory" THEN "memory"
  ELSE IF owners[g].file = Memory THEN "memory" ELSE "session"

\* Wrong: an append that threw left nothing behind.
KeptIfStored(g, report, threw) ==
  IF threw THEN owners ELSE [owners EXCEPT ![g].kept = Append(@, [report |-> report, storage |-> "session"]), ![g].charged = @ + 1]
\* Wrong: only what was stored is charged.
ChargedIfStored(g, report, threw) ==
  [owners EXCEPT ![g].kept = Append(@, [report |-> report, storage |-> IF threw THEN "memory" ELSE "session"]),
                 ![g].charged = @ + IF threw THEN 0 ELSE 1]

\* The reservation comes before the host's append, and stays when that throws.
Reserved(g, report, threw) ==
  [owners EXCEPT ![g].kept = Append(@, [report |-> report, storage |-> IF threw THEN "memory" ELSE "session"]),
                 ![g].charged = @ + 1]

\* save of a report nobody has saved: the append may throw before or after it
\* has taken effect, and a session without a file keeps it in memory.
SavesNew(r, body) ==
  LET g == bound[r]  report == [origin |-> <<g, r>>, body |-> body] IN
  /\ Found(g, r) = {} /\ owners[g].charged < Quota
  /\ \E threw, done \in BOOLEAN :
       /\ owners[g].file = Memory => threw /\ ~done
       /\ ~threw => done
       /\ owners' = Reserved(g, report, threw)
       /\ entries' = IF done THEN [entries EXCEPT ![hostFile] = Append(@, report)] ELSE entries
       /\ receipt' = [receipt EXCEPT ![r] = [storage |-> IF threw THEN "memory" ELSE "session", body |-> body]]

\* save of an origin that is there: its receipt again, or a conflict.
SavesAgain(r, body) ==
  LET g == bound[r] IN
  /\ \E e \in Found(g, r) :
       receipt' = [receipt EXCEPT ![r] = IF e.body = body THEN [storage |-> StorageOf(g, r), body |-> body] ELSE @]
  /\ UNCHANGED <<owners, entries>>

OverQuota(r) == Found(bound[r], r) = {} /\ owners[bound[r]].charged >= Quota /\ UNCHANGED <<owners, entries, receipt>>

\* The run ends, or is reported once more.
Captures(r, body) ==
  /\ bound[r] # 0 /\ StillCurrent(bound[r])
  /\ SavesNew(r, body) \/ SavesAgain(r, body) \/ OverQuota(r)
  /\ UNCHANGED <<hostFile, owner, bound>>

ArchiveNext ==
  \/ \E f \in SessionFiles \union {Memory} : HostOpens(f)
  \/ Activates \/ Disposes
  \/ \E r \in Reporters : Creates(r) \/ \E body \in {1, 2} : Captures(r, body)

ArchiveSpec == ArchiveInit /\ [][ArchiveNext]_vars

---------------------------------------------------------------------------
\* archive.ts:49 "one session-file owner": a report goes into the file of the
\* session it was created in and nowhere else, once however often it is saved and
\* however an append fails; a receipt that says "session" is in that file, with
\* the body it names; any receipt can be read back while its owner is current;
\* and no file holds more than the quota.
ReportsAreOwned ==
  /\ \A f \in SessionFiles : \A i \in DOMAIN entries[f] :
       /\ owners[entries[f][i].origin[1]].file = f
       /\ \A j \in DOMAIN entries[f] : entries[f][i].origin = entries[f][j].origin => i = j
  /\ \A f \in SessionFiles : Len(entries[f]) <= Quota
  /\ \A r \in Reporters : receipt[r] # Refused =>
       LET report == [origin |-> <<bound[r], r>>, body |-> receipt[r].body] IN
       /\ receipt[r].storage = "session" => report \in ToSet(entries[owners[bound[r]].file])
       /\ bound[r] = owner => report \in Found(owner, r)

---------------------------------------------------------------------------
(* The logs of the monitors *)

Junk == [mon |-> "junk", outcome |-> "junk", size |-> 1]
Unread == [up |-> TRUE, hydrated |-> FALSE, blind |-> FALSE, count |-> 0, bytes |-> 0, active |-> <<>>, done |-> <<>>]

LogsStart(found) ==
  logs \in found /\ logger = Unread /\ fate = [m \in Watched |-> "none"]

LogsInit == LogsStart({<<>>, <<Junk>>})

Total(L) == FoldLeft(LAMBDA n, e : n + e.size, 0, L)

\* remember: the latest records only.
Remembered(done, e, warned) ==
  LET all == Append(SelectSeq(done, LAMBDA d : d.mon # e.mon),
                    [mon |-> e.mon, outcome |-> e.outcome, size |-> e.size, warned |-> warned]) IN
  IF Len(all) > LogRecords THEN Tail(all) ELSE all

Parsed(L) == SelectSeq(L, LAMBDA e : e # Junk)

\* Wrong: what cannot be read is not charged.
BaselineOfParsed(lg) == [lg EXCEPT !.count = Len(Parsed(logs)), !.bytes = Total(Parsed(logs))]

\* A record of any version takes its room in the file.
Baseline(lg) == [lg EXCEPT !.count = Len(logs), !.bytes = Total(logs)]

\* hydrate, once: the entries, or an entry, may be out of reach; nothing is appended from then on.
Hydrated(lg, seen, blind) ==
  IF lg.hydrated THEN lg
  ELSE [Baseline(lg) EXCEPT
          !.hydrated = TRUE, !.blind = blind,
          !.done = FoldLeft(LAMBDA done, e : Remembered(done, e, FALSE), <<>>, Parsed(seen))]

Reading(lg) == {Hydrated(lg, logs, FALSE), Hydrated(lg, logs, TRUE), Hydrated(lg, <<>>, TRUE)}

\* armed: every arming has an id of its own.
Arms(m) ==
  /\ logger.up /\ fate[m] = "none" /\ fate' = [fate EXCEPT ![m] = "running"]
  /\ \E lg \in Reading(logger) : logger' = [lg EXCEPT !.active = Append(@, [mon |-> m, size |-> 1])]
  /\ UNCHANGED logs

\* result, list.
ReadsLogs == logger.up /\ logger' \in Reading(logger) /\ UNCHANGED <<logs, fate>>

\* output: the tail of the stream.
Grows(i) ==
  /\ logger.active[i].size < LogSize /\ logger' = [logger EXCEPT !.active[i].size = @ + 1]
  /\ UNCHANGED <<logs, fate>>

Affords(lg, size) == ~lg.blind /\ lg.count < LogRecords /\ lg.bytes + size <= LogBytes

\* Wrong: an append that threw took no room.
ChargedIfKept(lg, size, how) == IF how = "kept" THEN [lg EXCEPT !.count = @ + 1, !.bytes = @ + size] ELSE lg

\* The room is taken before the append, which may throw before or after it has taken effect.
Charged(lg, size, how) == [lg EXCEPT !.count = @ + 1, !.bytes = @ + size]

\* finish.
Finished(s, e, outcome, how) ==
  LET record == [mon |-> e.mon, outcome |-> outcome, size |-> e.size]
      room == Affords(s.lg, e.size)
      lg == IF room THEN Charged(s.lg, e.size, how) ELSE s.lg IN
  [lg |-> [lg EXCEPT !.active = SelectSeq(@, LAMBDA a : a.mon # e.mon),
                     !.done = Remembered(@, record, ~room \/ how # "kept")],
   logs |-> IF room /\ how # "lost" THEN Append(s.logs, record) ELSE s.logs]

Appends == {"kept", "late", "lost"}  \* late: it threw, and took effect

Left(s) == logger' = s.lg /\ logs' = s.logs

\* event, or removed: the monitor ended, or was cancelled.
LogEnds(i) ==
  \E outcome \in {"exit", "cancelled"}, how \in Appends :
    /\ Left(Finished([lg |-> logger, logs |-> logs], logger.active[i], outcome, how))
    /\ fate' = [fate EXCEPT ![logger.active[i].mon] = outcome]

\* session_shutdown cancels what is left.
LogsClose ==
  /\ logger.up
  /\ \E how \in [DOMAIN logger.active -> Appends] :
       Left(FoldLeft(LAMBDA s, i : Finished(s, logger.active[i], "cancelled", how[i]),
                     [lg |-> [logger EXCEPT !.up = FALSE], logs |-> logs], [i \in DOMAIN logger.active |-> i]))
  /\ fate' = [m \in Watched |-> IF fate[m] = "running" THEN "cancelled" ELSE fate[m]]

\* The process dies.
LogsCut ==
  /\ logger.up /\ logger' = [logger EXCEPT !.up = FALSE, !.active = <<>>]
  /\ fate' = [m \in Watched |-> IF fate[m] = "running" THEN "cut" ELSE fate[m]]
  /\ UNCHANGED logs

\* The session is opened again.
LogsOpen == ~logger.up /\ logger' = Unread /\ UNCHANGED <<logs, fate>>

LogsNext ==
  \/ \E m \in Watched : Arms(m)
  \/ \E i \in DOMAIN logger.active : Grows(i) \/ LogEnds(i)
  \/ ReadsLogs \/ LogsClose \/ LogsCut \/ LogsOpen

LogsSpec == LogsInit /\ [][LogsNext]_logVars

---------------------------------------------------------------------------
\* monitor/archive.ts:216: whatever throws, restarts or cannot be read, the file never
\* holds more than its budget; a log is in it once, with how the monitor ended; what is
\* listed is true, and in the file unless it says it may not be; nothing that ran in
\* another process is listed as running.
LogsAreKept ==
  LET of(m) == {i \in DOMAIN logs : logs[i].mon = m} IN
  /\ Len(logs) <= LogRecords /\ Total(logs) <= LogBytes
  /\ \A i \in DOMAIN logs : logs[i] # Junk => logs[i].outcome = fate[logs[i].mon] /\ of(logs[i].mon) = {i}
  /\ \A d \in ToSet(logger.done) :
       /\ d.outcome = fate[d.mon]
       /\ ~d.warned => \E i \in of(d.mon) : logs[i].size = d.size
  /\ {a.mon : a \in ToSet(logger.active)} = {m \in Watched : fate[m] = "running"}
====
