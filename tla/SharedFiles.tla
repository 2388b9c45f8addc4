---- MODULE SharedFiles ----
(***************************************************************************)
(* The files the sessions of a machine share, or leave to the next one:    *)
(* the work ledger, the settings, the seeded defaults, the old data        *)
(* directory, the telemetry logs, and the reports and monitor logs in      *)
(* session files.                                                          *)
(*                                                                         *)
(* The parts touch different files and no step belongs to two of them, so  *)
(* a behaviour runs one part, and the others are at rest.                  *)
(***************************************************************************)
EXTENDS LedgerStore

CONSTANTS
  Parts,                                              \* the parts a run looks at
  Savers, SettingKeys, MaxSaves,                      \* SettingsFile
  Upgraders, MaxEdits, Movers,                        \* SeededFiles
  Writers, Sweepers, MaxRecords,                      \* Telemetry
  Reporters, SessionFiles, Memory, Quota, MaxOwners,  \* ResultArchive
  Watched, LogRecords, LogBytes, LogSize              \* and its monitor logs

VARIABLES
  part,                                                                       \* the part that runs
  settings, links, sidecar, store, imported, backup, proc, acked, selections, \* SettingsFile
  target, addition, aside, step, edits, theirs, overrun,                      \* SeededFiles
  hasLinks, source, dest, at, made, own, astray,                              \* and the old directory's file
  main, previous, scratch, stale, writer, sweep, leases, claims, written,     \* Telemetry
  hostFile, entries, owners, owner, bound, receipt, logs, logger, fate        \* ResultArchive

F == INSTANCE SettingsFile WITH
       Procs <- Savers, Keys <- SettingKeys, file <- settings, lock <- sidecar, old <- store
S == INSTANCE SeededFiles
T == INSTANCE Telemetry WITH old <- stale
A == INSTANCE ResultArchive

ledgerVars == <<lockVars, storeVars>>
settingVars == <<settings, links, sidecar, store, imported, backup, proc, acked, selections>>
seedVars == <<target, addition, aside, step, edits, theirs, overrun>>
rootVars == <<hasLinks, source, dest, at, made, own, astray>>
telemetryVars == <<main, previous, scratch, stale, writer, sweep, leases, claims, written>>
archiveVars == <<hostFile, entries, owners, owner, bound, receipt>>
logVars == <<logs, logger, fate>>
filesVars == <<part, ledgerVars, settingVars, seedVars, rootVars, telemetryVars, archiveVars, logVars>>

NoLedger ==
  /\ LockInit /\ txn = [p \in Procs |-> NoTxn] /\ journal = <<>> /\ tail = "clean"
  /\ leased = {} /\ events = MaxEvents /\ owed = {}

\* The parts start, or rest.
Runs(p) == part = p
FilesInit ==
  /\ part \in Parts
  /\ IF Runs("ledger") THEN StoreInit ELSE NoLedger
  /\ IF Runs("settings") THEN F!SettingsInit ELSE F!SettingsStart({0})
  /\ IF Runs("seeds") THEN S!SeedsInit ELSE S!SeedsStart({}, {FALSE})
  /\ IF Runs("root") THEN S!RootInit ELSE S!RootStart({}, {FALSE})
  /\ T!TelemetryStart
  /\ IF Runs("reports") THEN A!ArchiveInit ELSE A!ArchiveStart(Memory)
  /\ IF Runs("logs") THEN A!LogsInit ELSE A!LogsStart({<<>>})

FilesNext ==
  /\ UNCHANGED part
  /\ \/ Runs("ledger") /\ StoreNext
     \/ ~Runs("ledger") /\ UNCHANGED ledgerVars
  /\ \/ Runs("settings") /\ F!SettingsNext
     \/ ~Runs("settings") /\ UNCHANGED settingVars
  /\ \/ Runs("seeds") /\ S!SeedsNext
     \/ ~Runs("seeds") /\ UNCHANGED seedVars
  /\ \/ Runs("root") /\ S!RootNext
     \/ ~Runs("root") /\ UNCHANGED rootVars
  /\ \/ Runs("telemetry") /\ T!TelemetryNext
     \/ ~Runs("telemetry") /\ UNCHANGED telemetryVars
  /\ \/ Runs("reports") /\ A!ArchiveNext
     \/ ~Runs("reports") /\ UNCHANGED archiveVars
  /\ \/ Runs("logs") /\ A!LogsNext
     \/ ~Runs("logs") /\ UNCHANGED logVars

FilesSpec == FilesInit /\ [][FilesNext]_filesVars

---------------------------------------------------------------------------
\* What the user, or a session, left in a file is kept: a setting that was saved
\* (settings-store.ts:460) and the retired store it came from, an edited default
\* (seed.ts:634), the files of the old directory (data-root.ts:17), the telemetry
\* of a session (producer.ts:429), a report in the file that owns it
\* (archive.ts:49), and a monitor's log (monitor/archive.ts:216).  A part at rest has no files to keep.
FilesAreKept ==
  /\ F!SavedIsKept /\ F!RetiredIsImported
  /\ Runs("seeds") => S!SeedsAreSafe
  /\ Runs("root") => S!CarriedOver
  /\ T!LogIsKept
  /\ A!ReportsAreOwned /\ A!LogsAreKept
====
