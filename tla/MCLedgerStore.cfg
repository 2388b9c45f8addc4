CONSTANTS
  p1 = p1
  p2 = p2
  work = work
  ask = ask
  file = file
  Procs = {p1, p2}
  Nobody = Nobody
  NoTaker = NoTaker
  Clashing <- MCClashing
  WriteSets <- MCWriteSets
  Histories <- MCHistories
  Keys = {work}
  AskIds = {ask}
  Kinds = {"claim", "ask", "answer", "release", "task_create", "task_take", "task_finish"}
  MaxAsksFromTo = 3
  MaxResults = 1
  MaxEvents = 4
  MaxCrashes = 1
  Parts = {"ledger", "settings", "seeds", "root", "telemetry", "reports", "logs"}
  Savers = {"p", "q"}
  SettingKeys = {"last", "model"}
  MaxSaves = 1
  Upgraders = {"p", "q"}
  MaxEdits = 2
  Movers = {"p", "q", "r"}
  Writers = {"v", "w"}
  Sweepers = {"q", "r"}
  MaxRecords = 2
  Reporters = {"r1", "r2"}
  SessionFiles = {"f", "g"}
  Memory = "memory"
  Quota = 1
  MaxOwners = 3
  Watched = {"m", "n", "o"}
  LogRecords = 2
  LogBytes = 3
  LogSize = 2
SPECIFICATION FilesSpec
SYMMETRY Sessions
CHECK_DEADLOCK FALSE
INVARIANTS
  OneTransactionAtATime
  AckedFactsDurable
  LedgerReadable
  TakenIffClaimed
  FilesAreKept
