CONSTANTS
  p1 = p1
  p2 = p2
  work = work
  ask = ask
  file = file
  Procs = {p1, p2}
  Nobody = Nobody
  NoTaker = NoTaker
  Clashing <- MCClashing
  WriteSets <- MCWriteSets
  Histories <- MCNoHistory
  Keys = {work}
  AskIds = {ask}
  Kinds = {"claim", "ask", "answer", "release", "task_create", "task_take", "task_finish"}
  MaxAsksFromTo = 3
  MaxResults = 1
  MaxEvents = 2
  MaxCrashes = 0
  Parts = {"ledger"}
  Savers = {"p", "q"}
  SettingKeys = {"last", "model"}
  MaxSaves = 1
  Upgraders = {"p", "q"}
  MaxEdits = 2
  Movers = {"p", "q", "r"}
  Writers = {"v", "w"}
  Sweepers = {"q", "r"}
  MaxRecords = 2
  Reporters = {"r1", "r2"}
  SessionFiles = {"f", "g"}
  Memory = "memory"
  Quota = 1
  MaxOwners = 3
  Watched = {"m"}
  LogRecords = 1
  LogBytes = 1
  LogSize = 1
SPECIFICATION FilesSpec
CHECK_DEADLOCK FALSE
PROPERTY
  LeasedClaimsRemain
