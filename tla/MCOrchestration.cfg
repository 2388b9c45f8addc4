SPECIFICATION FairSpec
CONSTANTS
  Plans <- MCPlans
  None = None
  Specs <- MCSpecs
  MaxRuns = 2
  MaxAttempts = 6
  MaxCrashes = 1
  Inputs = {"i", "j"}
  MaxDeferred = 1
  MaxTurns = 1
  MaxIssued = 2
  MaxRestarts = 2
  MaxRefusals = 1
  Scripts <- MCScripts
  Peers = {1, 2, 3}
  Sample = 1
  MaxWarnings = 1
  MaxRelays = 2
  RunLength = 1
  BurnFloor = 2
  Fat = 3
  Backoff = 1
  MaxSettles = 1
  Rosters <- MCRosters
  Steerable = {"one"}
  Books <- MCBooks
  PoolSize = 2
  MaxChildren = 2
  MaxFailures = 2
  Quiet = 1
  Jobs <- MCJobs
  MaxReported = 1
  Scenes <- MCScenes
  Keys = {"k", "l"}
CHECK_DEADLOCK FALSE
INVARIANTS LimitsHold OutcomesAreTrue ApprovedUnlessLate SupervisorIsTold
PROPERTIES StopIsFinal PaidOnce RunsEnd
