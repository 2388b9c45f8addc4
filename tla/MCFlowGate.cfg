SPECIFICATION Spec
CONSTANTS
  Plans <- MCPlans
  None = None
  Specs <- MCSpecs
  MaxRuns = 3
  MaxAttempts = 6
  MaxCrashes = 1
  Inputs = {"i", "j"}
  MaxDeferred = 1
  MaxTurns = 1
  MaxIssued = 2
  MaxRestarts = 2
  MaxRefusals = 1
  Scripts <- MCScripts
  Peers = {1, 2, 3}
  Sample = 1
  MaxWarnings = 1
  MaxRelays = 2
  RunLength = 1
  BurnFloor = 2
  Fat = 3
  Backoff = 1
  MaxSettles = 1
  Books <- MCBooks
  PoolSize = 2
  MaxChildren = 2
  MaxFailures = 2
  Quiet = 1
  Jobs <- MCJobs
  MaxReported = 1
  Scenes <- MCScenes
  Keys = {"k", "l"}
  Rosters <- MCRosters
  Steerable = {"one"}
CHECK_DEADLOCK FALSE
INVARIANT WorksOnApproved
