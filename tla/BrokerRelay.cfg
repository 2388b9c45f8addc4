SPECIFICATION RelayFairSpec
CONSTANTS
  Names = {sup, k1}
  Reasons = {"replied", "aborted", "timeout", "unregistered"}
  Supervisor = sup
  MaxPuts = 2
  MaxCalls = 2
  MaxSteers = 1
CHECK_DEADLOCK FALSE
INVARIANTS CallsAgree OutcomesAreTrue HeardInOrder
PROPERTIES NothingDropped LegLeavesNothing CallsSettle
