SPECIFICATION MCSpec
CONSTANTS
  build = build
  files = files
  soon = soon
  x = x
  y = y
  Watches <- MCWatches
  Mode <- MCMode
  MaxEvents <- MCMaxEvents
  Lines <- MCLines
  MaxActive = 2
  Alarms <- MCAlarms
  MaxArmed = 1
  Backlog = 2
  BatchLimit = 1
  supervisor = supervisor
  child = child
  Names = {supervisor, child}
  Writers = {child}
  Readers = {supervisor}
  Sizes = {1, 3}
  MaxInbox = 2
  MaxRetained = 2
  MaxRetainedChars = 2
  MaxMsgs = 3
CHECK_DEADLOCK FALSE
INVARIANTS
  LiveAskReachable FlagTellsTheTruth NothingArmedForSettled RetentionAccounted
  WakesAgree NothingUnaccounted
PROPERTIES
  KeepsAskContract EveryAskSettles
  SilentWhenWithdrawn EveryWakeLands
