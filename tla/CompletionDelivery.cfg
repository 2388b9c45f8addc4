SPECIFICATION FairSpec
CONSTANTS
  Runs = {a, b, c}
  Batches = {{a, b}, {c}}
  MaxRetained = 1
  MaxDropped = 1
INVARIANTS NoSilentLoss ToldExactlyOnce TimerServesReports
PROPERTIES BatchTravelsTogether EverySettledRunIsTold
