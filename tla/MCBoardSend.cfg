CONSTANTS
  MaxRuns = 2
  Burst = 2
  MaxMishaps = 1
SPECIFICATION Spec
INVARIANTS TypeOK LoneVerdictIsTrue GoodBurstIsWhole LoneStopEndsLoops
CHECK_DEADLOCK FALSE
