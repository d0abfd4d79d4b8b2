CONSTANTS
  MaxRuns = 1
  Burst = 2
  MaxMishaps = 0
SPECIFICATION Spec
INVARIANT OkMeansSent
CHECK_DEADLOCK FALSE
