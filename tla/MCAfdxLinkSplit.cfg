CONSTANTS
  BAG = 20
  LMax = 1518
  MaxSN = 5
  Far = 3
  Window = 8
  Spread = 4
  Delays <- MCLateDelays
  MaxDelay = 14
  Gaps <- MCGaps
  Lengths <- MCLengths
  FirstSN <- MCFirstSN
  MaxFrames = 4
  MaxLost = 6
SPECIFICATION Spec
INVARIANT SplitStampsAreNoViolation
CHECK_DEADLOCK FALSE
