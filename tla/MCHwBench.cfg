SPECIFICATION Spec
CONSTANTS
  r1 = r1
  r2 = r2
  Runs = {r1, r2}
  Bags <- MCBags
  Counts <- MCCounts
  MultiBag = 10
  Default = 20
  MaxRuns = 2
  MaxFaults = 1
SYMMETRY Symmetry
INVARIANTS
  TypeOK
  LoneRowIsItsOwn
  CleanStepHasFigures
  BoardLeftAsFound
  OnlySetLinks
CHECK_DEADLOCK FALSE
