CONSTANTS
  Tabs = {c1, c2}
  BagOf <- MCBagOf
  Repeat = 1
  MaxRuns = 3
  MaxFaults = 1
SPECIFICATION Spec
SYMMETRY TabSymmetry
INVARIANTS TypeOK LoneResultIsItsOwn CleanRunSucceeds
CHECK_DEADLOCK FALSE
