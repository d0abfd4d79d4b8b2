CONSTANTS
  Tabs = {c1}
  BagOf <- MCTwoBags
  Repeat = 1
  MaxRuns = 2
  MaxFaults = 1
SPECIFICATION Spec
INVARIANTS AnswerIsThisRuns
CHECK_DEADLOCK FALSE
