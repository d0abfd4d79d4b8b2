CONSTANTS
  Tabs = {c1, c2}
  BagOf <- MCTwoBags
  Repeat = 1
  MaxRuns = 2
  MaxFaults = 1
SPECIFICATION FairSpec
PROPERTIES EveryCaptureAnswered
CHECK_DEADLOCK FALSE
