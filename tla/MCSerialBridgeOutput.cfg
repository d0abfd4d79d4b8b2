CONSTANTS
  Clients = {c1, c2}
  MaxMsgs = 2
  OutLen = 1
  MaxFaults = 0
  MaxTyped = 0
  MaxTimeouts = 1
SPECIFICATION Spec
SYMMETRY ClientSymmetry
INVARIANT OnlyItsOutput
CHECK_DEADLOCK FALSE
