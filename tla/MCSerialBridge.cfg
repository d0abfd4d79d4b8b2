CONSTANTS
  Clients = {c1, c2}
  MaxMsgs = 3
  OutLen = 1
  MaxFaults = 1
  MaxTyped = 1
  MaxTimeouts = 1
SPECIFICATION Spec
SYMMETRY ClientSymmetry
INVARIANTS TypeOK OneCapture OutputIsAttributable OkOutputIsComplete RunsInServiceOrder
PROPERTY ImplementsService
CHECK_DEADLOCK FALSE
