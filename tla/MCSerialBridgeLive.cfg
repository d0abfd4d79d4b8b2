CONSTANTS
  Clients = {c1, c2}
  MaxMsgs = 2
  OutLen = 1
  MaxFaults = 1
  MaxTyped = 1
  MaxTimeouts = 2
SPECIFICATION FairSpec
PROPERTIES EveryCommandAnswered QueueGivenBack
CHECK_DEADLOCK FALSE
