SPECIFICATION FairSpec
CONSTANTS
  Burst = 60
  Losses <- MCLosses
  Percent = 2
  MaxPolls = 2
  MaxBursts = 2
  MaxMishaps = 1
  Links = {v1, v2}
  MaxFrames = 4
  SnMax = 3
  t1 = t1
  t2 = t2
  Tabs = {t1, t2}
  Pressed <- MCPressed
  MaxQueue <- MCQueue
  MaxErrors = 2
  MaxLate = 1
  NBags = 2
  Repeats = 2
  Noises = {1, 2}
  Rounds = 1
  MaxIlls = 2
INVARIANTS
  DashTypeOK
  FlowIsReal
  UnbalanceIsLoss
  GuiTypeOK
  FaultIsTrue
  FaultIsShown
  DupCountsCopies
  SweepTypeOK
  RowIsThisSweeps
  RowIsQuietest
  PictureIsNotOlder
  CleanScenePasses
  AllPassIsEarned
PROPERTY DashboardConverges
