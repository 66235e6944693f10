CONSTANTS
  r1 = r1
  r2 = r2
  h1 = h1
  h2 = h2
  Replicas = {r1}
  Hosts = {h1}
  FrontOf <- Shared
  MaxSignals = 2
  MaxFaults = 2
SPECIFICATION LoopSpec
INVARIANT CompletedIsClean
PROPERTIES CoordinatorEnds ExitEndsRun LeashHolds
CHECK_DEADLOCK FALSE
