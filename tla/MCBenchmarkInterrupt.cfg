CONSTANTS
  Workers = {w1, w2}
  NTraces = 1
  NRows = 2
  MaxSignals = 1
  MaxRefused = 1
  Main = Main
SPECIFICATION Spec
INVARIANT InterruptStopsGroups
CHECK_DEADLOCK FALSE
