CONSTANTS
  Workers = {w1, w2}
  NTraces = 1
  NRows = 2
  MaxSignals = 1
  MaxRefused = 1
  Main = Main
SPECIFICATION LoopSpec
PROPERTY StopEndsRun
CHECK_DEADLOCK FALSE
