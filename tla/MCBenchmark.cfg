CONSTANTS
  Workers = {w1, w2}
  NTraces = 2
  NRows = 3
  MaxSignals = 2
  MaxRefused = 1
  Main = Main
SPECIFICATION Spec
SYMMETRY WorkerSymmetry
INVARIANTS RowsSound HonestCompletion ChildrenSignalled 
PROPERTY NoAdmissionAfterStop
CHECK_DEADLOCK FALSE
