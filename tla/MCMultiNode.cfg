CONSTANTS
  r1 = r1
  r2 = r2
  h1 = h1
  h2 = h2
  Replicas = {r1, r2}
  Hosts = {h1, h2}
  FrontOf <- OneEach
  MaxSignals = 1
  MaxFaults = 0
SPECIFICATION Spec
SYMMETRY PairSymmetry
INVARIANTS CommonWindow BackendsOutliveReplay NothingLeftBehind
CHECK_DEADLOCK FALSE
