SPECIFICATION Instance
CONSTANTS
  r1 = r1  r2 = r2  r3 = r3
  c1 = c1  c2 = c2  k1 = k1
  Replays = {r1, r2, r3}
  Leasers = {r1, r2}
  Ports = {q1, q2}
  Polls = 1
  Limit = 2
  Start <- Starts
  None = None
  Other = Other
  Members = {m1, m2}
  Collectors = {k1, k2}
  Planned = 2
  NoOne = NoOne
  Calls = {c1, c2}
  Replicas = 2
  Home <- Homes
  Points = 2
  Requests = {"a", "b"}
  MaxSteps = 3
INVARIANTS
  GatewaysApart SandboxesBounded PackTells CollectionsAgree OneRowPerCall
  CompletedIsWhole ValidReportIsTrue SweepSound DiagnosticsExact
PROPERTY ComponentsEnd
CHECK_DEADLOCK FALSE
