CONSTANTS
  c1 = c1  c2 = c2  c3 = c3  t1 = t1  t2 = t2
  None = None
  Scopes <- TheScopes
  Calls <- FewCalls
  Traces <- TheTraces
  TraceOf <- FewTraceOf
SPECIFICATION FairSpec
PROPERTY WaitersWake
CHECK_DEADLOCK FALSE
