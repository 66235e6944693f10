CONSTANTS
  c1 = c1  c2 = c2  c3 = c3  t1 = t1  t2 = t2
  None = None
  Scopes <- TheScopes
  Calls <- TheCalls
  Traces <- TheTraces
  TraceOf <- TheTraceOf
SPECIFICATION Spec
INVARIANTS RecordsInOrder ConsumedIsRecorded
CHECK_DEADLOCK FALSE
