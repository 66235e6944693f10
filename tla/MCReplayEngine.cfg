CONSTANTS
  l1 = l1  t1 = t1  t2 = t2  l2 = l2  t3 = t3
  Nodes <- TheNodes
  LLMNodes <- TheLLMs
  Parents <- TheParents
SPECIFICATION LoopSpec
INVARIANTS AncestorsLearned QuiescentClose ToleratedFailureIsClean RootCause
PROPERTIES ImplementsContract FailureEnds
CHECK_DEADLOCK FALSE
