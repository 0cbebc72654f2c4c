SPECIFICATION Spec
CONSTANTS
  W = 4
  Calls <- MCCalls
CHECK_DEADLOCK FALSE
INVARIANT
  ChildrenProcessed
