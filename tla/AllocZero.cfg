SPECIFICATION Spec
CONSTANTS
  ALLOC_LIST_SIZE = 3
  Starts = {1}
CHECK_DEADLOCK FALSE
INVARIANTS
  ZeroPageReturns
