SPECIFICATION Spec
CONSTANTS
  ALLOC_LIST_SIZE = 4
  Starts = {1, 5, 9}
CHECK_DEADLOCK FALSE
INVARIANTS
  TypeOK
  NoDoubleOwner
  NoLeak
  HeldCanBeFreed
