SPECIFICATION Spec
CONSTANTS
  Kinds = {"CR", "alarm"}
  Digits = {0}
  COMMAND_SIZE = 3
  TIMER_FREQ = 2
  Word = 32
  ResetCmp = {31}
  MaxTyped = 3
  MaxTime = 5
  TxDepth = 2
CHECK_DEADLOCK FALSE
INVARIANTS
  AlarmAtMostOnce
