SPECIFICATION Spec
CONSTANTS
  Kinds = {"CR", "alarm"}
  Digits = {4}
  COMMAND_SIZE = 3
  TIMER_FREQ = 4
  Word = 16
  ResetCmp = {15}
  MaxTyped = 3
  MaxTime = 4
  TxDepth = 2
CHECK_DEADLOCK FALSE
PROPERTY AlarmNotEarly
