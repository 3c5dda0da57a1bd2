SPECIFICATION Spec
CONSTANTS
  Kinds = {"CR", "echo", "alarm", "x"}
  Digits = {1}
  COMMAND_SIZE = 3
  TIMER_FREQ = 2
  Word = 32
  ResetCmp = {31}
  MaxTyped = 6
  MaxTime = 5
  TxDepth = 2
CHECK_DEADLOCK FALSE
INVARIANTS
  EchoExact
