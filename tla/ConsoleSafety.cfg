SPECIFICATION FairSpec
CONSTANTS
  Kinds = {"CR", "uptime", "echo", "alarm", "-", "x"}
  Digits = {0, 1}
  COMMAND_SIZE = 4
  TIMER_FREQ = 2
  Word = 32
  ResetCmp = {4}
  MaxTyped = 5
  MaxTime = 4
  TxDepth = 2
CHECK_DEADLOCK FALSE
INVARIANTS
  TypeOK
  NoOverrun
  EchoResumed
PROPERTIES
  AlarmNotEarly
  LatestAlarmPrinted
  ShellReturns
