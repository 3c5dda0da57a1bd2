SPECIFICATION FairSpec
CONSTANTS
  BYTE = 8
  TMP = 8
  SIZE = 5
  MEM = 24
  MaxCalls = 1
  Formats <- AllFormats
  Numbers <- SomeNumbers
  Strings <- SomeStrings
CHECK_DEADLOCK FALSE
INVARIANTS
  TypeOK
  FormatNotOverread
  ExactIfFits
PROPERTY
  CallReturns
