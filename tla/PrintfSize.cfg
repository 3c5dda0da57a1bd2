SPECIFICATION Spec
CONSTANTS
  BYTE = 8
  TMP = 8
  SIZE = 9
  MEM = 24
  MaxCalls = 1
  Formats <- ShellFormats
  Numbers <- Few
  Strings <- Commands
CHECK_DEADLOCK FALSE
INVARIANT WithinSize
