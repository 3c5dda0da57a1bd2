SPECIFICATION Spec
CONSTANTS
  Trees <- SmallTrees
  Nops = {0, 1}
  StringsBlock <- Block
  CHOSEN <- Chos
  BOOTARGS <- Bargs
  PREFIX <- Prefix
  SUITES <- Suites
  SIZE = 4
  Shapes = {"whole"}
CHECK_DEADLOCK FALSE
INVARIANT NeverReadsNull
