SPECIFICATION FairSpec
CONSTANTS
  Trees <- AllTrees
  Nops = {0, 1}
  StringsBlock <- Block
  CHOSEN <- Chos
  BOOTARGS <- Bargs
  PREFIX <- Prefix
  SUITES <- Suites
  SIZE = 4
  Shapes = {"whole", "NOP first", "END_NODE missing"}
CHECK_DEADLOCK FALSE
INVARIANTS
  BootargsRight
  SuitesRight
PROPERTY SuitesRun
