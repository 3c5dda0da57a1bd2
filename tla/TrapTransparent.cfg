SPECIFICATION FairSpec
CONSTANTS
  Words <- SomeWords
  RegFiles <- TwoFiles
  StackWords = {0, 1}
  PCs <- TwoPCs
  Faulting <- OneFaulting
  Saved <- Reg
  Offset <- KernelOffset
  FRAME = 64
  SepcSaved = TRUE
  SkipsFault = FALSE
  TOP = 66
  Stack = {64, 66}
INVARIANT
  TypeOK
PROPERTIES
  Transparent
  InterruptsServed
