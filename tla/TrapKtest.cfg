SPECIFICATION Spec
CONSTANTS
  Words <- SomeWords
  RegFiles <- TwoFiles
  StackWords = {0, 1}
  PCs <- TwoPCs
  Faulting <- OneFaulting
  Saved <- Callers
  Offset <- KtestOffset
  FRAME = 36
  SepcSaved = FALSE
  SkipsFault = TRUE
  TOP = 40
  Stack = {36, 38, 40}
PROPERTY RegistersKept
