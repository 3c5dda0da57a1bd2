SPECIFICATION FairSpec
CONSTANTS
  ENTRIES = 8
  GIGAPAGE = 64
  PAGE = 4
  STACK = 8
  GLOBALS = 4
  BssSizes <- Sizes
  Harts = {0, 1}
  Dtbs = {100, 101}
  Junk = {0, 7}
CHECK_DEADLOCK FALSE
INVARIANTS
  BssCleared
  RodataIntact
PROPERTY
  Boots
