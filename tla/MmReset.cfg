SPECIFICATION Spec
CONSTANTS
  ALLOC_LIST_SIZE = 9
  PTB_ENTRY_COUNT = 4
  DirectGigapages = 1
  KernelGigapages = 1
  VA_SIZE = 256
  PPN_SIZE = 128
  KernelStarts = {2, 3}
  MaxKernelPages = 4
  SERIAL = 1
  RamPages <- Ram
  LaterCalls <- Later
  GarbagePTEs <- Zeroed
  MaxResets = 1
CHECK_DEADLOCK FALSE
INVARIANTS
  BootNeverPanics
