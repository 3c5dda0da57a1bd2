SPECIFICATION FairSpec
CONSTANTS
  Irqs = {1, 10}
  WordBits = 32
  MaxPrio = 1
  IRQ_SERIAL = 10
  SERIAL_BUF_SIZE = 2
  FifoDepth = 2
  MaxBytes = 3
PROPERTIES
  FullBufferFlushed
