\* init_vga() again and again at either of two frame buffers, interrupted
\* anywhere; bursts of 2 words with any gaps, and both clocks, the memory and
\* the driver are fair.
SPECIFICATION FairSpec
CONSTANTS
  Space16 = 65536
  Space21 = 2097152
  Space32 = 64
  FifoDepth = 4
  MaxLag = 1
  MaxStep = 3
  BurstSize = 2
  AddrInc = 4
  AddrSpace = 64
  CountSpace = 16
  MinRatio = 1
  MaxRatio = 2
  MaxPending = 2
  Restarts = TRUE
  Bases = {4, 36}
  Lines = 2
  Config <- MCConfig
INVARIANTS
  TypeOK
  NoOverflow
  FetchInFrame
  ScanCursor
PROPERTIES
  PictureReturns
  ImplementsStream
