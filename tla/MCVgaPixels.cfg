\* Bursts of 3 words in a FIFO that holds a line and more, so that whole frames
\* are shown without an underflow.
SPECIFICATION Spec
CONSTANTS
  Space16 = 65536
  Space21 = 2097152
  Space32 = 64
  FifoDepth = 6
  MaxLag = 1
  MaxStep = 3
  BurstSize = 3
  AddrInc = 4
  AddrSpace = 64
  CountSpace = 16
  MinRatio = 1
  MaxRatio = 2
  MaxPending = 2
  Restarts = TRUE
  Bases = {4}
  Lines = 2
  Config <- MCConfig
INVARIANTS
  PixelCorrect
