\* Commands at any time and a slow memory: what is lost or late, the bursts
\* stay in the buffer.
SPECIFICATION Spec
CONSTANTS
  Total = 4
  RowLen = 2
  AddrSpace = 128
  BurstSpace = 8
  FifoDepth = 4
  MaxLag = 1
  MaxStep = 1
  MinRatio = 1
  MaxRatio = 2
  MaxStall = 1
  BurstLen = 2
  Commands = {0, 1, 3}
  Dests = {0}
  Patient = FALSE
  ResetValue <- MCReset
INVARIANTS
  TypeOK
  BurstInBuffer
