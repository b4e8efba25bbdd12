\* The capture is stopped at any time, and begun again.
SPECIFICATION Spec
CONSTANTS
  Total = 8
  RowLen = 4
  AddrSpace = 128
  BurstSpace = 8
  FifoDepth = 8
  MaxLag = 1
  MaxStep = 1
  MinRatio = 4
  MaxRatio = 5
  MaxStall = 2
  BurstLen = 4
  Commands = {0, 1, 3}
  Dests = {0}
  Patient = FALSE
  ResetValue <- MCReset
PROPERTIES
  FreshStart
