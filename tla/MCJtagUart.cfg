SPECIFICATION FairSpec
CONSTANTS
  BufLen = 2
  Depth = 1
  Threshold = 0
  IntMax = 4
  MaxTx = 2
  MaxRx = 2
  MaxCall = 2
  HasClock = {FALSE, TRUE}
INVARIANTS
  TypeOK
  TxInOrder
  RxInOrder
  NoLostWakeup
PROPERTIES
  Delivered
  CallEnds
