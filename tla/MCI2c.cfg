SPECIFICATION FairSpec
CONSTANTS
  LastBit = 1
  ClkCnt = 2
  ResetDiv = 3
  DevAddr <- MCDevAddr
  Programs <- MCPrograms
INVARIANTS
  TypeOK
  BusCarriesCall
  ResultTruthful
  NoWriteLost
PROPERTIES
  CallReturns

