SPECIFICATION FairSpec
CONSTANTS
  PatternDepth = 3
  RowSize = 1
  RowDivisor = 2
  Selection = {1}
  Configs <- MCConfigs
  Addresses = {0, 1, 2, 3}
  DmaFifoDepth = 2
INVARIANT Filled
PROPERTY FillEnds
