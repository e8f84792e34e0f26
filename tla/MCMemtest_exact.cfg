SPECIFICATION FairSpec
CONSTANTS
  PatternDepth = 2
  RowSize = 1
  RowDivisor = 2
  Selection = {1}
  CountMax = 4
  AddressMax = 3
  FillWord = 0
  AddressFifoDepth = 2
  DmaFifoDepth = 2
  ErrorFifoDepth = 1
  Size = 4
  First = 0
  Second = 3
  RowTuple <- MCRowTuple
  ReadCount = 4
  HostGap = 1
  RestartGap = 3
  SleepCycles = 3
  Scripts = {"memtest", "attack"}
  MaxAborts = 0
INVARIANTS MemtestExact
PROPERTY ScriptEnds
