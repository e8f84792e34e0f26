SPECIFICATION Spec
CONSTANTS
  PatternDepth = 2
  RowSize = 1
  RowDivisor = 2
  Selection = {1}
  CountMax = 3
  AddressMax = 7
  FillWord = 0
  AddressFifoDepth = 2
  DmaFifoDepth = 2
  ErrorFifoDepth = 1
  Size = 3
  First = 0
  Second = 1
  RowTuple <- MCRowTuple
  ReadCount = 3
  HostGap = 1
  RestartGap = 3
  SleepCycles = 3
  Scripts = {"memtest", "attack"}
  MaxAborts = 1
INVARIANTS InStep ComparedWithPattern ReadyMeansIdle 
