SPECIFICATION HostSpec
CONSTANTS
  Depth = 5
  LoopMod = 4
  Programs <- MCPrograms
  Resident <- MCResident
  JumpCycles = 2
  ScratchDepth = 4
  ReadLatency = 3
  AtRefreshes = {0, 2}
  MaxRefresh = 3
  MaxScripts = 3
CHECK_DEADLOCK FALSE
INVARIANTS
  OwnPayload
  ReturnsWhenDone
  ScratchpadExact
PROPERTY ExecutionReturns
