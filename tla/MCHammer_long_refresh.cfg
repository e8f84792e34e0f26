SPECIFICATION HammerSpec
CONSTANTS
  Depth = 80
  LoopMod = 4
  Programs = {}
  Resident = {}
  JumpCycles = 2
  TimesliceMod = 4
  NoopChunk = 2
  MaxActs = 6
  Jobs <- LongRefreshJobs
INVARIANT AtLeastReadCount
CHECK_DEADLOCK FALSE
