SPECIFICATION Spec
CONSTANTS
  Depth = 6
  reg_addr_size = 1
  PageReg = 11
  DataReg = 128
  Pages = 3
  PageLength = 2
  Lengths = {1, 2, 3}
  MaxCalls = 3
  MaxNacks = 3
CHECK_DEADLOCK FALSE
INVARIANTS
  OwnData
  SpdExact
 
