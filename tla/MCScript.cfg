SPECIFICATION FairSpec
CONSTANTS
  colbits = 3
  rowbits = 2
  bankbits = 1
  address_align = 2
  dram_port_width = 64
  bus_width = 32
  base = 1073741824
  CountMod = 4
  Invocations <- MCInvocations
  Weak <- MCWeak
  PollGap = 2
  MaxScripts = 2
  MaxKills = 1
INVARIANTS HammeredAsAsked NothingLeftOn ExitHonoured
PROPERTIES  ScriptEnds
CHECK_DEADLOCK FALSE
