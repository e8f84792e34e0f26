SPECIFICATION PlaybookSpec
CONSTANTS
  max_total_read_count = 32
  read_count_steps = 2
  initial_dilution = 4
  dilution_multiplier = 2
  max_dilution = 8
  attack_rows_start = 6
  max_attack_row_idx = 6
  decoy_rows_start = 12
  Mappings = {"Trivial", "TypeA", "TypeB"}
  colbits = 3
  rowbits = 6
  bankbits = 1
  address_align = 2
  dram_port_width = 64
  bus_width = 32
  base = 64
  Configs <- MCConfigs
  Flips <- MCFlips
CHECK_DEADLOCK FALSE
INVARIANTS
  ParamsInSync
  
  VictimBetweenAggressors
  
PROPERTIES
  ImplementsAnalysis
  PlaybookEnds
