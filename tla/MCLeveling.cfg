SPECIFICATION Spec
CONSTANTS
  nmodules = 2
  bitslips = 2
  delays = 4
  half_sys8x_taps = 2
  ReadConfig <- MCReadConfig
  WriteConfig <- MCWriteConfig
  Cdly = 3
  Eyes <- MCEyes
  MaxTools = 2
CHECK_DEADLOCK FALSE
INVARIANTS
  ScoresTrue
  EyeMargin
  StrobeOffset
