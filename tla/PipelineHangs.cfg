SPECIFICATION FairSpec
CONSTANTS
  Modes = {"file"}
  MaxLines = 2
  Workers = 1
  RawCap = 1
  EvtCap = 1
  CntCap = 1
  AnomCap = 1
  MaxTicks = 0
  Rules = 0
  CtxAlerter = FALSE
  Faults = FALSE
PROPERTY
  RunReturns
CHECK_DEADLOCK FALSE
