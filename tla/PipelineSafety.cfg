SPECIFICATION Spec
CONSTANTS
  Modes = {"file", "follow"}
  MaxLines = 2
  Workers = 2
  RawCap = 1
  EvtCap = 1
  CntCap = 1
  AnomCap = 1
  MaxTicks = 1
  Rules = 1
  CtxAlerter = TRUE
  Faults = TRUE
INVARIANTS
  IInv
  NoSendOnClosed
  SettledAtReturn
PROPERTY
  FlowSpec
CHECK_DEADLOCK FALSE
