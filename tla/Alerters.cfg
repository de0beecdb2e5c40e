SPECIFICATION FairSpec
CONSTANTS
  MaxRetries = 4
  Delays <- TwoDelays
  MaxAnomalies = 2
INVARIANTS
  TypeOK
  NilMeansDelivered
  WritersKeepUp
  RetriesBounded
  GivesUpForCause
PROPERTIES
  SendReturns
