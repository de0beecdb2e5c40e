SPECIFICATION FairSpec
CONSTANTS
  MaxLines = 2
  MaxFiles = 2
  Huge = {1, 2}
  MaxTruncs = 1
INVARIANTS
  TypeOK
  PassInOrder
  EofReadsAll
PROPERTIES
  QuietFileIsRead
  CancelStops
