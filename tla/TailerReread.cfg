SPECIFICATION FairSpec
CONSTANTS
  MaxLines = 2
  MaxFiles = 1
  Huge = {}
  MaxTruncs = 0
INVARIANTS
  NoOldLines
