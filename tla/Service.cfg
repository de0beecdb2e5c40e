SPECIFICATION Spec
CONSTANTS
  Offers <- MCOffers
  Lines <- MCLines
  NumCPU = 2
  MaxCrew = 2
  MaxInputs = 3
INVARIANTS
  TypeOK
  SettingsPrecedence
  EndsEarned
  HomogeneousLossless
  MeaningKept
