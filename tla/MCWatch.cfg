SPECIFICATION FairSpec
CONSTANTS
  k1 = k1
  k2 = k2
  FindingKeys = {k1, k2}
  FirstTickNew = FALSE
  MaxRuns = 3
INVARIANTS
  IInv
  NewSinceLastDisplayed
PROPERTIES
  EveryRunAnswered
  KeepsTicking
