SPECIFICATION FairSpec
CONSTANTS
  Harvests = {h1, h2}
  MaxSources = 2
  MaxAttempts = 2
  MaxCalls = 3
  MappingMayFail = TRUE
  MaxFaults = 1
INVARIANTS
  TypeOK
  VerdictsAreAccounted
PROPERTY EveryHarvestSettles
