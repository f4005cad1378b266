SPECIFICATION Spec
CONSTANTS
  SignalIds = {1, 2, 3}
  Kinds = {"public", "import"}
  Limit = 1
  Searches <- TwoSearches
  MaxPuts = 4
  MaxWrites = 3
  MaxVersions = 2
  People = {p1, p2}
  NoOne = NoOne
  Reasons = {r1}
  ClaimPool <- FactAndHearsay
  MaxBlockers = 1
  MaxEvents = 2
  Steps = 3
  MaxSteps = 2
  MaxCost = 2
  StepCost = 2
  MaxRaises = 1
SYMMETRY PeopleSymmetry
CHECK_DEADLOCK FALSE
INVARIANTS
  TypeOK
  PagesAndListsHold
  AcceptedCasesHold
  PassesAreBounded
PROPERTIES
  OwnersDoNotAccept
