SPECIFICATION Spec
CONSTANTS
  Users = {"u", "v"}
  Tokens = {"s", "t"}
  Spaces = {"default", "east"}
  Requests = {"q", "r"}
  MaxEvents = 3
  MaxCalls = 2
  Names = {"n"}
  Firms = {"f", "g"}
  Tenants = {"default", "east"}
  Batches = {"b"}
  MaxJobs = 3
  Publishers = {"p1", "p2"}
  MaxVersion = 3
  MaxMoves = 4
  OfferIds = {"o1", "o2"}
  MaxPromotions = 3
  Legacy = {1, 2}
  MaxEditions = 2
  MaxRuns = 3
  Paths = {1, 2}
  Texts = {1, 2}
  Companies = {"c", "d"}
  LastDay = 2
  Horizon = 0
  MaxWrites = 2
  Threshold = 1
  MaxDirs = 2
  Offers = {1, 2}
  MaxChanges = 4
  UseCases = {"w", "x"}
  People = {"ann", "bob"}
  Campaigns = {"spring"}
  MaxSteps = 4
  LastSecond = 2
  MaxEdits = 2
INVARIANTS
  TypeOK
  
  CatalogHolds
  
  
CHECK_DEADLOCK FALSE
