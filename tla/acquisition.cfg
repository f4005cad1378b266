SPECIFICATION AcquisitionSpec
CONSTANTS
  Requests = {q1, q2}
  Entities = {e1, e2}
  Locators = {l1, l2}
  Excerpts = {x1}
  Kinds = {"discover", "acquire", "identify"}
  MaxRequests = 3
  MaxHits = 2
  MaxCuts = 1
SYMMETRY Symmetry
INVARIANTS
  AcquisitionTypeOK
  CopiesBoundedByConcurrency
  EvidenceAndMappingsAgree
