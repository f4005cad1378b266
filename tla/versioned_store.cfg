SPECIFICATION Spec
CONSTANTS
  Callers = {a1, a2, a3}
  Ids = {d1, d2}
  MaxCalls = 5
  MaxFaults = 1
SYMMETRY Symmetry
INVARIANTS
  TypeOK
  VersionsCountEdits
  LostOnlyToOverlap
