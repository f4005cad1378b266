SPECIFICATION Spec
CONSTANTS
  Editors = {a1, a2}
  ClaimIds = {"claim"}
  MaxDemandSaves = 3
  Sellers = {a1, a2}
  Seats = {s1, s2}
  MaxDay = 1
  MaxSaves = 3
SYMMETRY TargetingSymmetry
CHECK_DEADLOCK FALSE
INVARIANTS
  TypeOK
  VerdictsAreEarned
  OneOfEachAuthority

  
