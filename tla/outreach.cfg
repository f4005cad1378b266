SPECIFICATION Spec
CONSTANTS
  Reps = {a1, a2}
  MaxTouchpoints = 3
  Quota = 1
  MaxPicks = 3
  Agents = {a1, a2}
  SourceRefs = {"mail", "meeting"}
  Meetings = {"meeting"}
  EventIds = {1, 2, 3}
  MaxPuts = 6
  Curators = {a1, a2}
  MaxMoves = 6
SYMMETRY PeopleSymmetry
CHECK_DEADLOCK FALSE
INVARIANTS
  TypeOK
  OnlyWorkInHandOutlivesOptOut
  
  ExcessOnlyByOverlap
