SPECIFICATION Spec
CONSTANTS
  Actors = {a1, a2}
  Runs = {r1, r2}
  Keys = {k}
  NoKey = NoKey
  NoRun = NoRun
  MaxCalls = 5
  MaxFaults = 1
SYMMETRY Symmetry
INVARIANTS
  TypeOK
  KeyEventUnique
  JournaledRunExists
  OnlyFaultsLoseEvents
PROPERTY ImplementsLifecycle
