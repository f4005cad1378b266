SPECIFICATION Spec
CONSTANTS
  Actors = {a1}
  Runs = {r1, r2}
  Keys = {k}
  NoKey = NoKey
  NoRun = NoRun
  MaxCalls = 6
  MaxFaults = 0
SYMMETRY Symmetry
INVARIANT AnswersAndJournalAgree
PROPERTY StartsAreNewAttempts
