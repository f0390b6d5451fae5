CONSTANTS
  Modulus = 13
  Precision = 3
  Rank <- MCRank
  Documents <- MCDocuments
SPECIFICATION Spec
INVARIANTS
  SameSignals
  LastOneWins
  LeavesArrive
  OnlyOneRefuses
CHECK_DEADLOCK FALSE
