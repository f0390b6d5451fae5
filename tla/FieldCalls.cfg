CONSTANTS
  Q = 37
  WordBits = 4
  Words = 2
  ShortBits = 2
  NBits = 6
  Leftovers <- MCLeftovers
SPECIFICATION Spec
INVARIANTS
  ResultIsRight
  InPlaceIsRight
  AnswersAreRight
CHECK_DEADLOCK FALSE
