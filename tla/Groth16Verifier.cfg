CONSTANTS
  R = 5
  Base = 7
  WordMax = 15
  IC <- MCIC
  Alpha = 2
  Beta = 3
  Gamma = 4
  Delta = 3
  CallData <- MCCallData
SPECIFICATION Spec
INVARIANTS
  AcceptsExactlyProofs
  FailureIsFalse
CHECK_DEADLOCK FALSE
