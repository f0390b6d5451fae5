CONSTANTS
  q = 103
  RP = 56
  C <- MCC
  M <- MCM
  P <- MCP
  S <- MCS
  Inputs <- MCInputs
  Unset = Unset
SPECIFICATION Spec
INVARIANTS
  NeverFails
  RunsWhenFed
  LeavesNothingOut
  ComputesAuth
PROPERTIES
  WrittenOnce
  Returns
CHECK_DEADLOCK FALSE
