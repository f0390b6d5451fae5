CONSTANTS
  Q = 23
  N = 2
  Poseidon <- MCPoseidon
  Inputs <- MCInputs
SPECIFICATION Spec
INVARIANTS
  OneWitness
  RefusesOnlyTheUnprovable
  OutputsMean
CHECK_DEADLOCK FALSE
