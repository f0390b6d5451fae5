CONSTANTS
  HashMapSize = 4
  InputHashMap <- MCInputHashMap
  Hash <- MCHash
  Value <- MCValue
  One = 1
  Unset = Unset
  MainInputStart = 2
  MainInputNo = 3
  TotalSignals = 6
  Circuit <- MCCircuit
SPECIFICATION Spec
INVARIANTS
  TypeOK
  RunsOnceWhenComplete
  WitnessMatchesInputs
PROPERTY
  SignalsWrittenOnce
CHECK_DEADLOCK FALSE
