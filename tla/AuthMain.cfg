CONSTANTS
  HashMapSize = 4
  InputHashMap <- MCInputHashMap
  Hash <- MCHash
  Value <- MCValue
  One = 1
  Unset = Unset
  MainInputStart = 2
  MainInputNo = 3
  TotalSignals = 6
  Circuit <- MCCircuit
  Key <- MCKey
  fnv1a <- Mcfnv1a
  BadNumber = BadNumber
  Json <- MCJson
  NoJson = NoJson
  Header = Header
  WitnessSize = 5
  witness2SignalList <- MCwitness2SignalList
SPECIFICATION FairSpec
INVARIANTS
  MainTypeOK
  WholeFileIsWitness
PROPERTIES
  WrittenIsWhole
  FileImplementsWitnessFile
  EveryRunEnds
  ExactInputIsWritten
CHECK_DEADLOCK FALSE
