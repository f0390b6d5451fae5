CONSTANTS
  NHash = 1
  NWitness = 2
  NConstants = 1
  NIo = 2
  NBus = 1
  HashWords = 2
  WitnessWords = 1
  FrWords = 1
  PageWords = 4
  BusFields = 1
  Word <- MCWord
  Files <- MCFiles
  Circuits <- MCCircuits
SPECIFICATION LoadSpec
INVARIANTS
  LoadedIsInFile
  WholeFileLoads
  CutFileDoesNotLoad
CHECK_DEADLOCK FALSE
