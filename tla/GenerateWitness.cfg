CONSTANTS
  Calls <- MCCalls
  Header = Header
  NoJson = NoJson
  Key <- MCKey
  SignalOfKey <- MCSignalOfKey
  SizeOfKey <- MCSizeOfKey
  NoSignal = NoSignal
  Value <- MCValue
  BadNumber = BadNumber
  Json <- MCFewJson
  One = 1
  Blank = Blank
  InputSignals <- MCInputSignals
  ComputedSignals <- MCComputedSignals
  Circuit <- MCCircuit
  Evaluated <- MCEvaluated
  witnessSize = 5
  witness2signal <- MCwitness2signal
  NoAnswer = NoAnswer
  Thrown = Thrown
SPECIFICATION ScriptSpec
INVARIANT
  WrittenIsWhole
PROPERTIES
  FileImplementsWitnessFile
  AcceptedIsWritten
CHECK_DEADLOCK FALSE
