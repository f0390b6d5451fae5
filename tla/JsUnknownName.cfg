CONSTANTS
  Calls = {c1}
  Key <- MCKey
  SignalOfKey <- MCSignalOfKey
  SizeOfKey <- MCSizeOfKey
  NoSignal = NoSignal
  Value <- MCValue
  BadNumber = BadNumber
  Json <- MCJson
  One = 1
  Blank = Blank
  InputSignals <- MCInputSignals
  ComputedSignals <- MCComputedSignals
  Circuit <- MCCircuit
  Evaluated <- MCEvaluated
  witnessSize = 5
  witness2signal <- MCwitness2signal
  NoAnswer = NoAnswer
  Thrown = Thrown
SPECIFICATION Spec
INVARIANTS
  UnknownNameIsRefused
CHECK_DEADLOCK FALSE
