CONSTANTS
  Calls = {c1, c2, c3}
  Key <- MCKey
  SignalOfKey <- MCSignalOfKey
  SizeOfKey <- MCSizeOfKey
  NoSignal = NoSignal
  Value <- MCValue
  BadNumber = BadNumber
  Json <- MCSomeJson
  One = 1
  Blank = Blank
  InputSignals <- MCInputSignals
  ComputedSignals <- MCComputedSignals
  Circuit <- MCCircuit
  Evaluated <- MCEvaluated
  witnessSize = 5
  witness2signal <- MCwitness2signal
  NoAnswer = NoAnswer
  Thrown = Thrown
SPECIFICATION Spec
INVARIANT
  ThrowsExactlyRefused
PROPERTIES
  ImplementsWitnessService
  ReturnsWitnessOfLatest
  EveryCallSettles
CHECK_DEADLOCK FALSE
