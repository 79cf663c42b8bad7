SPECIFICATION EvalSpec
CONSTANTS
  a = a
  b = b
  c = c
  Procs = {a, c}
  V2 = {a}
  Zeros = Zeros
  NoMu = NoMu
  Missing = Missing
  Empty = Empty
  Garbled = Garbled
  Readings <- MCReadings
  Key <- MCKey
  Exclusive = TRUE
  MaxSaveFaults = 2
  MaxTrainings = 2
  NoTraining = NoTraining
INVARIANTS EvalTypeOK ReadyKeyIsOnDisk LibraryUnderCurrentKey VetoIsEarned
PROPERTY CalibrationNeverReplaced
