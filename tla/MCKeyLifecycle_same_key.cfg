SPECIFICATION Spec
CONSTANTS
  a = a
  b = b
  c = c
  Procs = {a, b}
  V2 = {a, b}
  Zeros = Zeros
  NoMu = NoMu
  Missing = Missing
  Empty = Empty
  Garbled = Garbled
  Readings <- MCReadings
  Key <- MCKey
  Exclusive = FALSE
  MaxSaveFaults = 0
INVARIANT SameChipSameKey
