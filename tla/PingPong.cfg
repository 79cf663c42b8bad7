SPECIFICATION FairSpec
CONSTANTS
  Iters = 40
  IntMax = 47
  Shift = 1000
INVARIANTS TypeOK DumpIsComplete
PROPERTIES GenerationsAreConsecutive Ends
CHECK_DEADLOCK FALSE
