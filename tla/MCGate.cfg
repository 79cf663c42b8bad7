SPECIFICATION GatesSpec
CONSTANTS
  CpuCounts = {1, 3}
  ZoneCounts = {0, 1}
  CpuPicks = 2
  ZonePicks = 1
  Dim = 3
  Distances <- MCDistances
  BandK = 2
  Scores = {0, 1, 2, 3, 4, 5, 6}
  Floor = 1
  Share = 4
  MaxHonest = 4
  PhysDims = 3
  Nonces <- MCNonces
  Perms <- MCPerms
  Raws <- MCRaws
  Sleeps = {1, 3}
  Tolerance = 3
  Bits = {"b"}
  Evals = 2
  LibLen = 2
  Missing = Missing
  Empty = Empty
  Skipped = Skipped
INVARIANTS GatesTypeOK PlanIsWellFormed VerdictIsOnTheReading TargetReached HonestOwnPasses ReplayNeedsChance OwnModelHasLibrary
\* One answer is verified under the keyed scheme, and that is all.
CHECK_DEADLOCK FALSE
