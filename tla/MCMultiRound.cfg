SPECIFICATION FairSpec
CONSTANTS
  n1 = n1
  n2 = n2
  s1 = s1
  s2 = s2
  Absent = Absent
  NoSeries = NoSeries
  Nonces = {n1, n2}
  Series = {s1, s2}
  ShortSeries = {s2}
  ClaimLists <- MCClaimLists
  MaxSessions = 3
  MaxSends = 3
  MaxFaults = 1
  Evaluate <- MCEvaluate
  FarApart <- MCFarApart
  InRange <- MCInRange
INVARIANTS TypeOK HonestRejections RevealedAtMostOnce NothingLeftBehind
PROPERTY EveryExchangeAccepted
CHECK_DEADLOCK FALSE
