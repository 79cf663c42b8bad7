SPECIFICATION Spec
CONSTANTS
  n1 = n1
  n2 = n2
  s1 = s1
  s2 = s2
  nan = nan
  shortSeries = s2
  Absent = Absent
  Nonces = {n1, n2}
  Series = {s1, s2}
  ClaimLists <- MCClaimLists
  MaxSessions = 3
  Evaluate <- MCEvaluate
  FarApart <- MCFarApart
  InRange <- MCInRange
SYMMETRY MCSymmetry
INVARIANTS TypeOK AcceptedSeriesWasBound OneOutcomePerSession
PROPERTY RefinesCommitReveal
CHECK_DEADLOCK FALSE
