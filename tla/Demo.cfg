SPECIFICATION Spec
CONSTANTS
  MaxClicks = 5
  MaxFailures = 1
INVARIANTS TypeOK StaleIsUnderAnotherNonce LastSigIsOfLastNonce AffinityRestored
\* The clicks are bounded.
CHECK_DEADLOCK FALSE
