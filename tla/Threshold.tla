------------------------------ MODULE Threshold ------------------------------
(***************************************************************************)
(* The classifier's threshold: calibrate_threshold takes it from the p0 of *)
(* honest examples, and the veto of hard_veto_accept compares each p0 with *)
(* it (src/protocol/verifier_v2.py).  p0 is a whole number of some small   *)
(* unit; the share of examples that may be lost, 1 - target_tpr, is a      *)
(* whole number of 1/Share, and so is the weight between two examples at   *)
(* which np.quantile interpolates; thresholds are counted in 1/Share of    *)
(* the unit.                                                               *)
(***************************************************************************)
EXTENDS Integers, FiniteSets

CONSTANTS Scores,      \* values of p0
          Floor,       \* the lower floor, 0.10 in the code
          Share,
          MaxHonest    \* bound: examples

ASSUME ThresholdAssumption == /\ Scores \subseteq Nat /\ Floor \in Nat \ {0}
                              /\ Share \in Nat \ {0} /\ MaxHonest \in Nat \ {0}

VARIABLES size,    \* how many honest examples there are
          p0,      \* of the honest examples
          lost,    \* 1 - target_tpr, in 1/Share
          tau,     \* the threshold
          passed   \* examples that pass the veto

thresholdVars == <<size, p0, lost, tau, passed>>

ThresholdInit == size = 0 /\ p0 = << >> /\ lost = 0 /\ tau = 0 /\ passed = {}

\* The value at place k, from 0, of the sorted examples.
Sorted(k) == CHOOSE v \in Scores : /\ Cardinality({i \in 1 .. size : p0[i] < v}) <= k
                                   /\ k < Cardinality({i \in 1 .. size : p0[i] <= v})

\* Mutant: the quantile at target_tpr.
Quantile_OfTarget == Share * Sorted(((Share - lost) * (size - 1)) \div Share)

\* np.quantile, between the examples on either side of its place.
Quantile == LET place == lost * (size - 1)
                below == Sorted(place \div Share)
                above == IF place % Share = 0 THEN below ELSE Sorted(place \div Share + 1)
            IN  Share * below + (place % Share) * (above - below)

AtLeastFloor(t) == IF t < Share * Floor THEN Share * Floor ELSE t

Honest == /\ size = 0
          /\ size' \in 1 .. MaxHonest
          /\ p0' \in [1 .. size' -> Scores]
          /\ lost' \in 0 .. Share - 1
          /\ UNCHANGED <<tau, passed>>

CalibrateThreshold == /\ size > 0 /\ tau = 0
                      /\ tau' = AtLeastFloor(Quantile)
                      /\ passed' = {i \in 1 .. size : Share * p0[i] > tau'}
                      /\ UNCHANGED <<size, p0, lost>>

ThresholdNext == Honest \/ CalibrateThreshold

ThresholdSpec == ThresholdInit /\ [][ThresholdNext]_thresholdVars
-----------------------------------------------------------------------------
Rejected == size - Cardinality(passed)

(* calibrate_threshold's "achieves target_tpr on honest examples" (line    *)
(* 106), as far as it goes: where no two examples have one p0 and the      *)
(* floor is not in force, the share lost is the one allowed, but for the   *)
(* example the threshold falls on; and not even that where the allowance   *)
(* is a whole number of examples other than none.                          *)
TargetReached ==
  tau > Share * Floor /\ (\A i, j \in 1 .. size : p0[i] = p0[j] => i = j) =>
    /\ Share * (Rejected - 1) <= lost * (size - 1)
    /\ lost > 0 /\ (lost * size) % Share = 0 => Share * Rejected = lost * size
=============================================================================
