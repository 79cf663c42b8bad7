-------------------------------- MODULE Gate --------------------------------
(***************************************************************************)
(* One answer under the keyed scheme: NonceSigV2.read measures under the   *)
(* plan of the nonce and permutes the 32 physical dimensions by it; the    *)
(* verifier (src/protocol/verifier_v2.py) derives the same plan, undoes    *)
(* the permutation and scores the vector against the calibrated band.      *)
(*                                                                         *)
(* A measurement is its distance from the chip's mean, in sigmas.  What    *)
(* the verifier is sent is what read returned.  The verdict of the         *)
(* classifier is an input.                                                 *)
(***************************************************************************)
EXTENDS PlanDerivation

CONSTANTS Distances,   \* distances a measurement may have
          BandK        \* band_k

ASSUME BandAssumption == 0 \in Distances /\ Distances \subseteq Nat /\ BandK \in Nat \ {0}

VARIABLES raw,         \* measured, in the order of the dimensions
          answer,      \* returned by read, permuted
          own,         \* the classifier says p0 > tau_cls
          verdict      \* of hard_veto_accept

gateVars == <<raw, answer, own, verdict>>
vars == <<planVars, gateVars>>

Dims == 0 .. Dim - 1
Last == Dim - 1   \* dim 31, the one that is tested by itself

Init == /\ PlanInit
        /\ raw = [d \in Dims |-> 0] /\ answer = raw
        /\ own = FALSE /\ verdict = "none"

Derive == PlanNext /\ UNCHANGED gateVars

Read == /\ at = "derived" /\ verdict = "none"
        /\ \E r \in [Dims -> Distances] :
             /\ raw' = r
             /\ answer' = [k \in Dims |-> r[arr[k]]]
        /\ own' \in BOOLEAN
        /\ verdict' = "asked"
        /\ UNCHANGED planVars

\* Mutant: the permutation is applied again instead of undone.
Unpermuted_Again == [d \in Dims |-> answer[arr[d]]]

\* phys_part[inv], where inv[perm] = 0 .. 31.
Unpermuted == LET inv == [d \in Dims |-> CHOOSE k \in Dims : arr[k] = d]
              IN  [d \in Dims |-> answer[inv[d]]]

(* Both scores are 1 up to band_k, 0 from twice that, linear between, and  *)
(* pass above 1/2: below one and a half band_k.                            *)
LastPasses(v) == 2 * v[Last] < 3 * BandK

\* The sums of the squares of the first dimensions.
Squares(v) == LET sum[k \in 0 .. Dim] == IF k = 0 THEN 0 ELSE sum[k - 1] + v[k - 1] * v[k - 1]
              IN  sum

\* The root of the mean of the squares.
MahalaPasses(v) == 4 * Squares(v)[Dim] < 9 * BandK * BandK * Dim

Verify == /\ verdict = "asked"
          /\ verdict' = IF LastPasses(Unpermuted) /\ MahalaPasses(Unpermuted) /\ own
                        THEN "accept" ELSE "reject"
          /\ UNCHANGED <<planVars, raw, answer, own>>

Next == Derive \/ Read \/ Verify

Spec == Init /\ [][Next]_vars
-----------------------------------------------------------------------------
TypeOK == /\ PlanTypeOK
          /\ raw \in [Dims -> Distances]
          /\ answer \in [Dims -> Distances]
          /\ own \in BOOLEAN
          /\ verdict \in {"none", "asked", "accept", "reject"}

(* The verdict is on what was measured, whatever the plan made of the      *)
(* order: the verifier puts each dimension back where its band is.  An     *)
(* answer within band_k of the chip's mean in every dimension is accepted  *)
(* if the classifier takes it for the chip's; an accepted one has dim 31   *)
(* itself within one and a half band_k, and no dimension further off than  *)
(* a single one may be when all others are on their mean.                  *)
VerdictIsOnTheReading ==
  /\ verdict = "reject" /\ own => \E d \in Dims : raw[d] > BandK
  /\ verdict = "accept" => /\ own
                           /\ \A d \in Dims : 4 * raw[d] * raw[d] < 9 * BandK * BandK * Dim
                           /\ 2 * raw[Last] < 3 * BandK
=============================================================================
