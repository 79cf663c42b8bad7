----------------------------- MODULE UnkeyedGate -----------------------------
(***************************************************************************)
(* Signature and gate of the unkeyed scheme, as functions.                 *)
(*                                                                         *)
(* derive_plan (src/protocol/nonce_derivation.py) gives each nonce a       *)
(* permutation and a sleep; NonceSig.read(raw=True) measures under the     *)
(* plan, puts the sleep in the last dimension and permutes them all;       *)
(* plan_consistency_score (src/protocol/verifier.py) looks for the sleep   *)
(* where the plan has put it.  The draws come from numpy's generator and   *)
(* may be any.  Readings and sleeps are on the logarithmic scale of read   *)
(* and of the score, which is the same.  Hosts have two CPUs or more: with *)
(* one, derive_plan raises, and no NonceSig can be made.                   *)
(***************************************************************************)
EXTENDS Integers

CONSTANTS PhysDims,    \* 32 in the code
          Nonces,
          Perms,       \* permutations of the dimensions that may be drawn
          Raws,        \* what the dimensions but the last may read
          Sleeps,      \* values of ns_sleep
          Tolerance    \* of the score

Slots == 0 .. PhysDims - 1
SleepDim == PhysDims - 1   \* 31

ASSUME PermAssumption ==
  Perms \subseteq {p \in [Slots -> Slots] :
                     /\ \A d \in Slots : \E k \in Slots : p[k] = d
                     /\ \A k, l \in Slots : p[k] = p[l] => k = l}

ASSUME GateAssumption == /\ PhysDims \in Nat \ {0}
                         /\ Raws \subseteq [0 .. PhysDims - 2 -> Int]
                         /\ Sleeps \subseteq Int
                         /\ Tolerance \in Nat \ {0}

Plans == [perm : Perms, sleep : Sleeps]

\* _raw_read on the scale of read.
Measured(plan, raw) == [d \in Slots |-> IF d = SleepDim THEN plan.sleep ELSE raw[d]]

\* Mutant: the dimensions stay where they are.
ReadRaw_InPlace(plan, raw) == Measured(plan, raw)

ReadRaw(plan, raw) == [k \in Slots |-> Measured(plan, raw)[plan.perm[k]]]

Near(v, w) == 2 * (v - w) < Tolerance /\ 2 * (w - v) < Tolerance

\* Where plan puts the last dimension.
Pos(plan) == CHOOSE k \in Slots : plan.perm[k] = SleepDim

\* Mutant: the permutation is applied again instead of undone.
PlanPass_Again(sig, plan) == Near(sig[plan.perm[SleepDim]], plan.sleep)

\* The score is above 1/2 if the difference is below half the tolerance.
PlanPass(sig, plan) == Near(sig[Pos(plan)], plan.sleep)
=============================================================================
