------------------------------- MODULE MCGate -------------------------------
(***************************************************************************)
(* Gate, Threshold and UnkeyedEvaluation on small instances.  They share   *)
(* no state, so one of them moves at a time.                               *)
(*                                                                         *)
(* Gate has hosts of one and three CPUs, none or one zone, plans of two    *)
(* CPUs and one zone, and three dimensions, the last standing for dim 31.  *)
(* A band of 2 sigmas with measurements inside it, between it and one and  *)
(* a half times it, and beyond.                                            *)
(*                                                                         *)
(* Threshold has up to four examples with seven values of p0, the floor    *)
(* among them, and a target of none, a quarter, half or three quarters     *)
(* lost.                                                                   *)
(*                                                                         *)
(* UnkeyedEvaluation has three dimensions, two nonces, the identity and a  *)
(* permutation that is not its own inverse, and two sleeps that are not    *)
(* near each other: one of the readings is near one of them, the other is  *)
(* near neither.                                                           *)
(***************************************************************************)
EXTENDS Gate, Threshold, UnkeyedEvaluation

MCDistances == {0, 2, 3, 6}

MCNonces == SUBSET Bits
MCPerms == {[d \in 0 .. 2 |-> d], [d \in 0 .. 2 |-> (d + 1) % 3]}
MCRaws == {[d \in 0 .. 1 |-> 6 - 6 * d]}

GatesInit == Init /\ ThresholdInit /\ UnkeyedInit

\* One of many initial states of the others, beside which each one moves.
GateWaits == at = "cpus" /\ out = << >> /\ n_cpus = 1 /\ n_zones = 0
UnkeyedWaits == /\ plan = [n \in Nonces |-> CHOOSE p \in Plans : TRUE]
                /\ training = "off" /\ attack = "off" /\ pairs = Missing

GatesNext == \/ /\ UnkeyedWaits /\ size = 0
                /\ Next /\ UNCHANGED <<unkeyedVars, thresholdVars>>
             \/ /\ GateWaits /\ UnkeyedWaits
                /\ ThresholdNext /\ UNCHANGED <<vars, unkeyedVars>>
             \/ /\ GateWaits /\ size = 0
                /\ UnkeyedNext /\ UNCHANGED <<vars, thresholdVars>>

(* The variables of each have their types, and what the unkeyed battery    *)
(* replays was read on this chip under its own nonce.                      *)
GatesTypeOK == TypeOK /\ UnkeyedTypeOK

GatesSpec == GatesInit /\ [][GatesNext]_<<vars, unkeyedVars, thresholdVars>>
=============================================================================
