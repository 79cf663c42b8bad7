--------------------------- MODULE PlanDerivation ---------------------------
(***************************************************************************)
(* derive_plan_keyed (src/protocol/nonce_signature_v2.py): the sampling    *)
(* plan of a nonce under K_chip, by loops over byte streams.               *)
(*                                                                         *)
(* The streams are SHAKE256 of the key, a domain and the nonce; a draw     *)
(* from a stream, reduced by its modulus, is any value below the modulus.  *)
(* They are longer than the loops need (8 words for at most 4 draws, 32    *)
(* words for 31 swaps), so the loops' exits on a short stream are left     *)
(* out; so are the burst lengths, each one draw from a range.  Arrays are  *)
(* functions from 0, as in the code.                                       *)
(***************************************************************************)
EXTENDS Integers, Sequences

CONSTANTS CpuCounts,   \* numbers of CPUs of the hosts considered
          ZoneCounts,  \* numbers of thermal zones
          CpuPicks,    \* CPUs in a plan, 4 in the code
          ZonePicks,   \* zones in a plan, 3 in the code
          Dim          \* physical dimensions, 32 in the code

ASSUME CountsAssumption == CpuCounts \subseteq Nat \ {0} /\ ZoneCounts \subseteq Nat
ASSUME PicksAssumption == CpuPicks \in Nat /\ ZonePicks \in Nat
ASSUME DimAssumption == Dim \in Nat \ {0}

VARIABLES n_cpus, n_zones,
          at,            \* the part of the plan being derived
          pool, out,     \* of _stream_choice
          cpu_subset, zone_subset, core_pairs,
          arr, i         \* of _stream_permutation

planVars == <<n_cpus, n_zones, at, pool, out, cpu_subset, zone_subset, core_pairs, arr, i>>

host == <<n_cpus, n_zones>>

Least(a, b) == IF a <= b THEN a ELSE b

Identity(n) == [k \in 0 .. n - 1 |-> k]

PlanInit == /\ n_cpus \in CpuCounts /\ n_zones \in ZoneCounts
            /\ at = "cpus"
            /\ pool = Identity(n_cpus) /\ out = <<>>
            /\ cpu_subset = <<>> /\ zone_subset = <<>> /\ core_pairs = <<>>
            /\ arr = Identity(Dim) /\ i = Dim - 1

\* What _stream_choice is called with.
Items == IF at = "cpus" THEN n_cpus ELSE n_zones
Wanted == IF at = "cpus" THEN Least(CpuPicks, n_cpus) ELSE Least(ZonePicks, n_zones)

\* Mutant: the item drawn stays in the pool.
Draw_Keeps == /\ at \in {"cpus", "zones"} /\ Len(out) < Wanted
              /\ \E r \in 0 .. Items - 1 - Len(out) : out' = Append(out, pool[r])
              /\ UNCHANGED <<host, at, pool, cpu_subset, zone_subset, core_pairs, arr, i>>

\* One draw: the last item of the pool that is left takes the place of the one drawn.
Draw == /\ at \in {"cpus", "zones"} /\ Len(out) < Wanted
        /\ \E r \in 0 .. Items - 1 - Len(out) :
             /\ out' = Append(out, pool[r])
             /\ pool' = [pool EXCEPT ![r] = pool[Items - 1 - Len(out)]]
        /\ UNCHANGED <<host, at, cpu_subset, zone_subset, core_pairs, arr, i>>

CpusDrawn == /\ at = "cpus" /\ Len(out) = Wanted
             /\ cpu_subset' = out
             /\ pool' = Identity(n_zones) /\ out' = <<>>
             /\ at' = IF n_zones > 0 THEN "zones" ELSE "pairs"
             /\ UNCHANGED <<host, zone_subset, core_pairs, arr, i>>

ZonesDrawn == /\ at = "zones" /\ Len(out) = Wanted
              /\ zone_subset' = out
              /\ at' = "pairs"
              /\ UNCHANGED <<host, pool, out, cpu_subset, core_pairs, arr, i>>

\* The second core of a pair, b drawn below n_cpus - 1.
Other(a, b) == LET shifted == IF b >= a THEN b + 1 ELSE b
               IN  IF shifted >= n_cpus THEN 0 ELSE shifted

Pair == /\ at = "pairs" /\ Len(core_pairs) < 2
        /\ \E a \in 0 .. n_cpus - 1, b \in 0 .. (IF n_cpus > 1 THEN n_cpus - 2 ELSE 0) :
             core_pairs' = Append(core_pairs, <<a, Other(a, b)>>)
        /\ at' = IF Len(core_pairs) = 1 THEN "perm" ELSE "pairs"
        /\ UNCHANGED <<host, pool, out, cpu_subset, zone_subset, arr, i>>

Swap == /\ at = "perm" /\ i > 0
        /\ \E r \in 0 .. i : arr' = [arr EXCEPT ![i] = arr[r], ![r] = arr[i]]
        /\ i' = i - 1
        /\ UNCHANGED <<host, at, pool, out, cpu_subset, zone_subset, core_pairs>>

Permuted == /\ at = "perm" /\ i = 0
            /\ at' = "derived"
            /\ UNCHANGED <<host, pool, out, cpu_subset, zone_subset, core_pairs, arr, i>>

PlanNext == Draw \/ CpusDrawn \/ ZonesDrawn \/ Pair \/ Swap \/ Permuted

PlanSpec == PlanInit /\ [][PlanNext]_planVars
-----------------------------------------------------------------------------
PlanTypeOK == /\ n_cpus \in CpuCounts /\ n_zones \in ZoneCounts
              /\ at \in {"cpus", "zones", "pairs", "perm", "derived"}
              /\ out \in Seq(Nat) /\ cpu_subset \in Seq(Nat) /\ zone_subset \in Seq(Nat)
              /\ core_pairs \in Seq(Nat \X Nat)
              /\ arr \in [0 .. Dim - 1 -> 0 .. Dim - 1]
              /\ i \in 0 .. Dim - 1

\* k distinct indices below n.
DistinctBelow(seq, k, n) ==
  /\ Len(seq) = k
  /\ \A p \in 1 .. k : seq[p] \in 0 .. n - 1
  /\ \A p, q \in 1 .. k : seq[p] = seq[q] => p = q

Injective(f, n) == \A p, q \in 0 .. n - 1 : f[p] = f[q] => p = q

(* A derived plan measures on distinct CPUs and distinct zones of the      *)
(* host, as many as it can, between two different cores of a pair (there   *)
(* are two when the host has two CPUs), and its output order uses every    *)
(* dimension once.                                                         *)
PlanIsWellFormed ==
  at = "derived" =>
    /\ DistinctBelow(cpu_subset, Least(CpuPicks, n_cpus), n_cpus)
    /\ DistinctBelow(zone_subset, Least(ZonePicks, n_zones), n_zones)
    /\ Len(core_pairs) = 2
    /\ \A p \in 1 .. 2 : /\ core_pairs[p][1] \in 0 .. n_cpus - 1
                         /\ core_pairs[p][2] \in 0 .. n_cpus - 1
                         /\ n_cpus > 1 => core_pairs[p][1] # core_pairs[p][2]
    /\ Injective(arr, Dim)
=============================================================================
