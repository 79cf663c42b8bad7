----------------------------- MODULE GateProofs -----------------------------
(***************************************************************************)
(* Proofs about Gate with the plan derivation under it, and about          *)
(* UnkeyedEvaluation.                                                      *)
(*                                                                         *)
(* That a derived plan is well formed, for every host and every number of  *)
(* dimensions.  The invariant says of each loop what is left to draw: the  *)
(* first Items - Len(out) places of the pool hold the items not yet drawn, *)
(* each once; a swap permutes arr.                                         *)
(***************************************************************************)
EXTENDS MCGate, FiniteSetTheorems, WellFoundedInduction, TLAPS

\* A set of naturals has a least element.
LEMMA LeastNat ==
  ASSUME NEW T \in SUBSET Nat, T # {}
  PROVE  \E x \in T : \A y \in T : x <= y
<1>1. PICK x \in T : \A y \in T : ~ (<<y, x>> \in OpToRel(<, Nat))
  BY NatLessThanWellFounded, WFMin
<1>2. \A y \in T : ~ (y < x)
  <2> SUFFICES ASSUME NEW y \in T, y < x PROVE FALSE
    OBVIOUS
  <2>1. <<y, x>> \in Nat \X Nat /\ <<y, x>>[1] < <<y, x>>[2]
    OBVIOUS
  <2> QED
    BY <1>1, <2>1 DEF OpToRel
<1> QED
  BY <1>2

\* The pool's places that draws may still come from.
Left == 0 .. Items - 1 - Len(out)

ChoiceInv ==
  at \in {"cpus", "zones"} =>
    /\ pool \in [0 .. Items - 1 -> 0 .. Items - 1]
    /\ Len(out) <= Wanted
    /\ DistinctBelow(out, Len(out), Items)
    /\ \A p, q \in Left : pool[p] = pool[q] => p = q
    /\ \A p \in 1 .. Len(out), q \in Left : out[p] # pool[q]

SubsetsInv ==
  /\ at # "cpus" => DistinctBelow(cpu_subset, Least(CpuPicks, n_cpus), n_cpus)
  /\ at \in {"cpus", "zones"} => zone_subset = <<>>
  /\ at = "zones" => n_zones > 0
  /\ at \in {"pairs", "perm", "derived"} =>
       DistinctBelow(zone_subset, Least(ZonePicks, n_zones), n_zones)

PairsInv ==
  /\ at \in {"cpus", "zones"} => core_pairs = <<>>
  /\ at = "pairs" => Len(core_pairs) < 2
  /\ at \in {"perm", "derived"} => Len(core_pairs) = 2
  /\ \A p \in 1 .. Len(core_pairs) :
       /\ core_pairs[p][1] \in 0 .. n_cpus - 1
       /\ core_pairs[p][2] \in 0 .. n_cpus - 1
       /\ n_cpus > 1 => core_pairs[p][1] # core_pairs[p][2]

PlanInv == PlanTypeOK /\ ChoiceInv /\ SubsetsInv /\ PairsInv /\ Injective(arr, Dim)

(* _stream_choice: a draw adds an item that was not drawn before, and      *)
(* leaves those not yet drawn in the shorter pool.                         *)
LEMMA DrawKeeps == PlanInv /\ Draw => PlanInv'
<1> SUFFICES ASSUME PlanInv, Draw PROVE PlanInv'
  OBVIOUS
<1> USE CountsAssumption, PicksAssumption, DimAssumption
<1> DEFINE n == Items
           m == Items - 1 - Len(out)
<1>1. /\ at \in {"cpus", "zones"} /\ Len(out) < Wanted
      /\ n \in Nat /\ Wanted \in Nat /\ Wanted <= n
      /\ out \in Seq(Nat) /\ Len(out) \in Nat /\ m \in 0 .. n - 1
  <2>1. at \in {"cpus", "zones"} /\ Len(out) < Wanted /\ out \in Seq(Nat)
    BY DEF PlanInv, PlanTypeOK, Draw
  <2>2. n_cpus \in Nat /\ n_zones \in Nat /\ Len(out) \in Nat
    BY <2>1 DEF PlanInv, PlanTypeOK
  <2>3. Items \in Nat /\ Wanted \in Nat /\ Wanted <= Items
    BY <2>2 DEF Items, Wanted, Least
  <2> QED BY <2>1, <2>2, <2>3
<1>2. PICK r \in 0 .. m : /\ out' = Append(out, pool[r])
                          /\ pool' = [pool EXCEPT ![r] = pool[m]]
  BY DEF Draw
<1>3. UNCHANGED <<n_cpus, n_zones, at, cpu_subset, zone_subset, core_pairs, arr, i>>
  BY DEF Draw, host
<1>4. Items' = n /\ Wanted' = Wanted
  BY <1>3 DEF Items, Wanted
<1>5. /\ pool \in [0 .. n - 1 -> 0 .. n - 1]
      /\ r \in 0 .. n - 1 /\ m \in 0 .. n - 1 /\ pool[r] \in 0 .. n - 1 /\ pool[m] \in 0 .. n - 1
  <2>1. pool \in [0 .. n - 1 -> 0 .. n - 1]
    BY <1>1 DEF PlanInv, ChoiceInv
  <2> HIDE DEF n, m
  <2>2. r \in 0 .. n - 1 /\ m \in 0 .. n - 1
    BY <1>1
  <2> QED BY <2>1, <2>2
<1>6. /\ pool' \in [0 .. n - 1 -> 0 .. n - 1]
      /\ \A k \in 0 .. m - 1 : pool'[k] = IF k = r THEN pool[m] ELSE pool[k]
  <2> HIDE DEF n, m
  <2>1. pool' = [k \in 0 .. n - 1 |-> IF k = r THEN pool[m] ELSE pool[k]]
    BY <1>2, <1>5
  <2>2. \A k \in 0 .. m - 1 : k \in 0 .. n - 1
    BY <1>1
  <2> QED BY <2>1, <2>2, <1>5
<1>7. /\ out' \in Seq(Nat) /\ Len(out') = Len(out) + 1
      /\ \A p \in 1 .. Len(out) : out'[p] = out[p]
      /\ out'[Len(out) + 1] = pool[r]
  BY <1>1, <1>2, <1>5
<1>8. /\ \A p \in 1 .. Len(out) : out[p] \in 0 .. n - 1
      /\ \A p, q \in 1 .. Len(out) : out[p] = out[q] => p = q
      /\ \A p, q \in 0 .. m : pool[p] = pool[q] => p = q
      /\ \A p \in 1 .. Len(out), q \in 0 .. m : out[p] # pool[q]
  BY <1>1 DEF PlanInv, ChoiceInv, DistinctBelow, Left
<1> HIDE DEF n, m
<1>9. DistinctBelow(out', Len(out'), n)
  <2>1. \A p \in 1 .. Len(out') : out'[p] \in 0 .. n - 1
    <3> SUFFICES ASSUME NEW p \in 1 .. Len(out') PROVE out'[p] \in 0 .. n - 1
      OBVIOUS
    <3>1. p \in 1 .. Len(out) \/ p = Len(out) + 1
      BY <1>1, <1>7
    <3> QED BY <3>1, <1>5, <1>7, <1>8
  <2>2. \A p, q \in 1 .. Len(out') : out'[p] = out'[q] => p = q
    <3> SUFFICES ASSUME NEW p \in 1 .. Len(out'), NEW q \in 1 .. Len(out'), out'[p] = out'[q]
                 PROVE p = q
      OBVIOUS
    <3>1. /\ p \in 1 .. Len(out) \/ p = Len(out) + 1
          /\ q \in 1 .. Len(out) \/ q = Len(out) + 1
      BY <1>1, <1>7
    <3>2. r \in 0 .. m
      OBVIOUS
    <3> QED BY <3>1, <3>2, <1>7, <1>8
  <2> QED BY <2>1, <2>2 DEF DistinctBelow
<1>10. \A p, q \in 0 .. m - 1 : pool'[p] = pool'[q] => p = q
  <2> SUFFICES ASSUME NEW p \in 0 .. m - 1, NEW q \in 0 .. m - 1, pool'[p] = pool'[q]
               PROVE p = q
    OBVIOUS
  <2>1. p \in 0 .. m /\ q \in 0 .. m /\ m \in 0 .. m /\ p # m /\ q # m
    BY <1>1
  <2>2. /\ pool'[p] = IF p = r THEN pool[m] ELSE pool[p]
        /\ pool'[q] = IF q = r THEN pool[m] ELSE pool[q]
    BY <1>6
  <2> QED BY <2>1, <2>2, <1>8
<1>11. \A p \in 1 .. Len(out'), q \in 0 .. m - 1 : out'[p] # pool'[q]
  <2> SUFFICES ASSUME NEW p \in 1 .. Len(out'), NEW q \in 0 .. m - 1
               PROVE out'[p] # pool'[q]
    OBVIOUS
  <2>1. q \in 0 .. m /\ m \in 0 .. m /\ r \in 0 .. m /\ q # m
    BY <1>1
  <2>2. CASE p \in 1 .. Len(out)
    <3>1. out'[p] = out[p] /\ pool'[q] = IF q = r THEN pool[m] ELSE pool[q]
      BY <2>2, <1>6, <1>7
    <3> QED BY <3>1, <2>1, <2>2, <1>8
  <2>3. CASE p = Len(out) + 1
    BY <2>1, <2>3, <1>6, <1>7, <1>8
  <2> QED BY <2>2, <2>3, <1>1, <1>7
<1>12. ChoiceInv'
  <2>1. Items' - 1 - Len(out') = m - 1
    BY <1>1, <1>4, <1>7 DEF n, m
  <2>2. Len(out') <= Wanted'
    BY <1>1, <1>4, <1>7
  <2> QED BY <2>1, <2>2, <1>4, <1>6, <1>9, <1>10, <1>11 DEF ChoiceInv, Left
<1> QED BY <1>1, <1>3, <1>7, <1>12
        DEF PlanInv, PlanTypeOK, SubsetsInv, PairsInv, DistinctBelow, Injective

\* _stream_choice begins with the whole range as its pool.
LEMMA ChoiceBegins == ASSUME NEW n \in Nat
                      PROVE /\ Identity(n) \in [0 .. n - 1 -> 0 .. n - 1]
                            /\ \A p, q \in 0 .. n - 1 : Identity(n)[p] = Identity(n)[q] => p = q
BY DEF Identity

LEMMA InitialPlan == PlanInit => PlanInv
<1> SUFFICES ASSUME PlanInit PROVE PlanInv
  OBVIOUS
<1> USE CountsAssumption, PicksAssumption, DimAssumption
<1>1. /\ n_cpus \in Nat /\ Len(out) = 0 /\ Items = n_cpus /\ Items - 1 - Len(out) = n_cpus - 1
  BY DEF PlanInit, Items
<1>2. pool = Identity(n_cpus) /\ arr = Identity(Dim) /\ at = "cpus" /\ out = <<>>
  BY DEF PlanInit
<1>3. n_cpus \in Nat
  BY <1>1
<1>4. ChoiceInv
  <2>1. 0 <= Wanted
    <3>1. Wanted = CpuPicks \/ Wanted = n_cpus
      BY <1>2 DEF Wanted, Least
    <3> QED BY <1>1, <3>1
  <2>2. /\ pool \in [0 .. n_cpus - 1 -> 0 .. n_cpus - 1]
        /\ \A p, q \in 0 .. n_cpus - 1 : pool[p] = pool[q] => p = q
    BY <1>3, <1>2, ChoiceBegins
  <2>3. \A p : p \notin 1 .. 0
    OBVIOUS
  <2> QED BY <1>1, <1>2, <2>1, <2>2, <2>3 DEF ChoiceInv, Left, DistinctBelow
<1>5. arr \in [0 .. Dim - 1 -> 0 .. Dim - 1] /\ Injective(arr, Dim)
  BY <1>2, ChoiceBegins DEF Injective
<1>6. PlanTypeOK
  BY <1>5 DEF PlanInit, PlanTypeOK
<1>7. SubsetsInv
  BY <1>2 DEF PlanInit, SubsetsInv
<1>8. PairsInv
  BY <1>2 DEF PlanInit, PairsInv
<1> QED BY <1>4, <1>5, <1>6, <1>7, <1>8 DEF PlanInv

LEMMA SubsetsDrawn == PlanInv /\ (CpusDrawn \/ ZonesDrawn) => PlanInv'
<1> SUFFICES ASSUME PlanInv, CpusDrawn \/ ZonesDrawn PROVE PlanInv'
  OBVIOUS
<1> USE CountsAssumption, PicksAssumption, DimAssumption
<1>1. n_cpus \in Nat /\ n_zones \in Nat /\ out \in Seq(Nat)
  BY DEF PlanInv, PlanTypeOK
<1>2. CASE CpusDrawn
  <2> USE <1>2 DEF CpusDrawn, host
  <2>1. DistinctBelow(cpu_subset', Least(CpuPicks, n_cpus), n_cpus)
    BY DEF PlanInv, ChoiceInv, Items, Wanted
  <2>2. PlanTypeOK' /\ Injective(arr, Dim)'
    BY <1>1 DEF PlanInv, PlanTypeOK, Injective
  <2>3. SubsetsInv'
    BY <1>1, <2>1 DEF PlanInv, SubsetsInv, DistinctBelow, Least
  <2>4. PairsInv'
    BY DEF PlanInv, PairsInv
  <2>5. ChoiceInv'
    <3> SUFFICES ASSUME at' = "zones" PROVE ChoiceInv'
      BY DEF ChoiceInv
    <3>1. Len(out') = 0 /\ Items' = n_zones /\ Items' - 1 - Len(out') = n_zones - 1
      BY <1>1 DEF Items
    <3>2. 0 <= Wanted'
      BY <1>1 DEF Wanted, Least
    <3>3. /\ pool' \in [0 .. n_zones - 1 -> 0 .. n_zones - 1]
          /\ \A p, q \in 0 .. n_zones - 1 : pool'[p] = pool'[q] => p = q
      BY <1>1, ChoiceBegins
    <3>4. \A p : p \notin 1 .. 0
      OBVIOUS
    <3> QED BY <3>1, <3>2, <3>3, <3>4 DEF ChoiceInv, Left, DistinctBelow
  <2> QED BY <2>2, <2>3, <2>4, <2>5 DEF PlanInv
<1>3. CASE ZonesDrawn
  <2> USE <1>3 DEF ZonesDrawn, host
  <2>1. DistinctBelow(zone_subset', Least(ZonePicks, n_zones), n_zones)
    BY DEF PlanInv, ChoiceInv, Items, Wanted
  <2>2. PlanTypeOK' /\ Injective(arr, Dim)'
    BY <1>1 DEF PlanInv, PlanTypeOK, Injective
  <2>3. SubsetsInv'
    BY <2>1 DEF PlanInv, SubsetsInv
  <2>4. PairsInv'
    BY DEF PlanInv, PairsInv
  <2> QED BY <2>2, <2>3, <2>4 DEF PlanInv, ChoiceInv
<1> QED BY <1>2, <1>3

\* The two cores of a pair differ when there are two.
LEMMA PairKeeps == PlanInv /\ Pair => PlanInv'
<1> SUFFICES ASSUME PlanInv, Pair PROVE PlanInv'
  OBVIOUS
<1> USE CountsAssumption, PicksAssumption, DimAssumption
<1>1. /\ n_cpus \in Nat \ {0} /\ core_pairs \in Seq(Nat \X Nat) /\ Len(core_pairs) \in {0, 1}
  <2>1. n_cpus \in Nat \ {0} /\ core_pairs \in Seq(Nat \X Nat)
    BY DEF PlanInv, PlanTypeOK
  <2> DEFINE len == Len(core_pairs)
  <2>2. len \in Nat
    BY <2>1
  <2>3. len < 2
    BY DEF Pair
  <2> HIDE DEF len
  <2>4. len = 0 \/ len = 1
    BY <2>2, <2>3
  <2> QED BY <2>1, <2>4 DEF len
<1>2. /\ at = "pairs" /\ UNCHANGED <<n_cpus, n_zones, pool, out, cpu_subset, zone_subset, arr, i>>
      /\ at' = IF Len(core_pairs) = 1 THEN "perm" ELSE "pairs"
  BY DEF Pair, host
<1>3. PICK a \in 0 .. n_cpus - 1, b \in 0 .. (IF n_cpus > 1 THEN n_cpus - 2 ELSE 0) :
        core_pairs' = Append(core_pairs, <<a, Other(a, b)>>)
  BY DEF Pair
<1>4. Other(a, b) \in 0 .. n_cpus - 1 /\ (n_cpus > 1 => a # Other(a, b))
  BY <1>1 DEF Other
<1>5. /\ core_pairs' \in Seq(Nat \X Nat) /\ Len(core_pairs') = Len(core_pairs) + 1
      /\ \A p \in 1 .. Len(core_pairs) : core_pairs'[p] = core_pairs[p]
      /\ core_pairs'[Len(core_pairs) + 1] = <<a, Other(a, b)>>
  BY <1>1, <1>3, <1>4
<1>6. \A p \in 1 .. Len(core_pairs') :
        /\ core_pairs'[p][1] \in 0 .. n_cpus - 1
        /\ core_pairs'[p][2] \in 0 .. n_cpus - 1
        /\ n_cpus > 1 => core_pairs'[p][1] # core_pairs'[p][2]
  <2> SUFFICES ASSUME NEW p \in 1 .. Len(core_pairs')
               PROVE /\ core_pairs'[p][1] \in 0 .. n_cpus - 1
                     /\ core_pairs'[p][2] \in 0 .. n_cpus - 1
                     /\ n_cpus > 1 => core_pairs'[p][1] # core_pairs'[p][2]
    OBVIOUS
  <2>1. CASE p \in 1 .. Len(core_pairs)
    BY <2>1, <1>5 DEF PlanInv, PairsInv
  <2>2. CASE p = Len(core_pairs) + 1
    BY <2>2, <1>4, <1>5
  <2>3. p \in 1 .. Len(core_pairs) \/ p = Len(core_pairs) + 1
    BY <1>1, <1>5
  <2> QED BY <2>1, <2>2, <2>3
<1>7. PairsInv'
  <2>1. CASE Len(core_pairs) = 1
    <3>1. at' = "perm"
      BY <2>1, <1>2
    <3>2. Len(core_pairs') = 2
      BY <2>1, <1>5
    <3>3. (\A p \in 1 .. Len(core_pairs) : /\ core_pairs[p][1] \in 0 .. n_cpus - 1
                                           /\ core_pairs[p][2] \in 0 .. n_cpus - 1
                                           /\ n_cpus > 1 => core_pairs[p][1] # core_pairs[p][2])'
      BY <1>6, <1>2
    <3> QED BY <3>1, <3>2, <3>3 DEF PairsInv
  <2>2. CASE Len(core_pairs) = 0
    <3>1. at' = "pairs"
      BY <2>2, <1>2
    <3>2. Len(core_pairs') = 1
      BY <2>2, <1>5
    <3>3. (\A p \in 1 .. Len(core_pairs) : /\ core_pairs[p][1] \in 0 .. n_cpus - 1
                                           /\ core_pairs[p][2] \in 0 .. n_cpus - 1
                                           /\ n_cpus > 1 => core_pairs[p][1] # core_pairs[p][2])'
      BY <1>6, <1>2
    <3> QED BY <3>1, <3>2, <3>3 DEF PairsInv
  <2> QED BY <2>1, <2>2, <1>1
<1>8. PlanTypeOK'
  BY <1>5, <1>2 DEF PlanInv, PlanTypeOK
<1>9. SubsetsInv'
  BY <1>2 DEF PlanInv, SubsetsInv, DistinctBelow
<1> QED BY <1>7, <1>2, <1>8, <1>9 DEF PlanInv, ChoiceInv, Injective

\* _stream_permutation: a swap keeps every dimension once in arr.
LEMMA SwapKeeps == PlanInv /\ Swap => PlanInv'
<1> SUFFICES ASSUME PlanInv, Swap PROVE PlanInv'
  OBVIOUS
<1> USE CountsAssumption, PicksAssumption, DimAssumption
<1>1. /\ at = "perm" /\ i \in 0 .. Dim - 1 /\ i > 0 /\ i' = i - 1
      /\ arr \in [0 .. Dim - 1 -> 0 .. Dim - 1] /\ Injective(arr, Dim)
      /\ UNCHANGED <<n_cpus, n_zones, at, pool, out, cpu_subset, zone_subset, core_pairs>>
  BY DEF PlanInv, PlanTypeOK, Swap, host
<1>2. PICK r \in 0 .. i : arr' = [arr EXCEPT ![i] = arr[r], ![r] = arr[i]]
  BY DEF Swap
<1>3. /\ arr' \in [0 .. Dim - 1 -> 0 .. Dim - 1]
      /\ \A k \in 0 .. Dim - 1 : arr'[k] = IF k = r THEN arr[i] ELSE IF k = i THEN arr[r] ELSE arr[k]
  <2>1. r \in 0 .. Dim - 1
    BY <1>1
  <2>2. arr' = [k \in 0 .. Dim - 1 |-> IF k = r THEN arr[i] ELSE IF k = i THEN arr[r] ELSE arr[k]]
    BY <1>1, <1>2, <2>1
  <2> QED BY <1>1, <2>1, <2>2
<1>4. Injective(arr', Dim)
  <2>1. r \in 0 .. Dim - 1
    BY <1>1
  <2> QED BY <1>1, <1>3, <2>1 DEF Injective
<1>5. PlanTypeOK'
  <2>1. i' \in 0 .. Dim - 1
    BY <1>1
  <2> QED BY <1>1, <1>3, <2>1 DEF PlanInv, PlanTypeOK
<1> QED BY <1>1, <1>4, <1>5 DEF PlanInv, ChoiceInv, SubsetsInv, PairsInv, DistinctBelow

LEMMA PlanStep == PlanInv /\ [PlanNext]_planVars => PlanInv'
<1> SUFFICES ASSUME PlanInv, [PlanNext]_planVars PROVE PlanInv'
  OBVIOUS
<1>1. CASE Permuted
  BY <1>1 DEF Permuted, host, PlanInv, PlanTypeOK, ChoiceInv, SubsetsInv, PairsInv,
              DistinctBelow, Injective
<1>2. CASE UNCHANGED planVars
  BY <1>2 DEF planVars, PlanInv, PlanTypeOK, ChoiceInv, SubsetsInv, PairsInv, Left, Items,
              Wanted, DistinctBelow, Injective
<1> QED BY <1>1, <1>2, DrawKeeps, SubsetsDrawn, PairKeeps, SwapKeeps DEF PlanNext

(* derive_plan_keyed gives distinct CPUs, distinct zones, pairs of         *)
(* different cores and a permutation of the dimensions, from every stream, *)
(* on every host.                                                          *)
THEOREM PlansAreWellFormed == PlanSpec => []PlanIsWellFormed
<1>1. PlanInv => PlanIsWellFormed
  BY DEF PlanInv, SubsetsInv, PairsInv, PlanIsWellFormed
<1> QED BY <1>1, InitialPlan, PlanStep, PTL DEF PlanSpec

-----------------------------------------------------------------------------
(* The verdict.  Undoing the permutation gives back the reading, since the *)
(* permutation of a derived plan uses every dimension once; the sum of the *)
(* squares lies between any one of them and Dim times the largest.         *)

USE BandAssumption, DimAssumption

\* The recursive definition of the sums has a solution.
SumsOf(v, f) == f = [k \in 0 .. Dim |-> IF k = 0 THEN 0 ELSE f[k - 1] + v[k - 1] * v[k - 1]]

\* A solution up to m.
SumsTo(v, f, m) == f = [k \in 0 .. m |-> IF k = 0 THEN 0 ELSE f[k - 1] + v[k - 1] * v[k - 1]]

\* What 0 has, and each number has that follows one that has it, all have.
LEMMA Climb ==
  ASSUME NEW n \in Nat, NEW G, 0 \in G, \A k \in 1 .. n : k - 1 \in G => k \in G
  PROVE  \A k \in 0 .. n : k \in G
<1> DEFINE Lacks == {k \in 0 .. n : k \notin G}
<1>1. ASSUME Lacks # {} PROVE FALSE
  <2>1. Lacks \in SUBSET Nat
    OBVIOUS
  <2>2. PICK m \in Lacks : \A l \in Lacks : m <= l
    <3> HIDE DEF Lacks
    <3> QED BY <1>1, <2>1, LeastNat
  <2>3. m \in 1 .. n /\ m - 1 \in 0 .. n /\ ~ (m <= m - 1)
    BY <2>2
  <2> QED BY <2>2, <2>3
<1> QED BY <1>1

LEMMA SumsExist ==
  ASSUME NEW v
  PROVE  \E f : SumsOf(v, f)
<1> DEFINE G == {m \in Nat : \E f : SumsTo(v, f, m)}
<1>1. 0 \in G
  <2> DEFINE f == [k \in 0 .. 0 |-> 0]
  <2>1. f = [k \in 0 .. 0 |-> IF k = 0 THEN 0 ELSE f[k - 1] + v[k - 1] * v[k - 1]]
    OBVIOUS
  <2>2. SumsTo(v, f, 0)
    BY <2>1 DEF SumsTo
  <2> QED BY <2>2
<1>2. ASSUME NEW m \in 1 .. Dim, m - 1 \in G
      PROVE  m \in G
  <2>1. PICK g : SumsTo(v, g, m - 1)
    BY <1>2
  <2> DEFINE f == [k \in 0 .. m |-> IF k = m THEN g[m - 1] + v[m - 1] * v[m - 1] ELSE g[k]]
  <2>2. ASSUME NEW k \in 0 .. m
        PROVE  f[k] = IF k = 0 THEN 0 ELSE f[k - 1] + v[k - 1] * v[k - 1]
    <3>1. CASE k = m
      BY <3>1
    <3>2. CASE k # m
      <4>1. k \in 0 .. m - 1 /\ (k # 0 => k - 1 \in 0 .. m /\ k - 1 # m)
        BY <3>2
      <4>2. g[k] = IF k = 0 THEN 0 ELSE g[k - 1] + v[k - 1] * v[k - 1]
        BY <2>1, <4>1 DEF SumsTo
      <4> QED BY <3>2, <4>1, <4>2
    <3> QED BY <3>1, <3>2
  <2>3. f = [k \in 0 .. m |-> f[k]]
    OBVIOUS
  <2> HIDE DEF f
  <2>4. SumsTo(v, f, m)
    BY <2>2, <2>3 DEF SumsTo
  <2> QED BY <2>4
<1>3. PICK f : SumsTo(v, f, Dim)
  <2>1. \A k \in 0 .. Dim : k \in G
    <3> HIDE DEF G
    <3> QED BY <1>1, <1>2, Climb
  <2> QED BY <2>1
<1> QED BY <1>3 DEF SumsOf, SumsTo

LEMMA SquaresAre ==
  ASSUME NEW v
  PROVE  /\ Squares(v)[0] = 0
         /\ \A k \in 1 .. Dim : Squares(v)[k] = Squares(v)[k - 1] + v[k - 1] * v[k - 1]
<1>1. SumsOf(v, Squares(v))
  BY SumsExist DEF SumsOf, Squares
<1> DEFINE s == Squares(v)
<1> HIDE DEF s
<1>2. s = [k \in 0 .. Dim |-> IF k = 0 THEN 0 ELSE s[k - 1] + v[k - 1] * v[k - 1]]
  BY <1>1 DEF SumsOf, s
<1>3. s[0] = 0 /\ \A k \in 1 .. Dim : s[k] = s[k - 1] + v[k - 1] * v[k - 1]
  <2>1. 0 \in 0 .. Dim /\ \A k \in 1 .. Dim : k \in 0 .. Dim /\ k # 0
    OBVIOUS
  <2>2. \A k \in 0 .. Dim : s[k] = IF k = 0 THEN 0 ELSE s[k - 1] + v[k - 1] * v[k - 1]
    BY <1>2
  <2> QED BY <2>1, <2>2
<1> QED BY <1>3 DEF s

LEMMA SquareOf ==
  ASSUME NEW x \in Nat, NEW b \in Nat, x <= b
  PROVE  x * x \in Nat /\ x * x <= b * b
<1>1. x * x <= x * b /\ x * b <= b * b
  OBVIOUS
<1> QED BY <1>1

\* No sum exceeds so many times the largest square.
LEMMA SquaresAtMost ==
  ASSUME NEW v \in [Dims -> Nat], NEW b \in Nat, \A d \in Dims : v[d] <= b
  PROVE  \A k \in 0 .. Dim : Squares(v)[k] \in Nat /\ Squares(v)[k] <= k * (b * b)
<1> DEFINE s == Squares(v)
           G == {k \in 0 .. Dim : s[k] \in Nat /\ s[k] <= k * (b * b)}
<1>1. s[0] = 0 /\ \A k \in 1 .. Dim : s[k] = s[k - 1] + v[k - 1] * v[k - 1]
  BY SquaresAre
<1>2. \A k \in 1 .. Dim : v[k - 1] * v[k - 1] \in Nat /\ v[k - 1] * v[k - 1] <= b * b
  <2>1. \A k \in 1 .. Dim : v[k - 1] \in Nat /\ v[k - 1] <= b
    BY DEF Dims
  <2> QED BY <2>1, SquareOf
<1> HIDE DEF s
<1>3. 0 \in G
  BY <1>1
<1>4. ASSUME NEW k \in 1 .. Dim, k - 1 \in G
      PROVE  k \in G
  <2> DEFINE c == b * b
             w == v[k - 1] * v[k - 1]
  <2>1. c \in Nat /\ w \in Nat /\ w <= c /\ s[k] = s[k - 1] + w
    BY <1>1, <1>2
  <2>2. s[k - 1] \in Nat /\ s[k - 1] <= (k - 1) * c
    BY <1>4
  <2> HIDE DEF c, w
  <2>3. (k - 1) * c = k * c - c /\ k * c \in Int
    BY <2>1
  <2>4. s[k] \in Nat /\ s[k] <= k * c
    BY <2>1, <2>2, <2>3
  <2> QED BY <2>4 DEF c
<1>5. \A k \in 0 .. Dim : k \in G
  <2> HIDE DEF G
  <2> QED BY <1>3, <1>4, Climb
<1> QED BY <1>5 DEF s

\* The sum of all is at least each of the squares.
LEMMA SquaresAtLeast ==
  ASSUME NEW v \in [Dims -> Nat], NEW d \in Dims
  PROVE  Squares(v)[Dim] \in Nat /\ v[d] * v[d] <= Squares(v)[Dim]
<1> DEFINE s == Squares(v)
           w == v[d] * v[d]
           G == {k \in 0 .. Dim : s[k] \in Nat /\ (d < k => w <= s[k])}
<1>1. s[0] = 0 /\ \A k \in 1 .. Dim : s[k] = s[k - 1] + v[k - 1] * v[k - 1]
  BY SquaresAre
<1>2. \A k \in 1 .. Dim : v[k - 1] * v[k - 1] \in Nat
  <2>1. \A k \in 1 .. Dim : v[k - 1] \in Nat
    BY DEF Dims
  <2> QED BY <2>1, SquareOf
<1>3. d \in Nat /\ d < Dim /\ w \in Nat
  <2>1. d \in Nat /\ d < Dim /\ v[d] \in Nat
    BY DEF Dims
  <2> QED BY <2>1, SquareOf
<1> HIDE DEF s
<1>4. 0 \in G
  BY <1>1, <1>3
<1>5. ASSUME NEW k \in 1 .. Dim, k - 1 \in G
      PROVE  k \in G
  <2>1. s[k] = s[k - 1] + v[k - 1] * v[k - 1] /\ v[k - 1] * v[k - 1] \in Nat
    BY <1>1, <1>2
  <2>2. s[k - 1] \in Nat /\ (d < k - 1 => w <= s[k - 1]) /\ (d = k - 1 => w = v[k - 1] * v[k - 1])
    BY <1>5
  <2>3. d < k => d < k - 1 \/ d = k - 1
    BY <1>3
  <2> HIDE DEF w
  <2>4. s[k] \in Nat /\ (d < k => w <= s[k])
    BY <1>3, <2>1, <2>2, <2>3
  <2> QED BY <2>4
<1>6. \A k \in 0 .. Dim : k \in G
  <2> HIDE DEF G
  <2> QED BY <1>4, <1>5, Climb
<1> QED BY <1>3, <1>6 DEF s

\* A permutation that uses no dimension twice uses each.
LEMMA EachIsUsed ==
  ASSUME NEW f \in [Dims -> Dims], Injective(f, Dim)
  PROVE  \A d \in Dims : \E k \in Dims : f[k] = d
<1>1. f \in Injection(Dims, Dims)
  BY DEF Injective, Dims, Injection, IsInjective
<1>2. IsFiniteSet(Dims)
  BY FS_Interval DEF Dims
<1>3. f \in Surjection(Dims, Dims)
  BY <1>1, <1>2, FS_Injection
<1> QED BY <1>3 DEF Surjection

GateInv ==
  /\ PlanInv /\ TypeOK
  /\ verdict # "none" => at = "derived"
  /\ verdict = "asked" => answer = [k \in Dims |-> raw[arr[k]]]
  /\ VerdictIsOnTheReading

LEMMA Undone ==
  ASSUME GateInv, verdict = "asked"
  PROVE  Unpermuted = raw
<1>1. /\ arr \in [Dims -> Dims] /\ Injective(arr, Dim)
      /\ answer = [k \in Dims |-> raw[arr[k]]]
      /\ raw \in [Dims -> Distances]
  BY DEF GateInv, PlanInv, PlanTypeOK, TypeOK, Dims
<1> DEFINE inv == [d \in Dims |-> CHOOSE k \in Dims : arr[k] = d]
<1>2. ASSUME NEW d \in Dims
      PROVE  inv[d] \in Dims /\ arr[inv[d]] = d
  BY <1>1, EachIsUsed
<1>3. Unpermuted = [d \in Dims |-> answer[inv[d]]]
  BY DEF Unpermuted
<1> HIDE DEF inv
<1>4. \A d \in Dims : answer[inv[d]] = raw[d]
  BY <1>1, <1>2
<1> QED BY <1>1, <1>3, <1>4

LEMMA Judged ==
  ASSUME GateInv, Verify
  PROVE  VerdictIsOnTheReading'
<1>1. /\ raw \in [Dims -> Nat] /\ raw' = raw /\ own' = own /\ own \in BOOLEAN
      /\ Last \in Dims
  <2>1. raw \in [Dims -> Distances] /\ raw' = raw
    BY DEF GateInv, TypeOK, Verify
  <2>2. own' = own /\ own \in BOOLEAN
    BY DEF GateInv, TypeOK, Verify
  <2>3. Last \in Dims
    BY DEF Dims, Last
  <2> QED BY <2>1, <2>2, <2>3
<1>2. Unpermuted = raw
  BY Undone DEF Verify
<1>3. CASE LastPasses(raw) /\ MahalaPasses(raw) /\ own
  <2>1. verdict' = "accept"
    BY <1>2, <1>3 DEF Verify
  <2>2. ASSUME NEW d \in Dims
        PROVE  4 * raw[d] * raw[d] < 9 * BandK * BandK * Dim
    <3> DEFINE w == raw[d] * raw[d]
               r == 9 * BandK * BandK * Dim
    <3>1. w <= Squares(raw)[Dim] /\ Squares(raw)[Dim] \in Nat
      BY <1>1, SquaresAtLeast
    <3>2. 4 * Squares(raw)[Dim] < r
      BY <1>3 DEF MahalaPasses
    <3>3. raw[d] \in Nat /\ w \in Nat /\ r \in Nat /\ 4 * raw[d] * raw[d] = 4 * w
      BY <1>1
    <3> HIDE DEF w, r
    <3>4. 4 * w < r
      BY <3>1, <3>2, <3>3
    <3> QED BY <3>3, <3>4 DEF r
  <2>3. 2 * raw[Last] < 3 * BandK
    BY <1>3 DEF LastPasses
  <2> QED BY <1>1, <1>3, <2>1, <2>2, <2>3 DEF VerdictIsOnTheReading
<1>4. CASE ~(LastPasses(raw) /\ MahalaPasses(raw) /\ own)
  <2>1. verdict' = "reject"
    BY <1>2, <1>4 DEF Verify
  <2>2. ASSUME own, \A d \in Dims : raw[d] <= BandK
        PROVE  FALSE
    <3>1. LastPasses(raw)
      <4>1. raw[Last] \in Nat /\ raw[Last] <= BandK
        BY <1>1, <2>2
      <4> QED BY <4>1 DEF LastPasses
    <3>2. MahalaPasses(raw)
      <4> DEFINE c == BandK * BandK
                 q == Dim * c
      <4>1. Squares(raw)[Dim] \in Nat /\ Squares(raw)[Dim] <= q
        BY <1>1, <2>2, SquaresAtMost
      <4>2. c \in Nat \ {0} /\ q \in Nat /\ q > 0 /\ 9 * BandK * BandK * Dim = 9 * q
        <5>1. BandK * BandK \in Nat /\ BandK * BandK > 0
          OBVIOUS
        <5> QED BY <5>1
      <4> HIDE DEF c, q
      <4>3. 4 * Squares(raw)[Dim] < 9 * q
        BY <4>1, <4>2
      <4> QED BY <4>2, <4>3 DEF MahalaPasses
    <3> QED BY <1>4, <2>2, <3>1, <3>2
  <2>3. own => \E d \in Dims : ~ (raw[d] <= BandK)
    BY <2>2
  <2>4. own => \E d \in Dims : raw[d] > BandK
    BY <1>1, <2>3
  <2> QED BY <1>1, <2>1, <2>4 DEF VerdictIsOnTheReading
<1> QED BY <1>3, <1>4

LEMMA GateStep == GateInv /\ [Next]_vars => GateInv'
<1> SUFFICES ASSUME GateInv, [Next]_vars PROVE GateInv'
  OBVIOUS
<1>1. PlanInv /\ TypeOK /\ VerdictIsOnTheReading
  BY DEF GateInv
<1>2. CASE Derive
  <2>1. PlanInv' /\ UNCHANGED gateVars
    BY <1>1, <1>2, PlanStep DEF Derive
  <2>2. at # "derived" /\ verdict = "none" /\ verdict' = "none"
    BY <1>2, <2>1 DEF GateInv, Derive, gateVars, PlanNext, Draw, CpusDrawn, ZonesDrawn, Pair, Swap, Permuted
  <2>3. TypeOK' /\ VerdictIsOnTheReading'
    BY <1>1, <2>1, <2>2 DEF PlanInv, TypeOK, VerdictIsOnTheReading, gateVars
  <2> QED BY <2>1, <2>2, <2>3 DEF GateInv
<1>3. CASE Read
  <2>1. UNCHANGED planVars /\ verdict' = "asked" /\ at = "derived" /\ own' \in BOOLEAN
    BY <1>3 DEF Read
  <2>2. PICK r \in [Dims -> Distances] : raw' = r /\ answer' = [k \in Dims |-> r[arr[k]]]
    BY <1>3 DEF Read
  <2>3. PlanInv'
    BY <1>1, <2>1, PlanStep
  <2>4. arr' = arr /\ at' = at /\ arr \in [Dims -> Dims]
    BY <1>1, <2>1 DEF planVars, PlanInv, PlanTypeOK, Dims
  <2>5. TypeOK'
    BY <2>1, <2>2, <2>3, <2>4 DEF TypeOK, PlanInv
  <2>6. VerdictIsOnTheReading'
    BY <2>1 DEF VerdictIsOnTheReading
  <2> QED BY <2>1, <2>2, <2>3, <2>4, <2>5, <2>6 DEF GateInv
<1>4. CASE Verify
  <2>1. UNCHANGED planVars /\ UNCHANGED <<raw, answer, own>>
        /\ verdict = "asked" /\ verdict' \in {"accept", "reject"}
    BY <1>4 DEF Verify
  <2>2. PlanInv'
    BY <1>1, <2>1, PlanStep
  <2>3. at = "derived" /\ at' = at
    BY <2>1 DEF GateInv, planVars
  <2>4. TypeOK'
    BY <1>1, <2>1, <2>2 DEF TypeOK, PlanInv
  <2>5. VerdictIsOnTheReading'
    BY <1>4, Judged
  <2> QED BY <2>1, <2>2, <2>3, <2>4, <2>5 DEF GateInv
<1>5. CASE UNCHANGED vars
  <2>1. UNCHANGED planVars /\ UNCHANGED gateVars
    BY <1>5 DEF vars
  <2>2. PlanInv'
    BY <1>1, <2>1, PlanStep
  <2> QED BY <2>1, <2>2 DEF GateInv, PlanInv, TypeOK, VerdictIsOnTheReading, planVars, gateVars
<1> QED BY <1>2, <1>3, <1>4, <1>5 DEF Next

LEMMA GateInitial == Init => GateInv
<1> SUFFICES ASSUME Init PROVE GateInv
  OBVIOUS
<1>1. PlanInv
  BY InitialPlan DEF Init
<1>2. own \in BOOLEAN
  BY DEF Init
<1>3. raw \in [Dims -> Distances] /\ answer \in [Dims -> Distances] /\ verdict = "none"
  BY DEF Init
<1> QED BY <1>1, <1>2, <1>3 DEF GateInv, TypeOK, PlanInv, VerdictIsOnTheReading

(* The verdict is on what was measured, whatever permutation the plan has: *)
(* an answer within the band in every dimension is accepted if the         *)
(* classifier takes it, an accepted one has no dimension far off.          *)
THEOREM VerdictOnReading == Spec => []VerdictIsOnTheReading
<1>1. GateInv => VerdictIsOnTheReading
  BY DEF GateInv
<1> QED BY <1>1, GateInitial, GateStep, PTL DEF Spec

-----------------------------------------------------------------------------
(* The threshold of the classifier.  Where the examples are distinct, the  *)
(* k-th of them has k below it, and the threshold lies between two of      *)
(* them, or on one.                                                        *)

Under(v) == {e \in 1 .. size : p0[e] < v}
UpTo(v) == {e \in 1 .. size : p0[e] <= v}

HonestOK == size \in Nat \ {0} /\ p0 \in [1 .. size -> Scores]

Distinct == \A e, f \in 1 .. size : p0[e] = p0[f] => e = f

USE ThresholdAssumption

LEMMA HonestScores ==
  ASSUME HonestOK
  PROVE  /\ size \in Nat /\ size > 0
         /\ \A e \in 1 .. size : p0[e] \in Scores /\ p0[e] \in Nat
<1>1. size \in Nat /\ size > 0
  BY DEF HonestOK
<1>2. \A e \in 1 .. size : p0[e] \in Scores
  BY DEF HonestOK
<1> QED BY <1>1, <1>2

LEMMA Examples ==
  ASSUME HonestOK, NEW S \in SUBSET (1 .. size)
  PROVE  /\ IsFiniteSet(S) /\ Cardinality(S) \in Nat /\ Cardinality(S) <= size
         /\ \A e \in S : e \in 1 .. size /\ p0[e] \in Nat
<1>1. size \in Nat /\ size > 0 /\ \A e \in 1 .. size : p0[e] \in Nat
  BY HonestScores
<1>2. IsFiniteSet(1 .. size) /\ Cardinality(1 .. size) = size
  <2>1. IsFiniteSet(1 .. size) /\ Cardinality(1 .. size) = IF 1 > size THEN 0 ELSE size - 1 + 1
    BY <1>1, FS_Interval
  <2> QED BY <1>1, <2>1
<1> QED BY <1>1, <1>2, FS_Subset, FS_CardinalityType

\* One of any examples has the largest p0.
LEMMA Largest ==
  ASSUME HonestOK, NEW S \in SUBSET (1 .. size), S # {}
  PROVE  \E e \in S : \A f \in S : p0[f] <= p0[e]
<1> DEFINE Has(n) == (\E e \in S : e <= n) => \E e \in S : e <= n /\ \A f \in S : f <= n => p0[f] <= p0[e]
           G == {n \in 0 .. size : Has(n)}
<1>1. size \in Nat /\ \A e \in S : e \in 1 .. size /\ p0[e] \in Nat
  BY Examples DEF HonestOK
<1>2. 0 \in G
  BY <1>1
<1>3. ASSUME NEW n \in 1 .. size, n - 1 \in G
      PROVE  n \in G
  <2>1. \A e \in S : e <= n <=> e <= n - 1 \/ e = n
    BY <1>1
  <2>2. CASE n \notin S
    <3>1. \A e \in S : e <= n <=> e <= n - 1
      BY <2>1, <2>2
    <3> QED BY <1>3, <3>1
  <2>3. CASE n \in S /\ ~ \E e \in S : e <= n - 1
    <3>1. \A f \in S : f <= n => p0[f] <= p0[n]
      BY <1>1, <2>1, <2>3
    <3> QED BY <2>3, <3>1
  <2>4. CASE n \in S /\ \E e \in S : e <= n - 1
    <3>1. PICK e \in S : e <= n - 1 /\ \A f \in S : f <= n - 1 => p0[f] <= p0[e]
      BY <1>3, <2>4
    <3>2. CASE p0[e] <= p0[n]
      <4>1. \A f \in S : f <= n => p0[f] <= p0[n]
        BY <1>1, <2>1, <2>4, <3>1, <3>2
      <4> QED BY <2>4, <4>1
    <3>3. CASE ~ (p0[e] <= p0[n])
      <4>1. p0[n] <= p0[e]
        BY <1>1, <2>4, <3>1, <3>3
      <4>2. \A f \in S : f <= n => p0[f] <= p0[e]
        BY <2>1, <3>1, <4>1
      <4>3. e <= n
        BY <2>1, <3>1
      <4> QED BY <3>1, <4>2, <4>3
    <3> QED BY <3>2, <3>3
  <2> QED BY <2>2, <2>3, <2>4
<1>4. size \in G
  <2> HIDE DEF G
  <2>1. \A n \in 0 .. size : n \in G
    BY <1>1, <1>2, <1>3, Climb
  <2> QED BY <1>1, <2>1
<1>5. \A e \in S : e <= size
  BY <1>1
<1>6. \E e \in S : e <= size /\ \A f \in S : f <= size => p0[f] <= p0[e]
  BY <1>4, <1>5
<1> QED BY <1>5, <1>6

LEMMA SortedIs ==
  ASSUME HonestOK, NEW k \in 0 .. size - 1
  PROVE  /\ Sorted(k) \in Scores
         /\ Cardinality(Under(Sorted(k))) <= k /\ k < Cardinality(UpTo(Sorted(k)))
<1> DEFINE G == {v \in Scores : k < Cardinality(UpTo(v))}
<1>1. size \in Nat /\ size > 0 /\ \A e \in 1 .. size : p0[e] \in Scores /\ p0[e] \in Nat
  BY HonestScores
<1>2. \A v \in Scores : /\ Under(v) \in SUBSET (1 .. size) /\ Cardinality(Under(v)) \in Nat
                        /\ UpTo(v) \in SUBSET (1 .. size) /\ Cardinality(UpTo(v)) \in Nat
  BY Examples DEF Under, UpTo
<1>3. G # {}
  <2>1. PICK e \in 1 .. size : \A f \in 1 .. size : p0[f] <= p0[e]
    <3>1. 1 .. size # {}
      BY <1>1
    <3> QED BY <3>1, Largest
  <2>2. UpTo(p0[e]) = 1 .. size
    BY <2>1 DEF UpTo
  <2>3. Cardinality(1 .. size) = size
    <3>1. Cardinality(1 .. size) = IF 1 > size THEN 0 ELSE size - 1 + 1
      BY <1>1, FS_Interval
    <3> QED BY <1>1, <3>1
  <2>4. k < Cardinality(UpTo(p0[e]))
    BY <1>1, <2>2, <2>3
  <2> QED BY <1>1, <2>4
<1>4. PICK v \in G : \A w \in G : v <= w
  <2>1. G \in SUBSET Nat
    OBVIOUS
  <2> HIDE DEF G
  <2> QED BY <1>3, <2>1, LeastNat
<1>5. ASSUME k < Cardinality(Under(v)) PROVE FALSE
  <2>1. Under(v) # {}
    BY <1>5, FS_EmptySet
  <2>2. PICK e \in Under(v) : \A f \in Under(v) : p0[f] <= p0[e]
    BY <1>2, <2>1, Largest
  <2>3. e \in 1 .. size /\ p0[e] < v
    BY <2>2 DEF Under
  <2>4. UpTo(p0[e]) = Under(v)
    BY <1>1, <2>2, <2>3 DEF UpTo, Under
  <2>5. p0[e] \in G
    BY <1>1, <1>5, <2>3, <2>4
  <2> QED BY <1>1, <1>4, <2>3, <2>5
<1>6. v \in Scores /\ Cardinality(Under(v)) <= k /\ k < Cardinality(UpTo(v))
  BY <1>2, <1>4, <1>5
<1>7. Sorted(k) = CHOOSE s \in Scores : Cardinality(Under(s)) <= k /\ k < Cardinality(UpTo(s))
  BY DEF Sorted, Under, UpTo
<1> HIDE DEF G
<1> QED BY <1>6, <1>7

\* With distinct examples, k are below the k-th, which is one of them.
LEMMA SortedExactly ==
  ASSUME HonestOK, Distinct, NEW k \in 0 .. size - 1
  PROVE  /\ Sorted(k) \in Nat
         /\ Cardinality(Under(Sorted(k))) = k /\ Cardinality(UpTo(Sorted(k))) = k + 1
<1> DEFINE s == Sorted(k)
<1>1. s \in Nat /\ Cardinality(Under(s)) <= k /\ k < Cardinality(UpTo(s)) /\ k \in Nat
  <2>1. k \in Nat /\ Scores \subseteq Nat
    BY DEF HonestOK
  <2>2. s \in Scores /\ Cardinality(Under(s)) <= k /\ k < Cardinality(UpTo(s))
    BY SortedIs
  <2> QED BY <2>1, <2>2
<1> HIDE DEF s
<1>2. Under(s) \in SUBSET (1 .. size) /\ UpTo(s) \in SUBSET (1 .. size)
  BY DEF Under, UpTo
<1>3. /\ IsFiniteSet(Under(s)) /\ Cardinality(Under(s)) \in Nat
      /\ IsFiniteSet(UpTo(s)) /\ Cardinality(UpTo(s)) \in Nat
  BY <1>2, Examples
<1>4. Cardinality(UpTo(s)) <= Cardinality(Under(s)) + 1
  <2>1. \A e \in 1 .. size : p0[e] \in Nat
    BY DEF HonestOK
  <2>2. CASE \E e \in 1 .. size : p0[e] = s
    <3>1. PICK e \in 1 .. size : p0[e] = s
      BY <2>2
    <3>2. UpTo(s) \subseteq Under(s) \cup {e}
      BY <1>1, <2>1, <3>1 DEF UpTo, Under, Distinct
    <3>3. IsFiniteSet(Under(s) \cup {e}) /\ Cardinality(Under(s) \cup {e}) <= Cardinality(Under(s)) + 1
          /\ Cardinality(Under(s) \cup {e}) \in Nat
      <4>1. /\ IsFiniteSet(Under(s) \cup {e})
            /\ Cardinality(Under(s) \cup {e}) = IF e \in Under(s) THEN Cardinality(Under(s))
                                                ELSE Cardinality(Under(s)) + 1
        BY <1>3, FS_AddElement
      <4> QED BY <1>3, <4>1
    <3>4. Cardinality(UpTo(s)) <= Cardinality(Under(s) \cup {e})
      BY <3>2, <3>3, FS_Subset
    <3> QED BY <1>3, <3>3, <3>4
  <2>3. CASE ~ \E e \in 1 .. size : p0[e] = s
    <3>1. UpTo(s) = Under(s)
      BY <1>1, <2>1, <2>3 DEF UpTo, Under
    <3> QED BY <1>3, <3>1
  <2> QED BY <2>2, <2>3
<1> QED BY <1>1, <1>3, <1>4 DEF s

LEMMA DivMod ==
  ASSUME NEW a \in Nat, NEW b \in Nat \ {0}
  PROVE  a \div b \in Nat /\ a % b \in Nat /\ a % b < b /\ a = b * (a \div b) + (a % b)
<1>1. a \div b \in Int /\ a \div b >= 0
  OBVIOUS
<1>2. a % b \in 0 .. b - 1
  OBVIOUS
<1>3. a = b * (a \div b) + (a % b)
  OBVIOUS
<1> QED BY <1>1, <1>2, <1>3

\* The place of the quantile, which is not beyond the last example.
LEMMA PlaceIs ==
  ASSUME NEW n \in Nat \ {0}, NEW l \in 0 .. Share - 1
  PROVE  LET place == l * (n - 1)
             q == place \div Share
         IN  /\ place \in Nat /\ q \in 0 .. n - 1 /\ place % Share \in 0 .. Share - 1
             /\ place = Share * q + (place % Share)
             /\ place % Share # 0 => q + 1 \in 0 .. n - 1
<1> DEFINE m == n - 1
           place == l * m
           q == place \div Share
           r == place % Share
<1>1. m \in Nat /\ l \in Nat /\ Share \in Nat /\ Share > 0 /\ l <= Share - 1
  OBVIOUS
<1>2. place \in Nat /\ place <= (Share - 1) * m
  BY <1>1
<1>3. (Share - 1) * m = Share * m - m /\ Share * m \in Nat
  BY <1>1
<1>4. q \in Nat /\ r \in Nat /\ r < Share /\ place = Share * q + r
  <2> HIDE DEF place
  <2> QED BY <1>2, DivMod
<1> HIDE DEF m, place, q, r
<1>5. Share * q + r <= Share * m - m
  BY <1>2, <1>3, <1>4
<1>6. q <= m
  <2> SUFFICES ASSUME q >= m + 1 PROVE FALSE
    BY <1>1, <1>4
  <2>1. Share * q >= Share * (m + 1) /\ Share * (m + 1) = Share * m + Share
    BY <1>1, <1>4
  <2> QED BY <1>1, <1>3, <1>4, <1>5, <2>1
<1>7. r # 0 => q # m
  BY <1>1, <1>3, <1>4, <1>5
<1>8. m + 1 = n
  BY DEF m
<1> QED BY <1>1, <1>2, <1>4, <1>6, <1>7, <1>8 DEF m, place, q, r

\* As many examples lie up to the quantile as its place says.
LEMMA UpToQuantile ==
  ASSUME HonestOK, Distinct, lost \in 0 .. Share - 1
  PROVE  /\ Quantile \in Int
         /\ Cardinality({e \in 1 .. size : Share * p0[e] <= Quantile})
              = ((lost * (size - 1)) \div Share) + 1
<1> DEFINE place == lost * (size - 1)
           q == place \div Share
           r == place % Share
           s == Sorted(q)
           t == Sorted(q + 1)
<1>1. /\ q \in 0 .. size - 1 /\ r \in 0 .. Share - 1
      /\ r # 0 => q + 1 \in 0 .. size - 1
  BY PlaceIs DEF HonestOK
<1>2. Quantile = IF r = 0 THEN Share * s + r * (s - s) ELSE Share * s + r * (t - s)
  BY DEF Quantile
<1> HIDE DEF q, r
<1>3. s \in Nat /\ Cardinality(UpTo(s)) = q + 1
  BY <1>1, SortedExactly
<1>4. r # 0 => /\ t \in Nat
               /\ Cardinality(Under(t)) = q + 1 /\ Cardinality(UpTo(t)) = q + 2
  <2>1. q + 1 + 1 = q + 2
    BY <1>1
  <2> QED BY <1>1, <2>1, SortedExactly
<1> HIDE DEF s, t
<1>5. \A e \in 1 .. size : p0[e] \in Nat
  BY HonestScores
<1>6. Share \in Nat /\ Share > 0
  OBVIOUS
<1>7. CASE r = 0
  <2>1. Quantile = Share * s /\ Share * s \in Int
    BY <1>2, <1>3, <1>6, <1>7
  <2>2. ASSUME NEW e \in 1 .. size
        PROVE  Share * p0[e] <= Share * s <=> p0[e] <= s
    BY <1>3, <1>5, <1>6
  <2>3. {e \in 1 .. size : Share * p0[e] <= Quantile} = UpTo(s)
    BY <2>1, <2>2 DEF UpTo
  <2> QED BY <1>3, <2>1, <2>3 DEF q
<1>8. CASE r # 0
  <2>1. t \in Nat /\ Cardinality(Under(t)) = q + 1 /\ Cardinality(UpTo(t)) = q + 2
    BY <1>4, <1>8
  <2>2. s < t
    <3> SUFFICES ASSUME t <= s PROVE FALSE
      BY <1>3, <2>1
    <3>1. UpTo(t) \subseteq UpTo(s) /\ UpTo(s) \in SUBSET (1 .. size)
      BY <1>3, <1>5, <2>1 DEF UpTo
    <3>2. IsFiniteSet(UpTo(s))
      BY <3>1, Examples
    <3>3. Cardinality(UpTo(t)) <= Cardinality(UpTo(s))
      BY <3>1, <3>2, FS_Subset
    <3> QED BY <1>1, <1>3, <2>1, <3>3
  <2> DEFINE d == t - s
  <2>3. d \in Nat /\ d > 0 /\ r \in Nat /\ r < Share
    BY <1>1, <1>3, <1>6, <2>1, <2>2
  <2>4. r * d \in Nat /\ r * d < Share * d /\ Share * d = Share * t - Share * s
        /\ Share * t \in Nat /\ Share * s \in Nat
    <3>1. Share * d = Share * t - Share * s /\ Share * t \in Nat /\ Share * s \in Nat
      BY <1>3, <1>6, <2>1
    <3> HIDE DEF d
    <3>2. r * d \in Nat /\ r * d < Share * d
      BY <1>6, <2>3
    <3> QED BY <3>1, <3>2
  <2>5. Quantile = Share * s + r * d
    BY <1>2, <1>8
  <2> HIDE DEF d
  <2>6. Quantile \in Int /\ Share * s <= Quantile /\ Quantile < Share * t
    BY <2>4, <2>5
  <2>7. {e \in 1 .. size : Share * p0[e] <= Quantile} \subseteq Under(t)
    <3> SUFFICES ASSUME NEW e \in 1 .. size, Share * p0[e] <= Quantile, p0[e] >= t
                 PROVE  FALSE
      BY <1>5, <2>1 DEF Under
    <3>1. Share * p0[e] >= Share * t /\ Share * p0[e] \in Int
      BY <1>5, <1>6, <2>1
    <3> QED BY <2>4, <2>6, <3>1
  <2>8. UpTo(s) \subseteq {e \in 1 .. size : Share * p0[e] <= Quantile}
    <3> SUFFICES ASSUME NEW e \in 1 .. size, p0[e] <= s
                 PROVE  Share * p0[e] <= Quantile
      BY DEF UpTo
    <3>1. Share * p0[e] <= Share * s /\ Share * p0[e] \in Int
      BY <1>3, <1>5, <1>6
    <3> QED BY <2>4, <2>6, <3>1
  <2>9. UpTo(s) = Under(t)
    <3>1. UpTo(s) \subseteq Under(t) /\ Under(t) \in SUBSET (1 .. size)
      BY <2>7, <2>8 DEF Under
    <3>2. IsFiniteSet(Under(t))
      BY <3>1, Examples
    <3> QED BY <1>3, <2>1, <3>1, <3>2, FS_Subset
  <2>10. {e \in 1 .. size : Share * p0[e] <= Quantile} = UpTo(s)
    BY <2>7, <2>8, <2>9
  <2> QED BY <1>3, <2>6, <2>10 DEF q
<1> QED BY <1>7, <1>8

\* What the threshold was taken from stays as it is.
ThresholdInv ==
  /\ size \in Nat /\ (size > 0 => HonestOK /\ lost \in 0 .. Share - 1)
  /\ size = 0 => tau = 0
  /\ TargetReached

LEMMA Calibrated ==
  ASSUME ThresholdInv, CalibrateThreshold
  PROVE  TargetReached'
<1> SUFFICES ASSUME tau' > Share * Floor, Distinct'
             PROVE  /\ Share * (Rejected' - 1) <= lost' * (size' - 1)
                    /\ lost' > 0 /\ (lost' * size') % Share = 0 => Share * Rejected' = lost' * size'
  BY DEF TargetReached, Distinct
<1>1. /\ UNCHANGED <<size, p0, lost>> /\ tau' = AtLeastFloor(Quantile)
      /\ passed' = {e \in 1 .. size : Share * p0[e] > tau'}
      /\ HonestOK /\ lost \in 0 .. Share - 1
  BY DEF ThresholdInv, CalibrateThreshold
<1>2. Distinct
  BY <1>1 DEF Distinct
<1> DEFINE q == (lost * (size - 1)) \div Share
           R == {e \in 1 .. size : Share * p0[e] <= Quantile}
<1>3. Quantile \in Int /\ Cardinality(R) = q + 1
  BY <1>1, <1>2, UpToQuantile
<1>4. tau' = Quantile
  BY <1>1, <1>3 DEF AtLeastFloor
<1>5. Rejected' = q + 1
  <2>1. \A e \in 1 .. size : Share * p0[e] \in Int
    BY <1>1, HonestScores
  <2>2. passed' = (1 .. size) \ R
    BY <1>1, <1>3, <1>4, <2>1
  <2>3. IsFiniteSet(1 .. size) /\ Cardinality(1 .. size) = size /\ size \in Nat
    <3>1. size \in Nat /\ size > 0
      BY <1>1 DEF HonestOK
    <3>2. IsFiniteSet(1 .. size) /\ Cardinality(1 .. size) = IF 1 > size THEN 0 ELSE size - 1 + 1
      BY <3>1, FS_Interval
    <3> QED BY <3>1, <3>2
  <2>4. (1 .. size) \cap R = R
    OBVIOUS
  <2> HIDE DEF R
  <2>5. Cardinality(passed') = size - Cardinality(R)
    BY <2>2, <2>3, <2>4, FS_Difference
  <2>6. q \in Nat
    BY <1>1, PlaceIs DEF HonestOK
  <2> HIDE DEF q
  <2> QED BY <1>1, <1>3, <2>3, <2>5, <2>6 DEF Rejected
<1> HIDE DEF R
<1>6. /\ size \in Nat /\ size > 0 /\ lost \in Nat /\ lost < Share /\ Share \in Nat
      /\ lost * (size - 1) = lost * size - lost /\ lost * size \in Nat
  BY <1>1 DEF HonestOK
<1> DEFINE r == (lost * (size - 1)) % Share
<1>7. q \in Nat /\ r \in Nat /\ r < Share /\ lost * (size - 1) = Share * q + r
  BY <1>1, PlaceIs DEF HonestOK
<1> HIDE DEF q, r
<1>8. Share * (Rejected' - 1) <= lost' * (size' - 1)
  <2>1. Rejected' - 1 = q /\ Share * q \in Nat
    BY <1>5, <1>6, <1>7
  <2> QED BY <1>1, <1>7, <2>1
<1>9. ASSUME lost > 0, (lost * size) % Share = 0
      PROVE  Share * (q + 1) = lost * size
  <2> DEFINE m == (lost * size) \div Share
  <2>1. m \in Nat /\ lost * size = Share * m
    <3>1. m \in Nat /\ lost * size = Share * m + ((lost * size) % Share)
      BY <1>6, DivMod
    <3> HIDE DEF m
    <3> QED BY <1>6, <1>9, <3>1
  <2> HIDE DEF m
  <2>2. Share * m = Share * q + r + lost
    BY <1>6, <1>7, <2>1
  <2>3. r + lost \in Nat /\ r + lost > 0 /\ r + lost < 2 * Share
    BY <1>6, <1>7, <1>9
  <2>4. m = q + 1
    <3>1. Share * (m - q) = r + lost
      BY <1>6, <1>7, <2>1, <2>2
    <3> DEFINE d == m - q
    <3>2. d \in Int /\ Share * d = r + lost
      BY <1>7, <2>1, <3>1
    <3> HIDE DEF d
    <3>3. d > 0
      <4> SUFFICES ASSUME d <= 0 PROVE FALSE
        BY <3>2
      <4>1. Share * d <= 0
        BY <1>6, <3>2
      <4> QED BY <2>3, <3>2, <4>1
    <3>4. d < 2
      <4> SUFFICES ASSUME d >= 2 PROVE FALSE
        BY <3>2
      <4>1. Share * d >= 2 * Share
        BY <1>6, <3>2
      <4> QED BY <1>6, <2>3, <3>2, <4>1
    <3>5. d = 1
      BY <3>2, <3>3, <3>4
    <3> QED BY <1>7, <2>1, <3>5 DEF d
  <2> QED BY <2>1, <2>4
<1> QED BY <1>1, <1>5, <1>8, <1>9

(* Where no two examples have one p0 and the floor is not in force, the    *)
(* threshold loses the share it is allowed but for the example it falls    *)
(* on, and just that share where it is a whole number of examples: for     *)
(* every number of examples and whatever their p0.                         *)
THEOREM ShareIsLost == ThresholdSpec => []TargetReached
<1>1. ThresholdInit => ThresholdInv
  BY DEF ThresholdInit, ThresholdInv, TargetReached
<1>2. ThresholdInv /\ [ThresholdNext]_thresholdVars => ThresholdInv'
  <2> SUFFICES ASSUME ThresholdInv, [ThresholdNext]_thresholdVars PROVE ThresholdInv'
    OBVIOUS
  <2>1. CASE Honest
    <3>1. tau' = 0
      BY <2>1 DEF ThresholdInv, Honest
    <3>2. HonestOK' /\ lost' \in 0 .. Share - 1 /\ size' \in Nat \ {0}
      BY <2>1 DEF Honest, HonestOK
    <3>3. TargetReached'
      <4>1. Share * Floor \in Nat
        OBVIOUS
      <4> QED BY <3>1, <4>1 DEF TargetReached
    <3> QED BY <3>1, <3>2, <3>3 DEF ThresholdInv
  <2>2. CASE CalibrateThreshold
    <3>1. UNCHANGED <<size, p0, lost>> /\ size > 0
      BY <2>2 DEF CalibrateThreshold
    <3>2. HonestOK' /\ lost' \in 0 .. Share - 1
      BY <3>1 DEF ThresholdInv, HonestOK
    <3>3. TargetReached'
      BY <2>2, Calibrated
    <3> QED BY <3>1, <3>2, <3>3 DEF ThresholdInv
  <2>3. CASE UNCHANGED thresholdVars
    BY <2>3 DEF thresholdVars, ThresholdInv, HonestOK, TargetReached, Rejected
  <2> QED BY <2>1, <2>2, <2>3 DEF ThresholdNext
<1>3. ThresholdInv => TargetReached
  BY DEF ThresholdInv
<1> QED BY <1>1, <1>2, <1>3, PTL DEF ThresholdSpec

-----------------------------------------------------------------------------
(* UnkeyedEvaluation, for every number of dimensions and evaluations, every *)
(* set of nonces, permutations, measurements and sleeps, and every length  *)
(* of the library: what the honest attack reports, that a replay passes by *)
(* chance only, and that the library is there when its turn comes.         *)

(* The last dimension is one, and each plan puts it somewhere, in one      *)
(* place only.                                                             *)
LEMMA PosOfPlan ==
  ASSUME NEW p \in Plans
  PROVE  /\ SleepDim \in Slots
         /\ Pos(p) \in Slots /\ p.perm[Pos(p)] = SleepDim
         /\ \A k \in Slots : p.perm[k] = SleepDim => k = Pos(p)
<1>1. SleepDim \in Slots
  BY GateAssumption DEF SleepDim, Slots
<1>2. /\ \A d \in Slots : \E k \in Slots : p.perm[k] = d
      /\ \A k, l \in Slots : p.perm[k] = p.perm[l] => k = l
  BY PermAssumption DEF Plans
<1>3. Pos(p) \in Slots /\ p.perm[Pos(p)] = SleepDim
  BY <1>1, <1>2 DEF Pos
<1> QED
  BY <1>1, <1>2, <1>3

LEMMA SleepIsInt ==
  ASSUME NEW p \in Plans
  PROVE  p.sleep \in Int
BY GateAssumption DEF Plans

LEMMA PermMaps ==
  ASSUME NEW p \in Plans, NEW k \in Slots
  PROVE  p.perm[k] \in Slots
BY PermAssumption DEF Plans

\* What is measured is the sleep in the last dimension, a reading in the others.
LEMMA MeasuredIs ==
  ASSUME NEW p \in Plans, NEW m \in Raws, NEW d \in Slots
  PROVE  /\ Measured(p, m)[d] \in Int
         /\ d = SleepDim => Measured(p, m)[d] = p.sleep
         /\ d # SleepDim => Measured(p, m)[d] = m[d]
<1>1. Measured(p, m)[d] = IF d = SleepDim THEN p.sleep ELSE m[d]
  BY DEF Measured
<1>2. d # SleepDim => m[d] \in Int
  <2>1. m \in [0 .. PhysDims - 2 -> Int]
    BY GateAssumption
  <2>2. d # SleepDim => d \in 0 .. PhysDims - 2
    BY GateAssumption DEF SleepDim, Slots
  <2> QED
    BY <2>1, <2>2
<1> QED
  BY <1>1, <1>2, SleepIsInt

\* The slot k of a signature holds the dimension that the plan puts there.
LEMMA ReadRawIs ==
  ASSUME NEW p \in Plans, NEW m \in Raws
  PROVE  /\ ReadRaw(p, m) \in [Slots -> Int]
         /\ \A k \in Slots : ReadRaw(p, m)[k] = Measured(p, m)[p.perm[k]]
<1>1. \A k \in Slots : Measured(p, m)[p.perm[k]] \in Int
  BY PermMaps, MeasuredIs
<1> QED
  BY <1>1 DEF ReadRaw

(* The heart of the gate: what read returns under a plan passes under that *)
(* plan, whatever was measured.                                            *)
THEOREM OwnPlanPasses ==
  ASSUME NEW p \in Plans, NEW m \in Raws
  PROVE  PlanPass(ReadRaw(p, m), p)
<1>1. ReadRaw(p, m)[Pos(p)] = p.sleep
  BY PosOfPlan, ReadRawIs, MeasuredIs
<1>2. Near(p.sleep, p.sleep)
  BY SleepIsInt, GateAssumption DEF Near
<1> QED
  BY <1>1, <1>2 DEF PlanPass

(* And what passes under another plan shows its sleep there or, in its     *)
(* stead, a reading that is near the other plan's sleep.                   *)
LEMMA OtherPlanPasses ==
  ASSUME NEW p \in Plans, NEW q \in Plans, NEW m \in Raws, PlanPass(ReadRaw(p, m), q)
  PROVE  \/ Pos(p) = Pos(q) /\ Near(p.sleep, q.sleep)
         \/ \E d \in Slots \ {SleepDim} : Near(m[d], q.sleep)
<1> DEFINE d == p.perm[Pos(q)]
<1>1. d \in Slots
  BY PosOfPlan, PermMaps
<1>2. Near(Measured(p, m)[d], q.sleep)
  BY PosOfPlan, ReadRawIs DEF PlanPass
<1>3. CASE d = SleepDim
  <2>1. Pos(q) = Pos(p)
    BY <1>3, PosOfPlan
  <2>2. Measured(p, m)[d] = p.sleep
    BY <1>1, <1>3, MeasuredIs
  <2> QED
    BY <1>2, <2>1, <2>2
<1>4. CASE d # SleepDim
  <2>1. Measured(p, m)[d] = m[d]
    BY <1>1, <1>4, MeasuredIs
  <2> HIDE DEF d
  <2> QED
    BY <1>1, <1>2, <1>4, <2>1
<1> QED
  BY <1>3, <1>4
-----------------------------------------------------------------------------
(* Types.                                                                  *)

LEMMA SignatureIs ==
  ASSUME plan \in [Nonces -> Plans], NEW s \in Signatures
  PROVE  /\ s.nonce \in Nonces /\ s.raw \in Raws
         /\ s.sig = ReadRaw(plan[s.nonce], s.raw)
         /\ s \in [nonce : Nonces, raw : Raws, sig : [Slots -> Int]]
<1>1. PICK n \in Nonces, m \in Raws : s = [nonce |-> n, raw |-> m, sig |-> ReadRaw(plan[n], m)]
  BY DEF Signatures, Record
<1>2. ReadRaw(plan[n], m) \in [Slots -> Int]
  BY ReadRawIs
<1> QED
  BY <1>1, <1>2

\* A library that is there is not empty, and is not mistaken for a missing file.
LEMMA LibraryIs ==
  ASSUME plan \in [Nonces -> Plans], NEW l \in Libraries
  PROVE  l # Missing /\ l # << >>
<1>1. Signatures \subseteq [nonce : Nonces, raw : Raws, sig : [Slots -> Int]]
  BY SignatureIs
<1>2. l \in [1 .. LibLen -> [nonce : Nonces, raw : Raws, sig : [Slots -> Int]]]
  BY <1>1 DEF Libraries
<1>3. 1 \in DOMAIN l
  BY EvaluationAssumption DEF Libraries
<1>4. DOMAIN << >> = {}
  OBVIOUS
<1> QED
  BY <1>2, <1>3, <1>4, ValuesAssumption

LEMMA SameSignatures ==
  ASSUME plan' = plan
  PROVE  Signatures' = Signatures /\ Libraries' = Libraries
BY DEF Signatures, Libraries, Record

LEMMA AttackNames ==
  Attacks = {"honest_own", "peer", "static_replay_no_nonce", "dynamic_replay", "nonce_only_mismatch"}
<1>1. 1 .. 5 = {1, 2, 3, 4, 5}
  OBVIOUS
<1> QED
  BY <1>1 DEF Attacks, Battery

LEMMA HitsAreNat ==
  ASSUME CountsOK
  PROVE  hits \in 0 .. Evals /\ hits \in Nat
BY EvaluationAssumption DEF CountsOK

(* A vector that is scored adds one to the evaluated and at most one to    *)
(* the accepted.                                                           *)
LEMMA ScoreCounts ==
  ASSUME UnkeyedTypeOK, NEW sig, NEW n, Score(sig, n)
  PROVE  UnkeyedTypeOK'
<1>1. plan' = plan /\ plan' \in [Nonces -> Plans]
  BY DEF UnkeyedTypeOK, Score
<1>2. /\ FilesOK' /\ RecordedOK' /\ ResultsOK'
      /\ given' \in BOOLEAN /\ named' \in {"default", "recorded", "absent"}
      /\ attack' \in Attacks \cup {"off", "gates"}
  BY <1>1, SameSignatures DEF UnkeyedTypeOK, FilesOK, RecordedOK, ResultsOK, Score, trainVars
<1>3. CountsOK'
  <2>1. evals \in 0 .. Evals /\ hits \in 0 .. evals /\ evals < Evals /\ evals' = evals + 1
    BY DEF UnkeyedTypeOK, CountsOK, Score
  <2>2. hits' = hits + 1 \/ hits' = hits
    BY DEF Score
  <2> QED
    BY <2>1, <2>2, EvaluationAssumption DEF CountsOK
<1> QED
  BY <1>1, <1>2, <1>3 DEF UnkeyedTypeOK

\* Every evaluation is a score.
LEMMA Evaluations ==
  ASSUME HonestOwn \/ Peer \/ StaticReplay \/ DynamicReplay \/ Mismatch
  PROVE  \E sig, n : Score(sig, n)
BY DEF HonestOwn, Peer, StaticReplay, DynamicReplay, Mismatch

LEMMA UnkeyedInitial == UnkeyedInit => UnkeyedTypeOK
<1> SUFFICES ASSUME UnkeyedInit PROVE UnkeyedTypeOK
  OBVIOUS
<1>1. CountsOK /\ FilesOK /\ RecordedOK
  BY EvaluationAssumption DEF UnkeyedInit, CountsOK, FilesOK, RecordedOK
<1>2. DOMAIN results = {}
  BY DEF UnkeyedInit
<1> QED
  BY <1>1, <1>2 DEF UnkeyedInit, UnkeyedTypeOK, ResultsOK

LEMMA UnkeyedStep == UnkeyedTypeOK /\ [UnkeyedNext]_unkeyedVars => UnkeyedTypeOK'
<1> SUFFICES ASSUME UnkeyedTypeOK, [UnkeyedNext]_unkeyedVars PROVE UnkeyedTypeOK'
  OBVIOUS
<1> USE DEF UnkeyedTypeOK
<1>1. ASSUME StartTraining \/ SaveModel \/ TrainingEnds PROVE UnkeyedTypeOK'
  BY <1>1, SameSignatures
  DEF StartTraining, SaveModel, TrainingEnds, attackVars, FilesOK, RecordedOK, CountsOK, ResultsOK
<1>2. ASSUME SavePairs PROVE UnkeyedTypeOK'
  <2>1. pairs' \in Libraries
    BY <1>2 DEF SavePairs
  <2> QED
    BY <1>2, <2>1, SameSignatures DEF SavePairs, attackVars, FilesOK, RecordedOK, CountsOK, ResultsOK
<1>3. ASSUME StartAttacks PROVE UnkeyedTypeOK'
  BY <1>3, SameSignatures, AttackNames
  DEF StartAttacks, trainVars, FilesOK, RecordedOK, CountsOK, ResultsOK
<1>4. ASSUME HonestOwn \/ Peer \/ StaticReplay \/ DynamicReplay \/ Mismatch PROVE UnkeyedTypeOK'
  BY <1>4, Evaluations, ScoreCounts
<1>5. ASSUME NextAttack PROVE UnkeyedTypeOK'
  <2>1. plan' = plan /\ FilesOK' /\ given' = given /\ named' = named
    BY <1>5, SameSignatures DEF NextAttack, trainVars, FilesOK
  <2>2. attack' \in Attacks \cup {"gates"}
    BY <1>5, AttackNames DEF NextAttack, Note, After
  <2>3. RecordedOK'
    <3>1. CASE \E s \in Signatures : recorded' = <<s>>
      <4>1. PICK s \in Signatures : recorded' = <<s>>
        BY <3>1
      <4>2. <<s>> \in [1 .. 1 -> Signatures]
        OBVIOUS
      <4> QED
        BY <2>1, <4>1, <4>2, SameSignatures DEF RecordedOK
    <3>2. CASE recorded' = << >>
      BY <3>2 DEF RecordedOK
    <3>3. CASE recorded' = pairs /\ pairs # Missing /\ pairs # Empty
      BY <2>1, <3>3, SameSignatures DEF RecordedOK, FilesOK
    <3>4. CASE recorded' \in Libraries
      BY <2>1, <3>4, SameSignatures DEF RecordedOK
    <3>5. Replayed
      BY <1>5 DEF NextAttack
    <3> QED
      BY <3>1, <3>2, <3>3, <3>4, <3>5 DEF Replayed, LibraryLoads
  <2>4. CountsOK'
    BY <1>5, EvaluationAssumption DEF NextAttack, Note, CountsOK
  <2>5. ResultsOK'
    <3>1. hits \in 0 .. Evals
      BY HitsAreNat
    <3>2. PICK r : r \in 0 .. Evals \cup {Skipped} /\ Note(r)
      <4>1. CASE Note(hits)
        BY <3>1, <4>1
      <4>2. CASE Note(Skipped)
        BY <4>2
      <4> QED
        BY <1>5, <4>1, <4>2 DEF NextAttack
    <3> QED
      BY <1>5, <3>2 DEF NextAttack, Note, ResultsOK
  <2> QED
    BY <2>1, <2>2, <2>3, <2>4, <2>5
<1>6. ASSUME AttacksEnd PROVE UnkeyedTypeOK'
  <2>1. DOMAIN results' = {}
    BY <1>6 DEF AttacksEnd
  <2>2. FilesOK' /\ RecordedOK' /\ plan' = plan
    BY <1>6, SameSignatures DEF AttacksEnd, trainVars, FilesOK, RecordedOK
  <2>3. CountsOK'
    BY <1>6, EvaluationAssumption DEF AttacksEnd, CountsOK
  <2> QED
    BY <1>6, <2>1, <2>2, <2>3 DEF AttacksEnd, ResultsOK
<1>7. ASSUME UNCHANGED unkeyedVars PROVE UnkeyedTypeOK'
  BY <1>7, SameSignatures
  DEF unkeyedVars, trainVars, attackVars, FilesOK, RecordedOK, CountsOK, ResultsOK
<1> QED
  BY <1>1, <1>2, <1>3, <1>4, <1>5, <1>6, <1>7 DEF UnkeyedNext

(* The variables have their types, and what is replayed was read on this   *)
(* chip under its own nonce, for every instance.                           *)
THEOREM UnkeyedTypeCorrect == UnkeyedSpec => []UnkeyedTypeOK
BY UnkeyedInitial, UnkeyedStep, PTL DEF UnkeyedSpec

(* The same for both gates side by side.                                   *)
THEOREM GatesTypeCorrect == GatesSpec => []GatesTypeOK
<1> DEFINE Inv == GateInv /\ UnkeyedTypeOK
<1>1. GatesInit => Inv
  BY GateInitial, UnkeyedInitial DEF GatesInit
<1>2. Inv /\ [GatesNext]_<<vars, unkeyedVars, thresholdVars>> => Inv'
  <2> SUFFICES ASSUME Inv, [GatesNext]_<<vars, unkeyedVars, thresholdVars>> PROVE Inv'
    OBVIOUS
  <2>1. [Next]_vars /\ [UnkeyedNext]_unkeyedVars
    BY DEF GatesNext
  <2> QED BY <2>1, GateStep, UnkeyedStep
<1>3. Inv => GatesTypeOK
  BY DEF GateInv, GatesTypeOK
<1> HIDE DEF Inv
<1> QED BY <1>1, <1>2, <1>3, PTL DEF GatesSpec
-----------------------------------------------------------------------------
(* What a replay needs.                                                    *)

(* ReplayNeedsChance follows from the types: what is replayed was read on  *)
(* this chip under its own nonce.                                          *)
THEOREM ReplaysPassByChance == UnkeyedSpec => []ReplayNeedsChance
<1>1. UnkeyedTypeOK => ReplayNeedsChance
  <2> SUFFICES ASSUME UnkeyedTypeOK, NEW r \in DOMAIN recorded, NEW n \in Nonces,
                      PlanPass(recorded[r].sig, plan[n])
               PROVE  LET signed == plan[recorded[r].nonce]
                      IN  \/ Pos(signed) = Pos(plan[n]) /\ Near(signed.sleep, plan[n].sleep)
                          \/ \E d \in Slots \ {SleepDim} : Near(recorded[r].raw[d], plan[n].sleep)
    BY DEF ReplayNeedsChance
  <2>1. recorded[r] \in Signatures
    <3>1. CASE recorded = << >>
      BY <3>1
    <3>2. CASE recorded \in [1 .. 1 -> Signatures] \cup Libraries
      BY <3>2 DEF Libraries
    <3> QED
      BY <3>1, <3>2 DEF UnkeyedTypeOK, RecordedOK
  <2>2. plan \in [Nonces -> Plans]
    BY DEF UnkeyedTypeOK
  <2>3. /\ recorded[r].nonce \in Nonces /\ recorded[r].raw \in Raws
        /\ recorded[r].sig = ReadRaw(plan[recorded[r].nonce], recorded[r].raw)
    BY <2>1, <2>2, SignatureIs
  <2>4. plan[recorded[r].nonce] \in Plans /\ plan[n] \in Plans
    BY <2>2, <2>3
  <2> QED
    BY <2>3, <2>4, OtherPlanPasses
<1> QED
  BY <1>1, UnkeyedTypeCorrect, PTL
-----------------------------------------------------------------------------
(* The honest attack.                                                      *)

(* Everything evaluated in it was accepted, and its rate is noted when all *)
(* is evaluated.                                                           *)
HonestInv == /\ attack = "off" => evals = 0 /\ hits = 0
             /\ attack \in {"off", "honest_own"} => "honest_own" \notin DOMAIN results
             /\ attack = "honest_own" => hits = evals
             /\ "honest_own" \in DOMAIN results => results["honest_own"] = Evals

THEOREM HonestAttackPasses == UnkeyedSpec => []HonestOwnPasses
<1>1. UnkeyedInit => HonestInv
  BY DEF UnkeyedInit, HonestInv
<1>2. UnkeyedTypeOK /\ HonestInv /\ [UnkeyedNext]_unkeyedVars => HonestInv'
  <2> SUFFICES ASSUME UnkeyedTypeOK, HonestInv, [UnkeyedNext]_unkeyedVars PROVE HonestInv'
    OBVIOUS
  <2> USE DEF HonestInv
  <2>1. ASSUME StartTraining \/ SavePairs \/ SaveModel \/ TrainingEnds PROVE HonestInv'
    BY <2>1 DEF StartTraining, SavePairs, SaveModel, TrainingEnds, attackVars
  <2>2. ASSUME StartAttacks PROVE HonestInv'
    BY <2>2 DEF StartAttacks
  <2>3. ASSUME HonestOwn PROVE HonestInv'
    <3>1. PICK s \in Signatures : Score(s.sig, s.nonce) /\ attack = "honest_own"
      BY <2>3 DEF HonestOwn
    <3>2. plan \in [Nonces -> Plans]
      BY DEF UnkeyedTypeOK
    <3>3. s.nonce \in Nonces /\ s.raw \in Raws /\ s.sig = ReadRaw(plan[s.nonce], s.raw)
      BY <3>2, SignatureIs
    <3>4. PlanPass(s.sig, plan[s.nonce])
      BY <3>2, <3>3, OwnPlanPasses
    <3>5. evals' = evals + 1 /\ hits' = hits + 1 /\ attack' = attack /\ results' = results
      BY <3>1, <3>4 DEF Score
    <3> QED
      BY <3>1, <3>5
  <2>4. ASSUME Peer \/ StaticReplay \/ DynamicReplay \/ Mismatch PROVE HonestInv'
    <3>1. attack \notin {"off", "honest_own"}
      BY <2>4 DEF Peer, StaticReplay, DynamicReplay, Mismatch
    <3>2. PICK sig, n : Score(sig, n)
      BY <2>4, Evaluations
    <3> QED
      BY <3>1, <3>2 DEF Score
  <2>5. ASSUME NextAttack PROVE HonestInv'
    <3>1. attack' \notin {"off", "honest_own"} /\ attack \in Attacks
      BY <2>5, AttackNames DEF NextAttack, Note, After
    <3>2. CASE attack = "honest_own"
      <4>1. Note(hits) /\ evals = Evals
        BY <2>5, <3>2 DEF NextAttack, Skips, Evaluated
      <4>2. results'["honest_own"] = hits
        BY <3>2, <4>1 DEF Note
      <4> QED
        BY <3>1, <3>2, <4>1, <4>2
    <3>3. CASE attack # "honest_own"
      <4>1. PICK r : Note(r)
        BY <2>5 DEF NextAttack
      <4>2. DOMAIN results' = DOMAIN results \cup {attack}
        BY <4>1 DEF Note
      <4>3. "honest_own" \in DOMAIN results => results'["honest_own"] = results["honest_own"]
        BY <3>3, <4>1 DEF Note
      <4> QED
        BY <3>1, <3>3, <4>2, <4>3
    <3> QED
      BY <3>2, <3>3
  <2>6. ASSUME AttacksEnd PROVE HonestInv'
    BY <2>6 DEF AttacksEnd
  <2>7. ASSUME UNCHANGED unkeyedVars PROVE HonestInv'
    BY <2>7 DEF unkeyedVars, trainVars, attackVars
  <2> QED
    BY <2>1, <2>2, <2>3, <2>4, <2>5, <2>6, <2>7 DEF UnkeyedNext
<1>3. HonestInv => HonestOwnPasses
  BY EvaluationAssumption DEF HonestInv, HonestOwnPasses
<1> QED
  BY <1>1, <1>2, <1>3, UnkeyedTypeCorrect, PTL DEF UnkeyedSpec
-----------------------------------------------------------------------------
(* The library of the dynamic replay.                                      *)

\* There is a library to replay: it is named, or is that of this host's model.
Covered == named = "recorded" \/ (named = "default" /\ ~given)

(* A model on disk is younger than a library, a battery that runs with it  *)
(* started after both, and no file is ever removed.                        *)
LibraryInv == /\ training \in {"pairs", "pairs saved", "model"} => pairs # Missing
              /\ model # Missing => pairs # Missing
              /\ attack = "off" => DOMAIN results = {}
              /\ ~given /\ attack # "off" => pairs # Missing
              /\ Covered /\ attack = "dynamic_replay" => recorded # << >>
              /\ OwnModelHasLibrary

THEOREM LibraryIsThere == UnkeyedSpec => []OwnModelHasLibrary
<1>1. UnkeyedInit => LibraryInv
  BY DEF UnkeyedInit, LibraryInv, OwnModelHasLibrary
<1>2. UnkeyedTypeOK /\ LibraryInv /\ [UnkeyedNext]_unkeyedVars => LibraryInv'
  <2> SUFFICES ASSUME UnkeyedTypeOK, LibraryInv, [UnkeyedNext]_unkeyedVars PROVE LibraryInv'
    OBVIOUS
  <2> USE DEF LibraryInv, OwnModelHasLibrary
  <2>1. ASSUME StartTraining \/ SaveModel \/ TrainingEnds PROVE LibraryInv'
    BY <2>1, ValuesAssumption DEF StartTraining, SaveModel, TrainingEnds, attackVars, Covered
  <2>2. ASSUME SavePairs PROVE LibraryInv'
    <3>1. pairs' \in Libraries /\ plan \in [Nonces -> Plans]
      BY <2>2 DEF SavePairs, UnkeyedTypeOK
    <3>2. pairs' # Missing
      BY <3>1, LibraryIs
    <3> QED
      BY <2>2, <3>2 DEF SavePairs, attackVars, Covered
  <2>3. ASSUME StartAttacks PROVE LibraryInv'
    BY <2>3, ValuesAssumption DEF StartAttacks, trainVars
  <2>4. ASSUME HonestOwn \/ Peer \/ StaticReplay \/ DynamicReplay \/ Mismatch PROVE LibraryInv'
    <3>1. PICK sig, n : Score(sig, n)
      BY <2>4, Evaluations
    <3> QED
      BY <3>1 DEF Score, trainVars, Covered
  <2>5. ASSUME NextAttack PROVE LibraryInv'
    <3>1. attack \in Attacks /\ attack # "off" /\ attack' # "off"
      BY <2>5, AttackNames DEF NextAttack, Note, After
    <3>2. given' = given /\ named' = named /\ Covered' = Covered /\ UNCHANGED trainVars
      BY <2>5 DEF NextAttack, Covered
    <3>3. Covered' /\ attack' = "dynamic_replay" => recorded' # << >>
      <4> SUFFICES ASSUME Covered, attack' = "dynamic_replay" PROVE recorded' # << >>
        BY <3>2
      <4>1. plan \in [Nonces -> Plans] /\ LibraryLoads
        BY <2>5 DEF NextAttack, Replayed, UnkeyedTypeOK
      <4>2. recorded' \in Libraries
        <5>1. CASE named = "recorded"
          BY <4>1, <5>1 DEF LibraryLoads
        <5>2. CASE named = "default" /\ ~given
          <6>1. pairs # Missing
            BY <3>1, <5>2
          <6>2. recorded' = pairs /\ pairs # Empty
            BY <4>1, <5>2, <6>1 DEF LibraryLoads
          <6> QED
            BY <6>1, <6>2 DEF UnkeyedTypeOK, FilesOK
        <5> QED
          BY <5>1, <5>2 DEF Covered
      <4> QED
        BY <4>1, <4>2, LibraryIs
    <3>4. ASSUME Covered, "dynamic_replay" \in DOMAIN results' PROVE results'["dynamic_replay"] # Skipped
      <4>1. CASE attack = "dynamic_replay"
        <5>1. Note(hits)
          <6>1. recorded # << >>
            BY <3>4, <4>1
          <6>2. ~Skips
            BY <4>1, <6>1 DEF Skips
          <6> QED
            BY <2>5, <6>2 DEF NextAttack
        <5>2. results'["dynamic_replay"] = hits
          BY <4>1, <5>1 DEF Note
        <5>3. hits \in Nat
          BY HitsAreNat DEF UnkeyedTypeOK
        <5> QED
          BY <5>2, <5>3, ValuesAssumption
      <4>2. CASE attack # "dynamic_replay"
        <5>1. PICK r : Note(r)
          BY <2>5 DEF NextAttack
        <5>2. "dynamic_replay" \in DOMAIN results /\ results'["dynamic_replay"] = results["dynamic_replay"]
          BY <3>4, <4>2, <5>1 DEF Note
        <5> QED
          BY <3>4, <5>2 DEF Covered, UnkeyedTypeOK
      <4> QED
        BY <4>1, <4>2
    <3>5. OwnModelHasLibrary'
      BY <3>2, <3>4 DEF Covered, UnkeyedTypeOK
    <3> QED
      BY <3>1, <3>2, <3>3, <3>5 DEF trainVars
  <2>6. ASSUME AttacksEnd PROVE LibraryInv'
    BY <2>6 DEF AttacksEnd, trainVars
  <2>7. ASSUME UNCHANGED unkeyedVars PROVE LibraryInv'
    BY <2>7 DEF unkeyedVars, trainVars, attackVars, Covered
  <2> QED
    BY <2>1, <2>2, <2>3, <2>4, <2>5, <2>6, <2>7 DEF UnkeyedNext
<1>3. LibraryInv => OwnModelHasLibrary
  BY DEF LibraryInv
<1> QED
  BY <1>1, <1>2, <1>3, UnkeyedTypeCorrect, PTL DEF UnkeyedSpec
-----------------------------------------------------------------------------
(* The nearest record.                                                     *)

\* Distances are natural numbers, and none between two nonces makes them one.
LEMMA DistanceIs ==
  ASSUME NEW m \in Nonces, NEW n \in Nonces
  PROVE  /\ Distance(m, n) \in Nat
         /\ Distance(m, n) = 0 <=> m = n
<1>1. (m \ n) \cup (n \ m) \in SUBSET Bits /\ IsFiniteSet(Bits)
  BY EvaluationAssumption
<1>2. IsFiniteSet((m \ n) \cup (n \ m))
  BY <1>1, FS_Subset
<1>3. (m \ n) \cup (n \ m) = {} <=> m = n
  OBVIOUS
<1> QED
  BY <1>2, <1>3, FS_CardinalityType, FS_EmptySet DEF Distance

\* Before(n, r, j): the record r is preferred to j for the nonce n.
Before(n, r, j) == \/ Distance(recorded[r].nonce, n) < Distance(recorded[j].nonce, n)
                   \/ Distance(recorded[r].nonce, n) = Distance(recorded[j].nonce, n) /\ r <= j

LEMMA NearestIsKnown ==
  ASSUME DOMAIN recorded \subseteq Nat, \A r \in DOMAIN recorded : recorded[r].nonce \in Nonces,
         NEW k \in DOMAIN recorded
  PROVE  \E r \in DOMAIN recorded : /\ recorded[r].nonce = recorded[k].nonce
                                   /\ Nearest(recorded[k].nonce) = recorded[r]
<1> DEFINE n == recorded[k].nonce
           best == CHOOSE r \in DOMAIN recorded : \A j \in DOMAIN recorded : Before(n, r, j)
<1>1. n \in Nonces
  OBVIOUS
<1>2. \E r \in DOMAIN recorded : \A j \in DOMAIN recorded : Before(n, r, j)
  <2> DEFINE Exact == {r \in DOMAIN recorded : Distance(recorded[r].nonce, n) = 0}
  <2>1. Distance(recorded[k].nonce, n) = 0
    BY <1>1, DistanceIs
  <2>2. Exact \in SUBSET Nat /\ Exact # {}
    BY <2>1
  <2>3. PICK r \in Exact : \A j \in Exact : r <= j
    <3> HIDE DEF Exact
    <3> QED
      BY <2>2, LeastNat
  <2>4. ASSUME NEW j \in DOMAIN recorded PROVE Before(n, r, j)
    <3>1. Distance(recorded[j].nonce, n) \in Nat /\ Distance(recorded[r].nonce, n) = 0
      BY <1>1, <2>3, DistanceIs
    <3>2. CASE Distance(recorded[j].nonce, n) = 0
      BY <2>3, <3>1, <3>2 DEF Before
    <3>3. CASE Distance(recorded[j].nonce, n) # 0
      BY <3>1, <3>3 DEF Before
    <3> QED
      BY <3>2, <3>3
  <2> QED
    BY <2>3, <2>4
<1>3. best \in DOMAIN recorded /\ \A j \in DOMAIN recorded : Before(n, best, j)
  BY <1>2
<1>4. Nearest(n) = recorded[best]
  BY DEF Nearest, Before
<1>5. recorded[best].nonce = n
  <2> HIDE DEF best
  <2>1. Distance(recorded[best].nonce, n) \in Nat
    BY <1>1, <1>3, DistanceIs
  <2>2. Distance(recorded[k].nonce, n) = 0
    BY <1>1, DistanceIs
  <2>3. Before(n, best, k)
    BY <1>3
  <2>4. Distance(recorded[best].nonce, n) = 0
    BY <2>1, <2>2, <2>3 DEF Before
  <2> QED
    BY <1>1, <1>3, <2>4, DistanceIs
<1> HIDE DEF best
<1> QED
  BY <1>3, <1>4, <1>5

(* The best dynamic replay: where the library holds the nonce itself, a    *)
(* record of its own is the one replayed, and it passes (attacks.py lines  *)
(* 177 to 182).                                                            *)
KnownNoncePasses ==
  attack = "dynamic_replay" =>
    \A r \in DOMAIN recorded :
      LET n == recorded[r].nonce
      IN  Nearest(n).nonce = n /\ PlanPass(Nearest(n).sig, plan[n])

\* So it is in every state.
THEOREM KnownNonceIsReplayed == UnkeyedSpec => []KnownNoncePasses
<1>1. UnkeyedTypeOK => KnownNoncePasses
  <2> SUFFICES ASSUME UnkeyedTypeOK, NEW k \in DOMAIN recorded
               PROVE  LET n == recorded[k].nonce
                      IN  Nearest(n).nonce = n /\ PlanPass(Nearest(n).sig, plan[n])
    BY DEF KnownNoncePasses
  <2>1. plan \in [Nonces -> Plans]
    BY DEF UnkeyedTypeOK
  <2>2. DOMAIN recorded \subseteq Nat /\ \A r \in DOMAIN recorded : recorded[r] \in Signatures
    <3>1. CASE recorded = << >>
      BY <3>1
    <3>2. CASE recorded \in [1 .. 1 -> Signatures] \cup Libraries
      <4>1. DOMAIN recorded = 1 .. 1 \/ DOMAIN recorded = 1 .. LibLen
        BY <3>2 DEF Libraries
      <4>2. \A r \in DOMAIN recorded : recorded[r] \in Signatures
        BY <3>2 DEF Libraries
      <4> QED
        BY <4>1, <4>2, EvaluationAssumption
    <3> QED
      BY <3>1, <3>2 DEF UnkeyedTypeOK, RecordedOK
  <2>3. \A r \in DOMAIN recorded : recorded[r].nonce \in Nonces
    BY <2>1, <2>2, SignatureIs
  <2>4. PICK r \in DOMAIN recorded : /\ recorded[r].nonce = recorded[k].nonce
                                     /\ Nearest(recorded[k].nonce) = recorded[r]
    BY <2>2, <2>3, NearestIsKnown
  <2>5. /\ recorded[r].nonce \in Nonces /\ recorded[r].raw \in Raws
        /\ recorded[r].sig = ReadRaw(plan[recorded[r].nonce], recorded[r].raw)
    BY <2>1, <2>2, SignatureIs
  <2>6. PlanPass(recorded[r].sig, plan[recorded[r].nonce])
    BY <2>1, <2>5, OwnPlanPasses
  <2> QED
    BY <2>4, <2>6
<1> QED
  BY <1>1, UnkeyedTypeCorrect, PTL
=============================================================================
