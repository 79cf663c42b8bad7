--------------------------- MODULE PingPongProofs ---------------------------
(* Theorems about the hand-off, for every number of iterations and every   *)
(* width of int.                                                           *)
EXTENDS PingPong, TLAPS

\* What each thread waits for, as one of the values its 2*i may take.
Awaits == /\ expect["A"] = 2 * i \/ expect["A"] = 2 * i + Shift
          /\ expect["B"] = 2 * j + 1 \/ expect["B"] = 2 * j + 1 + Shift

\* Where A is decides who holds the turn and what the counter reads.
AHolds == /\ pc["A"] = "spin" => gen = 2 * i /\ j = i /\ i < Iters
          /\ pc["A"] = "store" => /\ gen = 2 * i /\ j = i /\ i < Iters
                                  /\ expect["A"] = gen /\ t0 = j
          /\ pc["A"] = "reply" => /\ i < Iters /\ t0 = i
                                  /\ expect["A"] = 2 * i
                                  /\ \/ gen = 2 * i + 1 /\ j = i
                                     \/ gen = 2 * i + 2 /\ j = i + 1
          /\ pc["A"] = "done" => gen = 2 * i /\ j = i /\ i = Iters

\* B stores only while the counter is the odd value it has seen.
BHolds == /\ pc["B"] \in {"spin", "store", "done"}
          /\ pc["B"] = "store" => gen = 2 * j + 1 /\ expect["B"] = gen
          /\ pc["B"] = "done" <=> j = Iters

\* Every sample thread A has recorded spans exactly one answer of thread B.
EachSampleIsOneRoundTrip == \A k \in 0 .. i - 1 : samples[k] = 1

IInv == TypeOK /\ Awaits /\ AHolds /\ BHolds /\ EachSampleIsOneRoundTrip
        /\ (dumped => \A t \in Threads : pc[t] = "done")

USE ItersAssumption, IntMaxAssumption, ShiftAssumption

(* The 2*i of an iteration is its exact value or the wrapped one. *)
LEMMA CastIs == ASSUME NEW k \in Nat, NEW e \in Cast(k)
                PROVE e \in Nat /\ (e = k \/ e = k + Shift)
BY DEF Cast

LEMMA InitHolds == Init => IInv
<1> SUFFICES ASSUME Init PROVE IInv
  OBVIOUS
<1>1. TypeOK
  <2>1. pc \in [Threads -> {"spin", "store", "reply", "done"}]
    BY DEF Init, Begin
  <2>2. expect \in [Threads -> Nat]
    BY DEF Init
  <2>3. samples \in [0 .. Iters - 1 -> Int]
    BY DEF Init
  <2>4. i \in 0 .. Iters /\ j \in 0 .. Iters /\ gen \in Nat /\ t0 \in Nat
    BY DEF Init
  <2> QED BY <2>1, <2>2, <2>3, <2>4 DEF Init, TypeOK
<1>0. Awaits
  BY DEF Init, Awaits, Threads
<1>2. AHolds /\ BHolds
  BY DEF Init, AHolds, BHolds, Begin, Threads
<1>3. EachSampleIsOneRoundTrip /\ ~dumped
  BY DEF Init, EachSampleIsOneRoundTrip
<1> QED BY <1>0, <1>1, <1>2, <1>3 DEF IInv

(* Every step keeps the invariant.  A thread between its load and its      *)
(* store is the only one whose awaited generation the counter can be.      *)
LEMMA InductiveStep == IInv /\ [Next]_vars => IInv'
<1> SUFFICES ASSUME IInv, [Next]_vars PROVE IInv'
  OBVIOUS
<1>1. CASE ATurn
  <2>1. expect["A"] = 2 * i
    BY <1>1 DEF ATurn, IInv, TypeOK, Awaits, AHolds
  <2>2. TypeOK' /\ Awaits' /\ BHolds' /\ EachSampleIsOneRoundTrip'
    BY <1>1 DEF ATurn, IInv, TypeOK, Awaits, BHolds, EachSampleIsOneRoundTrip, Threads
  <2>3. AHolds' /\ ~dumped'
    BY <1>1, <2>1 DEF ATurn, IInv, TypeOK, AHolds, Threads
  <2> QED BY <2>2, <2>3 DEF IInv
<1>2. CASE AStore
  <2>1. TypeOK' /\ Awaits' /\ EachSampleIsOneRoundTrip' /\ ~dumped'
    BY <1>2 DEF AStore, IInv, TypeOK, Awaits, AHolds, EachSampleIsOneRoundTrip, Threads
  <2>2. AHolds'
    BY <1>2 DEF AStore, IInv, TypeOK, AHolds, Threads
  <2>3. BHolds'
    BY <1>2 DEF AStore, IInv, TypeOK, AHolds, BHolds, Threads
  <2> QED BY <2>1, <2>2, <2>3 DEF IInv
<1>3. CASE AReply
  <2>1. i < Iters /\ gen = 2 * i + 2 /\ j = i + 1 /\ j - t0 = 1 /\ ~dumped
    BY <1>3 DEF AReply, IInv, TypeOK, AHolds, Threads
  <2>2. PICK e \in Cast(2 * (i + 1)) : expect' = [expect EXCEPT !["A"] = e]
    BY <1>3 DEF AReply, Record
  <2>3. e \in Nat /\ (e = 2 * (i + 1) \/ e = 2 * (i + 1) + Shift)
    BY <2>2, CastIs DEF IInv, TypeOK
  <2>4. TypeOK'
    BY <1>3, <2>1, <2>2, <2>3 DEF AReply, Record, IInv, TypeOK, Begin, Threads
  <2>5. Awaits'
    BY <1>3, <2>2, <2>3 DEF AReply, Record, IInv, TypeOK, Awaits, Threads
  <2>6. AHolds' /\ BHolds'
    BY <1>3, <2>1, <2>2 DEF AReply, Record, IInv, TypeOK, AHolds, BHolds, Begin, Threads
  <2>7. EachSampleIsOneRoundTrip'
    BY <1>3, <2>1 DEF AReply, Record, IInv, TypeOK, EachSampleIsOneRoundTrip
  <2> QED BY <1>3, <2>1, <2>4, <2>5, <2>6, <2>7 DEF IInv, AReply, Record
<1>4. CASE BTurn
  <2>1. TypeOK' /\ Awaits' /\ AHolds' /\ EachSampleIsOneRoundTrip' /\ ~dumped'
    BY <1>4 DEF BTurn, IInv, TypeOK, Awaits, AHolds, EachSampleIsOneRoundTrip, Threads
  <2>2. gen = 2 * j + 1
    BY <1>4 DEF BTurn, IInv, TypeOK, Awaits, AHolds, BHolds, Threads
  <2>3. BHolds'
    BY <1>4, <2>2 DEF BTurn, IInv, TypeOK, BHolds, Threads
  <2> QED BY <2>1, <2>3 DEF IInv
<1>5. CASE BStore
  <2>1. /\ pc["A"] = "reply" /\ i < Iters /\ t0 = i /\ j = i /\ gen = 2 * i + 1
        /\ expect["A"] = 2 * i /\ expect["B"] = gen /\ ~dumped
    BY <1>5 DEF BStore, IInv, TypeOK, AHolds, BHolds, Threads
  <2>2. PICK e \in Cast(2 * (j + 1) + 1) : expect' = [expect EXCEPT !["B"] = e]
    BY <1>5 DEF BStore
  <2>3. e \in Nat /\ (e = 2 * (j + 1) + 1 \/ e = 2 * (j + 1) + 1 + Shift)
    BY <2>2, CastIs DEF IInv, TypeOK
  <2>4. TypeOK'
    BY <1>5, <2>1, <2>2, <2>3 DEF BStore, IInv, TypeOK, Begin, Threads
  <2>5. Awaits'
    BY <1>5, <2>2, <2>3 DEF BStore, IInv, TypeOK, Awaits, Threads
  <2>6. AHolds' /\ BHolds'
    BY <1>5, <2>1, <2>2 DEF BStore, IInv, TypeOK, AHolds, BHolds, Begin, Threads
  <2>7. EachSampleIsOneRoundTrip'
    BY <1>5 DEF BStore, IInv, EachSampleIsOneRoundTrip
  <2> QED BY <1>5, <2>1, <2>4, <2>5, <2>6, <2>7 DEF IInv, BStore
<1>6. CASE Dump
  BY <1>6 DEF Dump, IInv, TypeOK, Awaits, AHolds, BHolds, EachSampleIsOneRoundTrip
<1>7. CASE UNCHANGED vars
  BY <1>7 DEF vars, IInv, TypeOK, Awaits, AHolds, BHolds, EachSampleIsOneRoundTrip
<1> QED BY <1>1, <1>2, <1>3, <1>4, <1>5, <1>6, <1>7 DEF Next

(* The inductive invariant holds in every reachable state. *)
THEOREM Invariance == Spec => []IInv
BY InitHolds, InductiveStep, PTL DEF Spec

(* The variables keep their types, the samples' domain included: thread A  *)
(* never writes past the array main has allocated.                         *)
THEOREM TypeCorrect == Spec => []TypeOK
<1>1. IInv => TypeOK
  BY DEF IInv
<1> QED BY <1>1, Invariance, PTL

(* Every recorded sample is one round trip, whatever 2*i overflows to. *)
THEOREM SamplesAreRoundTrips == Spec => []EachSampleIsOneRoundTrip
<1>1. IInv => EachSampleIsOneRoundTrip
  BY DEF IInv
<1> QED BY <1>1, Invariance, PTL

(* What main writes is complete. *)
THEOREM OutputIsComplete == Spec => []DumpIsComplete
<1>1. IInv => DumpIsComplete
  BY DEF IInv, TypeOK, DumpIsComplete, EachSampleIsOneRoundTrip, AHolds, Threads
<1> QED BY <1>1, Invariance, PTL

(* No store is lost: the counter only ever grows by one. *)
THEOREM NoStoreIsLost == Spec => GenerationsAreConsecutive
<1>1. ASSUME IInv, [Next]_vars PROVE [gen' = gen + 1]_gen
  <2>1. CASE AStore
    BY <1>1, <2>1 DEF AStore, IInv, AHolds
  <2>2. CASE BStore
    BY <1>1, <2>2 DEF BStore, IInv, BHolds
  <2>3. CASE ATurn \/ AReply \/ BTurn \/ Dump \/ UNCHANGED vars
    BY <2>3 DEF ATurn, AReply, Record, BTurn, Dump, vars
  <2> QED BY <1>1, <2>1, <2>2, <2>3 DEF Next
<1> QED BY <1>1, Invariance, PTL DEF Spec, GenerationsAreConsecutive
=============================================================================
