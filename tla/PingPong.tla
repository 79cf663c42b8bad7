------------------------------ MODULE PingPong ------------------------------
(***************************************************************************)
(* signature/cacheline_pingpong.c: two pinned threads hand one generation  *)
(* counter back and forth, and thread A times every round trip.            *)
(*                                                                         *)
(* A thread's load that finds the value it spins for is one step and its   *)
(* store is another.  The time stamp counter is abstracted to what the     *)
(* samples are about: it advances by one with every answer of thread B, so *)
(* a sample is the number of answers it spans.  2*i is computed as a C     *)
(* int: past IntMax the signed overflow is undefined, and the build may    *)
(* produce the exact value or the wrapped one converted to 64 bits.        *)
(***************************************************************************)
EXTENDS Integers

CONSTANTS Iters,   \* argv[3]
          IntMax,  \* the largest C int
          Shift    \* what the wrapped int, converted to uint64_t, is off by

ASSUME ItersAssumption == Iters \in Nat
ASSUME IntMaxAssumption == IntMax \in Nat
ASSUME ShiftAssumption == Shift \in Nat /\ Shift > 2 * Iters

VARIABLES gen,      \* cell.gen
          pc,       \* where each thread is
          i, j,     \* the loop counters of A and of B
          expect,   \* each thread's local expect
          t0,       \* A's first stamp
          samples,  \* the calloc'ed array
          dumped    \* main has written samples and returned

vars == <<gen, pc, i, j, expect, t0, samples, dumped>>

Threads == {"A", "B"}

\* What (uint64_t)(k) may be for the int expression k.
Cast(k) == IF k <= IntMax THEN {k} ELSE {k, k + Shift}

\* Mutant: i <= ITERS for the loops' condition.
Begin_OneMore(n) == IF n <= Iters THEN "spin" ELSE "done"

\* Whether a thread's loop goes round again.
Begin(n) == IF n < Iters THEN "spin" ELSE "done"

Init == /\ gen = 0 /\ i = 0 /\ j = 0 /\ t0 = 0
        /\ pc = [t \in Threads |-> Begin(0)]
        /\ expect = [t \in Threads |-> IF t = "A" THEN 0 ELSE 1]
        /\ samples = [k \in 0 .. Iters - 1 |-> 0]
        /\ dumped = FALSE

\* A sees its turn and takes the first stamp.
ATurn == /\ pc["A"] = "spin"
         /\ gen = expect["A"]
         /\ t0' = j
         /\ pc' = [pc EXCEPT !["A"] = "store"]
         /\ UNCHANGED <<gen, i, j, expect, samples, dumped>>

AStore == /\ pc["A"] = "store"
          /\ gen' = expect["A"] + 1
          /\ pc' = [pc EXCEPT !["A"] = "reply"]
          /\ UNCHANGED <<i, j, expect, t0, samples, dumped>>

\* A sees the answer, records the sample and begins the next iteration.
Record == /\ samples' = [samples EXCEPT ![i] = j - t0]
          /\ i' = i + 1
          /\ \E e \in Cast(2 * (i + 1)) : expect' = [expect EXCEPT !["A"] = e]
          /\ pc' = [pc EXCEPT !["A"] = Begin(i + 1)]
          /\ UNCHANGED <<gen, j, t0, dumped>>

\* Mutant: A polls for the generation it has just stored.
AReply_OwnStore == pc["A"] = "reply" /\ gen = expect["A"] + 1 /\ Record

AReply == pc["A"] = "reply" /\ gen = expect["A"] + 2 /\ Record

\* Mutant: B waits for nothing.
BTurn_NoWait == /\ pc["B"] = "spin"
                /\ pc' = [pc EXCEPT !["B"] = "store"]
                /\ UNCHANGED <<gen, i, j, expect, t0, samples, dumped>>

BTurn == /\ pc["B"] = "spin"
         /\ gen = expect["B"]
         /\ pc' = [pc EXCEPT !["B"] = "store"]
         /\ UNCHANGED <<gen, i, j, expect, t0, samples, dumped>>

BStore == /\ pc["B"] = "store"
          /\ gen' = expect["B"] + 1
          /\ j' = j + 1
          /\ \E e \in Cast(2 * (j + 1) + 1) : expect' = [expect EXCEPT !["B"] = e]
          /\ pc' = [pc EXCEPT !["B"] = Begin(j + 1)]
          /\ UNCHANGED <<i, t0, samples, dumped>>

\* Mutant: main joins thread B only.
Dump_JoinsBOnly == /\ pc["B"] = "done"
                   /\ ~dumped
                   /\ dumped' = TRUE
                   /\ UNCHANGED <<gen, pc, i, j, expect, t0, samples>>

\* main joins both threads and writes the array.
Dump == /\ \A t \in Threads : pc[t] = "done"
        /\ ~dumped
        /\ dumped' = TRUE
        /\ UNCHANGED <<gen, pc, i, j, expect, t0, samples>>

Next == ATurn \/ AStore \/ AReply \/ BTurn \/ BStore \/ Dump

Spec == Init /\ [][Next]_vars

\* Each thread has a core of its own to spin on, and main only joins.
FairSpec == /\ Spec
            /\ WF_vars(ATurn \/ AStore \/ AReply)
            /\ WF_vars(BTurn \/ BStore)
            /\ WF_vars(Dump)
-----------------------------------------------------------------------------
TypeOK == /\ gen \in Nat
          /\ pc \in [Threads -> {"spin", "store", "reply", "done"}]
          /\ i \in 0 .. Iters /\ j \in 0 .. Iters
          /\ expect \in [Threads -> Nat]
          /\ t0 \in Nat
          /\ samples \in [0 .. Iters - 1 -> Int]
          /\ dumped \in BOOLEAN

(* Line 3: A writes generation g, B waits to see g, then writes g+1.  The  *)
(* loads and stores of the two threads are separate steps, yet no store    *)
(* overwrites a generation its thread has not seen.                        *)
GenerationsAreConsecutive == [][gen' = gen + 1]_gen

(* Lines 3-4, 59-62: main writes the array only when both threads have     *)
(* ended, and it then holds one sample per iteration, each of them exactly *)
(* one round trip: it spans one answer of thread B, though the loops of    *)
(* the threads may be at different iterations and 2*i may overflow.        *)
DumpIsComplete ==
  dumped => /\ i = Iters /\ j = Iters /\ gen = 2 * Iters
            /\ \A k \in DOMAIN samples : samples[k] = 1

(* Lines 59-62: the program ends, with its output written, when both       *)
(* threads are scheduled; only a 2*i that overflowed can keep a thread     *)
(* spinning for a generation nobody writes.                                *)
Ends == <>(dumped \/ \E t \in Threads : expect[t] > 2 * Iters + 1)
=============================================================================
