------------------------------ MODULE MCCapture ------------------------------
(***************************************************************************)
(* Capture for the programs of the repository, with the thresholds of the  *)
(* code; repetitions, and the targets or amplitudes within one, are fewer. *)
(* The readings lie on and between the thresholds.                         *)
(***************************************************************************)
EXTENDS Capture

\* The guards: thermal.py, _common19.py, _common22.py, attacks_extended.py.
Thermal == [abort |-> 68, pause |-> 63, cool |-> 50, timed |-> FALSE]
Guard19 == [abort |-> 68, pause |-> 64, cool |-> 55, timed |-> FALSE]
Guard22 == [abort |-> 65, pause |-> 62, cool |-> 55, timed |-> FALSE]
GuardLenient == [abort |-> 95, pause |-> 88, cool |-> 82, timed |-> TRUE]

Block(n, mayRaise) == [guards |-> n, workers |-> 0, raises |-> mayRaise]
Burst(n, k) == [guards |-> n, workers |-> k, raises |-> FALSE]

\* A guard before each target of a C program, and one before a whole block.
BlockTsc == Block(2, TRUE)
BlockCacheline == Block(2, TRUE)
BlockDram == Block(1, FALSE)
BlockNanosleep == Block(1, FALSE)
BlockNvme == Block(1, TRUE)

SignatureV2 == [reps |-> 2, probes |-> FALSE, waits |-> TRUE,
                salvages |-> TRUE, meta |-> TRUE,
                phases |-> <<BlockTsc, BlockCacheline, BlockDram, BlockNanosleep, BlockNvme>>,
                guard |-> Thermal, target |-> 55]

\* One amplitude of idling and two of three under load, two workers of four.
Jacobian == [reps |-> 2, probes |-> FALSE, waits |-> TRUE,
             salvages |-> TRUE, meta |-> TRUE,
             phases |-> <<Burst(1, 0), Burst(2, 2), Burst(1, 2)>>,
             guard |-> Guard19, target |-> 60]

\* np.bincount of frequencies in Hz asks for as many counters as the largest.
GpuClockJitter == [reps |-> 3, probes |-> FALSE, waits |-> TRUE,
                   salvages |-> TRUE, meta |-> TRUE,
                   phases |-> <<Block(1, TRUE)>>, guard |-> Guard19, target |-> 60]

\* A sensor that came or went since the probe changes the length of a row.
ThermalSpread == [reps |-> 3, probes |-> TRUE, waits |-> TRUE,
                  salvages |-> TRUE, meta |-> TRUE,
                  phases |-> <<Block(1, TRUE)>>, guard |-> Guard19, target |-> 60]

\* hpet_drift; the other programs of Phase 22 differ in what they read.
Phase22 == [reps |-> 3, probes |-> FALSE, waits |-> FALSE,
            salvages |-> FALSE, meta |-> TRUE,
            phases |-> <<Block(1, FALSE)>>, guard |-> Guard22, target |-> 55]

(* collect_paired of classifier.py, as train.main calls it: a guard before *)
(* every eighth read, and the reads up to the next are one repetition.     *)
(* derive_plan raises on a host with one CPU.                              *)
TrainCollect == [reps |-> 3, probes |-> FALSE, waits |-> FALSE,
                 salvages |-> FALSE, meta |-> FALSE,
                 phases |-> <<Block(1, TRUE)>>, guard |-> Thermal, target |-> 55]

\* collect_paired of attacks_extended.py, where it is every sixteenth.
CollectPaired == [reps |-> 3, probes |-> FALSE, waits |-> FALSE,
                  salvages |-> FALSE, meta |-> FALSE,
                  phases |-> <<Block(1, FALSE)>>, guard |-> GuardLenient, target |-> 55]

MCPrograms == {SignatureV2, Jacobian, GpuClockJitter, ThermalSpread, Phase22,
               TrainCollect, CollectPaired}
MCTemps == {0, 50, 52, 55, 59, 60, 62, 63, 64, 65, 67, 68, 82, 85, 88, 90, 95}
=============================================================================
