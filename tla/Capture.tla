------------------------------- MODULE Capture -------------------------------
(***************************************************************************)
(* A capture program of src/signature/: repetitions of a measurement under *)
(* a thermal guard, rows kept in memory, the rows written at the end, and  *)
(* what is told of them after that.  A program may be killed between any   *)
(* two steps; each of its files is written in one.                         *)
(*                                                                         *)
(* Programs differ in what a Program record holds: signature_v2.main and   *)
(* the Phase 19 run() functions wait for the chip to cool before each      *)
(* repetition and keep the finished rows when the guard aborts; those of   *)
(* Phase 22 and collect_paired do neither.  thermal_spread measures once   *)
(* before its loop, and jacobian_dynamics in phases, under the load of     *)
(* worker processes of its own.                                            *)
(*                                                                         *)
(* What is measured is abstracted to whether a row was measured; time to   *)
(* the number of polls.  The sensor gives any reading of Temps at any      *)
(* time: the chip heats and cools, and a failed read counts as 0 degrees.  *)
(***************************************************************************)
EXTENDS Integers, Sequences, FiniteSets

CONSTANTS Programs,   \* the capture programs
          Temps,      \* readings of the sensor, 0 among them
          MaxPolls,   \* polls of wait_cool, and of a guard with a timeout
          NoFile

(* A program measures at least once, and every phase has a first guard. *)
ASSUME ProgramsAssumption ==
  \A p \in Programs :
    /\ p \in [reps : Nat \ {0}, probes : BOOLEAN, waits : BOOLEAN, salvages : BOOLEAN,
              meta : BOOLEAN,
              phases : Seq([guards : Nat \ {0}, workers : Nat, raises : BOOLEAN]),
              guard : [abort : Int, pause : Int, cool : Int, timed : BOOLEAN],
              target : Int]
    /\ p.phases # <<>>

ASSUME MaxPollsAssumption == MaxPolls \in Nat

VARIABLES prog,       \* the program that runs
          pc,
          rep, phase, sample,   \* its loop counters; a probe is rep 0
          polls,
          vecs,       \* the rows, allocated before they are measured
          seconds,    \* finished repetitions, meta['rep_seconds'] if there is one
          live,       \* worker processes, named <<rep, phase, number>>
          stop,       \* the phases <<rep, phase>> whose stop flag is set
          signalled,  \* workers that terminate() was called on
          joined,     \* workers of the phase that have been joined
          aborted,    \* a SystemExit was raised
          file,       \* the rows this run has saved, the npz
          meta        \* how many durations it has saved, in the json beside it

vars == <<prog, pc, rep, phase, sample, polls, vecs, seconds, live, stop,
          signalled, joined, aborted, file, meta>>

loop == <<prog, rep, phase, sample, vecs, seconds>>
load == <<live, stop, signalled, joined>>
saved == <<file, meta>>

Rows == {"unset", "measured"}

Here == <<rep, phase>>

\* The worker processes of a phase.
Workers(r, ph) == {<<r, ph, k>> : k \in 1 .. prog.phases[ph].workers}

\* A repetition begins with wait_cool, if the program has it.
Begin(p) == IF p.waits THEN "wait" ELSE "spawn"

Init == /\ prog \in Programs
        /\ rep = IF prog.probes THEN 0 ELSE 1
        /\ pc = IF prog.probes THEN "spawn" ELSE Begin(prog)
        /\ phase = 1 /\ sample = 0 /\ polls = 0
        /\ vecs = [r \in 1 .. prog.reps |-> "unset"] /\ seconds = 0
        /\ live = {} /\ stop = {} /\ signalled = {} /\ joined = 0
        /\ aborted = FALSE
        /\ file = NoFile /\ meta = NoFile

\* Mutant: the clock starts over when the time is up.
WaitCool_StartsOver == /\ pc = "wait"
                       /\ \E t \in Temps :
                            LET return == t < prog.target
                            IN  /\ polls' = IF return \/ polls = MaxPolls THEN 0 ELSE polls + 1
                                /\ pc' = IF return THEN "spawn" ELSE "wait"
                       /\ UNCHANGED <<loop, load, aborted, saved>>

\* Returns below the target, or above it when the time is over.
WaitCool == /\ pc = "wait"
            /\ \E t \in Temps :
                 LET return == t < prog.target \/ polls = MaxPolls
                 IN  /\ polls' = IF return THEN 0 ELSE polls + 1
                     /\ pc' = IF return THEN "spawn" ELSE "wait"
            /\ UNCHANGED <<loop, load, aborted, saved>>

\* Mutant: one stop flag for all phases.
Spawn_OneFlag == /\ pc = "spawn"
                 /\ live' = live \cup Workers(rep, phase)
                 /\ stop' = IF stop = {} THEN {} ELSE stop \cup {Here}
                 /\ sample' = 0 /\ joined' = 0
                 /\ pc' = "guard"
                 /\ UNCHANGED <<prog, rep, phase, polls, vecs, seconds, signalled,
                                aborted, saved>>

\* A new flag and the workers of the phase.
Spawn == /\ pc = "spawn"
         /\ live' = live \cup Workers(rep, phase)
         /\ sample' = 0 /\ joined' = 0
         /\ pc' = "guard"
         /\ UNCHANGED <<prog, rep, phase, polls, vecs, seconds, stop, signalled,
                        aborted, saved>>

\* Mutant: one sample more.
Sample_OneMore == /\ sample' = sample + 1
                  /\ pc' = IF sample < prog.phases[phase].guards THEN "guard" ELSE "stop"
                  /\ polls' = 0
                  /\ UNCHANGED <<prog, rep, phase, vecs, seconds, load, aborted, saved>>

\* Past the guard the sample is taken.
Sample == /\ sample' = sample + 1
          /\ pc' = IF sample + 1 < prog.phases[phase].guards THEN "guard" ELSE "stop"
          /\ polls' = 0
          /\ UNCHANGED <<prog, rep, phase, vecs, seconds, load, aborted, saved>>

\* Mutant: the rows not reached are saved as well.
Abort_KeepsAll == /\ aborted' = TRUE
                  /\ pc' = IF prog.salvages THEN "save" ELSE "exit"
                  /\ UNCHANGED <<loop, polls, load, saved>>

(* The SystemExit leaves the measurement where it stands; a run() that     *)
(* catches it, around a repetition and not around the probe, keeps the     *)
(* rows of the finished repetitions.                                       *)
Abort == /\ aborted' = TRUE
         /\ IF prog.salvages /\ rep > 0
            THEN /\ vecs' = [r \in 1 .. rep - 1 |-> vecs[r]]
                 /\ pc' = "save"
            ELSE pc' = "exit" /\ UNCHANGED vecs
         /\ UNCHANGED <<prog, rep, phase, sample, seconds, polls, load, saved>>

(* A C program that exits with an error, a file that cannot be opened, an  *)
(* array too large, a row of another length than the probe's: no           *)
(* SystemExit, and no run() catches it.                                    *)
Raise == /\ prog.phases[phase].raises /\ rep > 0
         /\ pc' = "exit"
         /\ polls' = 0
         /\ UNCHANGED <<loop, load, aborted, saved>>

Guard == /\ pc = "guard"
         /\ \E t \in Temps :
              \/ t >= prog.guard.abort /\ Abort
              \/ /\ t >= prog.guard.pause /\ t < prog.guard.abort
                 /\ pc' = "cool"
                 /\ UNCHANGED <<loop, polls, load, aborted, saved>>
              \/ t < prog.guard.pause /\ (Sample \/ Raise)

(* The guard sleeps and polls, for as long as it takes; that of            *)
(* attacks_extended gives up when its time is over, however warm it is.    *)
Cool == /\ pc = "cool"
        /\ \E t \in Temps :
             \/ t <= prog.guard.cool /\ (Sample \/ Raise)
             \/ t > prog.guard.cool /\ ~prog.guard.timed /\ UNCHANGED vars
             \/ /\ t > prog.guard.cool /\ prog.guard.timed
                /\ IF polls < MaxPolls
                   THEN /\ polls' = polls + 1
                        /\ UNCHANGED <<loop, pc, load, aborted, saved>>
                   ELSE Sample \/ Raise

Stop == /\ pc = "stop"
        /\ stop' = stop \cup {Here}
        /\ pc' = "join"
        /\ UNCHANGED <<loop, polls, live, signalled, joined, aborted, saved>>

(* join(timeout=1.0) of the next worker: it has ended, or it is slow and   *)
(* terminated.                                                             *)
Join == /\ pc = "join" /\ joined < prog.phases[phase].workers
        /\ joined' = joined + 1
        /\ LET w == <<rep, phase, joined + 1>>
           IN  signalled' = IF w \in live THEN signalled \cup {w} ELSE signalled
        /\ UNCHANGED <<loop, pc, polls, live, stop, aborted, saved>>

(* The next phase, or else the row is complete and the next repetition     *)
(* begins.  What the probe measured only gave the length of a row.         *)
Joined == /\ pc = "join" /\ joined = prog.phases[phase].workers
          /\ IF phase < Len(prog.phases)
             THEN /\ phase' = phase + 1
                  /\ pc' = "spawn"
                  /\ UNCHANGED <<rep, vecs, seconds>>
             ELSE /\ IF rep > 0
                     THEN /\ vecs' = [vecs EXCEPT ![rep] = "measured"]
                          /\ seconds' = seconds + 1
                     ELSE UNCHANGED <<vecs, seconds>>
                  /\ rep' = rep + 1
                  /\ phase' = 1
                  /\ pc' = IF rep < prog.reps THEN Begin(prog) ELSE "save"
          /\ UNCHANGED <<prog, sample, polls, load, aborted, saved>>

\* The rows are saved; some were never measured if they are not cut.
Save == /\ pc = "save"
        /\ file' = vecs
        /\ pc' = IF prog.meta THEN "meta" ELSE "exit"
        /\ UNCHANGED <<loop, polls, load, aborted, meta>>

\* Beside them, in most programs, a report with the durations.
SaveMeta == /\ pc = "meta"
            /\ meta' = seconds
            /\ pc' = "exit"
            /\ UNCHANGED <<loop, polls, load, aborted, file>>

\* The interpreter joins its child processes before it ends.
Exit == /\ pc = "exit" /\ live = {}
        /\ pc' = "ended"
        /\ UNCHANGED <<loop, polls, load, aborted, saved>>

\* Killed, a program joins nothing and leaves its files as they are.
Killed == /\ pc # "ended"
          /\ pc' = "ended"
          /\ UNCHANGED <<loop, polls, load, aborted, saved>>

\* A worker ends when it sees its flag, or by the signal.
WorkerEnds(w) == /\ w \in live
                 /\ <<w[1], w[2]>> \in stop \/ w \in signalled
                 /\ live' = live \ {w}
                 /\ UNCHANGED <<loop, pc, polls, stop, signalled, joined, aborted, saved>>

Main == \/ WaitCool \/ Spawn \/ Guard \/ Stop \/ Join \/ Joined \/ Save \/ SaveMeta \/ Exit
        \/ prog.guard.timed /\ Cool

Next == Main \/ Cool \/ Killed \/ \E w \in live : WorkerEnds(w)

Spec == Init /\ [][Next]_vars

AllWorkers ==
  UNION {UNION {{<<r, ph, k>> : r \in 0 .. p.reps, k \in 1 .. p.phases[ph].workers} :
                  ph \in DOMAIN p.phases} : p \in Programs}

(* The program and each of its worker processes are scheduled.  Nothing is *)
(* assumed of the sensor: a chip that stays warm keeps Cool waiting, but   *)
(* for the guard that has a timeout.                                       *)
FairSpec == Spec /\ WF_vars(Main) /\ \A w \in AllWorkers : WF_vars(WorkerEnds(w))
-----------------------------------------------------------------------------
TypeOK == /\ prog \in Programs
          /\ pc \in {"wait", "spawn", "guard", "cool", "stop", "join", "save",
                     "meta", "exit", "ended"}
          /\ rep \in 0 .. prog.reps + 1
          /\ phase \in DOMAIN prog.phases
          /\ sample \in Nat
          /\ pc \in {"guard", "cool"} => sample < prog.phases[phase].guards
          /\ polls \in 0 .. MaxPolls
          /\ vecs \in Seq(Rows) /\ seconds \in 0 .. prog.reps
          /\ live \subseteq AllWorkers /\ signalled \subseteq AllWorkers
          /\ stop \subseteq (0 .. prog.reps) \X DOMAIN prog.phases
          /\ joined \in Nat /\ (pc = "join" => joined <= prog.phases[phase].workers)
          /\ aborted \in BOOLEAN
          /\ file = NoFile \/ file \in Seq(Rows)
          /\ meta \in Nat \cup {NoFile}

(* Every row of a saved file was measured to its end, and rows are missing *)
(* only after an abort: signature_v2.main and the Phase 19 run() cut vecs  *)
(* to the finished repetitions, and a file of the others holds all rows or *)
(* does not exist.  The report beside it has one duration for each row,    *)
(* although the two are kept in step by different lines; a kill may leave  *)
(* the rows without one, or with that of an earlier run.                   *)
SavedRowsWereMeasured ==
  /\ file # NoFile => /\ \A r \in DOMAIN file : file[r] = "measured"
                      /\ ~aborted => Len(file) = prog.reps
  /\ meta # NoFile => meta = Len(file)

(* A sample is taken, and the guard passes, only while all the workers of  *)
(* the phase run the load that _sample_phase is to measure, and no worker  *)
(* of an earlier phase runs that was not told to stop.                     *)
LoadIsOn == pc \in {"guard", "cool"} =>
              /\ Workers(rep, phase) \subseteq live
              /\ \A w \in live : <<w[1], w[2]>> \in stop \cup {Here}

(* A capture ends, whatever the sensor reads: wait_cool and the guard of   *)
(* attacks_extended give up after their timeouts.  The two ways not to end *)
(* are the wait for the chip to cool in the other guards, which have none, *)
(* and an abort under the program's own load.                              *)
Ends == \/ <>(pc = "ended")
        \/ <>[](pc = "cool" /\ ~prog.guard.timed)
        \/ <>[](aborted /\ live # {})
=============================================================================
