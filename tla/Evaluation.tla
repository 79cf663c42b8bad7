----------------------------- MODULE Evaluation -----------------------------
(***************************************************************************)
(* The stages of attacks_extended.main (src/protocol/attacks_extended.py): *)
(* collect a library of signatures, train a classifier on it, and report   *)
(* acceptance rates.  Each is run by a process that constructs a NonceSigV2 *)
(* first, so it begins with the life cycle of the key, and the stages meet  *)
(* only in files: <host>_paired_sigs.npz, <host>_t3_best.pt and             *)
(* <host>_training.json.  A process may be killed anywhere; a guard that    *)
(* aborts, a file that is missing and one that does not parse end it too.   *)
(*                                                                          *)
(* Of a training only the best AUROC of its seeds matters, and whether that *)
(* is near chance.                                                          *)
(***************************************************************************)
EXTENDS KeyLifecycle, Sequences

CONSTANTS MaxTrainings,   \* bound: trainings in a behaviour
          NoTraining

ASSUME MaxTrainingsAssumption == MaxTrainings \in Nat

VARIABLES pairs,      \* the library file; KeyLifecycle's lib is its key
          model,      \* <host>_t3_best.pt
          training,   \* <host>_training.json
          report,     \* <host>_attacks.json
          todo,       \* stages that each process has still to run
          stage,      \* where it is in the first of them
          hand,       \* the training whose model is in its memory
          tr,         \* what it read of a training report; decides on tau_cls
          count,      \* trainings so far
          cut         \* history: trainings ended before they were reported

files == <<pairs, model, training, report>>
main == <<todo, stage, hand, tr>>
evalVars == <<vars, files, main, count, cut>>

(* "none" is the -1 that the search for the best seed starts with: no seed  *)
(* had an AUROC, so no state is kept.                                       *)
Auroc == {"none", "chance", "informative"}

Trainings == [n : 1 .. MaxTrainings, best : Auroc]

ASSUME TrainingsAssumption == {Missing, Empty, NoTraining} \cap Trainings = {}

Kept == {t \in Trainings : t.best # "none"}

\* Below 0.60 the veto is off, as it is where the report cannot be read (0.5).
Vetoes(t) == t \in Trainings /\ t.best = "informative"

Modes == {<<"collect">>, <<"train">>, <<"attack">>, <<"collect", "train", "attack">>}

EvalInit == /\ Init
            /\ pairs = Missing /\ model = Missing /\ training = Missing /\ report = Missing
            /\ todo = [p \in Procs |-> <<>>]
            /\ stage = [p \in Procs |-> "next"]
            /\ hand = [p \in Procs |-> NoTraining]
            /\ tr = [p \in Procs |-> NoTraining]
            /\ count = 0 /\ cut = {}

Enter(p, s) == stage' = [stage EXCEPT ![p] = s]

\* The process has its key and is about to run the stage s.
Runs(p, s) == Ready(p) /\ stage[p] = "next" /\ todo[p] # <<>> /\ Head(todo[p]) = s

Done(p) == /\ Enter(p, "next")
           /\ todo' = [todo EXCEPT ![p] = Tail(@)]

StartMain(p) == /\ Start(p)
                /\ \E m \in Modes : todo' = [todo EXCEPT ![p] = IF p \in V2 THEN m ELSE <<>>]
                /\ UNCHANGED <<files, stage, hand, tr, count, cut>>

Construct(p) == /\ \/ Check(p) \/ Load(p) \/ Measure(p) \/ Open(p) \/ Dump(p)
                   \/ OpenKey(p) \/ WriteKey(p) \/ SaveFails(p)
                /\ UNCHANGED <<files, main, count, cut>>

\* The reads are done, and np.savez_compressed opens its file.
CollectPaired(p) == /\ Runs(p, "collect")
                    /\ pairs' = Empty
                    /\ Enter(p, "pairs")
                    /\ UNCHANGED <<vars, model, training, report, todo, hand, tr, count, cut>>

SavePairs(p) == /\ stage[p] = "pairs"
                /\ Collect(p)
                /\ pairs' = "whole"
                /\ Done(p)
                /\ UNCHANGED <<model, training, report, hand, tr, count, cut>>

\* The state in its memory is that of the seed with the best AUROC, if any.
Train(p) == /\ Runs(p, "train") /\ pairs = "whole" /\ count < MaxTrainings
            /\ count' = count + 1
            /\ \E t \in Trainings : t.n = count + 1 /\ hand' = [hand EXCEPT ![p] = t]
            /\ Enter(p, "trained")
            /\ UNCHANGED <<vars, files, todo, tr, cut>>

\* A training without a state leaves the model of an earlier one in place.
SaveModel(p) ==
  /\ \/ /\ stage[p] = "trained" /\ hand[p] \in Kept
        /\ model' = Empty /\ Enter(p, "model")
     \/ /\ stage[p] = "trained" /\ hand[p] \notin Kept
        /\ UNCHANGED model /\ Enter(p, "modelled")
     \/ /\ stage[p] = "model"
        /\ model' = hand[p] /\ Enter(p, "modelled")
  /\ UNCHANGED <<vars, pairs, training, report, todo, hand, tr, count, cut>>

\* Mutant: the report is saved before the model.
SaveTraining_First(p) == /\ \/ /\ stage[p] = "trained" /\ training # hand[p]
                               /\ training' = hand[p]
                               /\ UNCHANGED <<stage, todo>>
                            \/ /\ stage[p] = "modelled"
                               /\ Done(p)
                               /\ UNCHANGED training
                         /\ UNCHANGED <<vars, pairs, model, report, hand, tr, count, cut>>

SaveTraining(p) == /\ \/ /\ stage[p] = "modelled"
                         /\ training' = Empty
                         /\ Enter(p, "training")
                         /\ UNCHANGED todo
                      \/ /\ stage[p] = "training"
                         /\ training' = hand[p]
                         /\ Done(p)
                   /\ UNCHANGED <<vars, pairs, model, report, hand, tr, count, cut>>

\* The model and the library, both whole or the process ends.
LoadModel(p) == /\ Runs(p, "attack") /\ model \in Trainings /\ pairs = "whole"
                /\ hand' = [hand EXCEPT ![p] = model]
                /\ Enter(p, "loaded")
                /\ UNCHANGED <<vars, files, todo, tr, count, cut>>

\* The report of a training, which need not be the one the model is from.
Calibrate(p) == /\ stage[p] = "loaded"
                /\ tr' = [tr EXCEPT ![p] = IF training \in Trainings THEN training ELSE NoTraining]
                /\ Enter(p, "calibrated")
                /\ UNCHANGED <<vars, files, todo, hand, count, cut>>

(* The rates are taken over fresh and recorded signatures under the key in *)
(* memory, and reported with the threshold and bands used.                 *)
Attack(p) == /\ stage[p] = "calibrated"
             /\ report' = [model |-> hand[p], tr |-> tr[p]]
             /\ Done(p)
             /\ UNCHANGED <<vars, pairs, model, training, hand, tr, count, cut>>

Between == {"trained", "model", "modelled", "training"}

\* The end of a process, whatever the reason, clears its memory.
ExitMain(p) == /\ Exit(p)
               /\ Enter(p, "next")
               /\ todo' = [todo EXCEPT ![p] = <<>>]
               /\ hand' = [hand EXCEPT ![p] = NoTraining]
               /\ tr' = [tr EXCEPT ![p] = NoTraining]
               /\ cut' = IF stage[p] \in Between THEN cut \cup {hand[p].n} ELSE cut
               /\ UNCHANGED <<files, count>>

EvalNext == \E p \in Procs :
              \/ StartMain(p) \/ Construct(p) \/ CollectPaired(p) \/ SavePairs(p)
              \/ Train(p) \/ SaveModel(p) \/ SaveTraining(p)
              \/ LoadModel(p) \/ Calibrate(p) \/ Attack(p) \/ ExitMain(p)

EvalSpec == EvalInit /\ [][EvalNext]_evalVars
-----------------------------------------------------------------------------
(* Type invariant: that of the key's life cycle, and the files and memory  *)
(* of the stages.                                                          *)
EvalTypeOK ==
  /\ TypeOK
  /\ pairs \in {Missing, Empty, "whole"}
  /\ model \in Kept \cup {Missing, Empty}
  /\ training \in Trainings \cup {Missing, Empty}
  /\ report = Missing \/ report \in [model : Kept, tr : Trainings \cup {NoTraining}]
  /\ \A p \in Procs : \E m \in Modes : \E i \in 1 .. Len(m) + 1 : todo[p] = SubSeq(m, i, Len(m))
  /\ stage \in [Procs -> Between \cup {"next", "pairs", "loaded", "calibrated"}]
  /\ hand \in [Procs -> Trainings \cup {NoTraining}]
  /\ tr \in [Procs -> Trainings \cup {NoTraining}]
  /\ count \in 0 .. MaxTrainings /\ cut \subseteq 1 .. MaxTrainings

\* t is the training that m is from, or an earlier one and m's was cut short.
Earned(t, m) == t = m \/ (t.n < m.n /\ m.n \in cut)

(* A classifier that vetoes in a report has earned it: the AUROC above     *)
(* chance is that of its own training or, if that was killed before its    *)
(* report was written, of an earlier one.  It is never that of a later     *)
(* training, although one may be reported beside it (attacks_extended.py   *)
(* lines 205-211): such a training kept no model, and its best AUROC reads *)
(* as chance.                                                              *)
VetoIsEarned ==
  report # Missing /\ Vetoes(report.tr) => Earned(report.tr, report.model)
=============================================================================
