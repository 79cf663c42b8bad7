-------------------------- MODULE EvaluationProofs --------------------------
(***************************************************************************)
(* Proofs about KeyLifecycle and about Evaluation, which extends it, for   *)
(* any number of processes of either class, any readings, any key          *)
(* derivation and any number of crashes, when processes run one after      *)
(* another.                                                                *)
(***************************************************************************)
EXTENDS Evaluation, SequenceTheorems, TLAPS

OneAtATime == \A p, q \in Procs : p # q => At(p, "down") \/ At(q, "down")

(* What the files hold while a process is at each step. *)
FilesFit ==
  \A p \in Procs :
    /\ pc[p] \in {"open", "dump"} => mu[p] \in Calibrations
    /\ At(p, "dump") => cal = Empty
    /\ pc[p] \in {"save", "write", "resave", "rewrite"} => p \in V2
    /\ pc[p] \in {"save", "write", "resave", "rewrite", "ready"} /\ p \in V2
         => Whole /\ K[p] = Key(cal)
    /\ Ready(p) => kfile = K[p]

IInv == TypeOK /\ OneAtATime /\ FilesFit

(* As long as save_kchip does not fail, calibration starts only when there *)
(* is no complete file, and the library's key is that of the file.         *)
LibraryFits ==
  faults = 0 =>
    /\ \A p \in Procs : pc[p] \in {"measure", "open", "dump"} => ~Whole
    /\ lib # Missing => Whole /\ lib = Key(cal)

-----------------------------------------------------------------------------
(* The key of a reading is one of the keys. *)
LEMMA KeyType == \A c \in Calibrations : Key(c) \in Keys
BY DEF Keys

(* A step of p alone: the other processes stay where they are. *)
LEMMA StepKeeps ==
  ASSUME IInv, Exclusive, NEW p \in Procs,
         NEW step \in Steps, pc' = [pc EXCEPT ![p] = step],
         At(p, "down") => \A q \in Procs : At(q, "down")
  PROVE  /\ OneAtATime' /\ pc'[p] = step
         /\ \A q \in Procs : q # p => pc'[q] = "down"
<1>1. /\ pc'[p] = step /\ \A q \in Procs : q # p => pc'[q] = pc[q]
  BY DEF IInv, TypeOK
<1>2. \A q \in Procs : q # p => pc[q] = "down"
  BY DEF IInv, OneAtATime, At
<1> QED BY <1>1, <1>2 DEF OneAtATime, At

(* Every step keeps the inductive invariant. *)
LEMMA InductiveStep ==
  ASSUME Exclusive, IInv, [Next]_vars
  PROVE  IInv'
<1> USE DEF Go, At
<1>1. ASSUME NEW p \in Procs, Start(p) PROVE IInv'
  <2>1. TypeOK'
    BY <1>1 DEF Start, IInv, TypeOK, Steps
  <2>2. OneAtATime' /\ pc'[p] = "check" /\ \A q \in Procs : q # p => pc'[q] = "down"
    BY <1>1, StepKeeps DEF Start, Steps
  <2>3. FilesFit'
    BY <2>2 DEF FilesFit, Ready
  <2> QED BY <2>1, <2>2, <2>3 DEF IInv
<1>2. ASSUME NEW p \in Procs, Check(p) PROVE IInv'
  <2>1. TypeOK'
    BY <1>2 DEF Check, IInv, TypeOK, Steps
  <2>2. OneAtATime' /\ pc'[p] \in {"measure", "load"}
        /\ \A q \in Procs : q # p => pc'[q] = "down"
    BY <1>2, StepKeeps DEF Check, Steps
  <2>3. FilesFit'
    BY <2>2 DEF FilesFit, Ready
  <2> QED BY <2>1, <2>2, <2>3 DEF IInv
<1>3. ASSUME NEW p \in Procs, Load(p) PROVE IInv'
  <2>1. CASE Whole
    <3>1. /\ mu' = [mu EXCEPT ![p] = cal] /\ cal' = cal
          /\ K' = [K EXCEPT ![p] = IF p \in V2 THEN Key(cal) ELSE @]
          /\ pc' = [pc EXCEPT ![p] = IF p \in V2 THEN "resave" ELSE "ready"]
          /\ UNCHANGED <<cal, kfile, lib, faults>> /\ pc[p] = "load"
      BY <1>3, <2>1 DEF Load
    <3>2. TypeOK'
      BY <2>1, <3>1, KeyType DEF IInv, TypeOK, Steps, Whole
    <3>3. OneAtATime' /\ pc'[p] = (IF p \in V2 THEN "resave" ELSE "ready")
          /\ \A q \in Procs : q # p => pc'[q] = "down"
      BY <3>1, StepKeeps DEF Steps
    <3>4. FilesFit'
      BY <2>1, <3>1, <3>3 DEF FilesFit, Ready, Whole, IInv, TypeOK
    <3> QED BY <3>2, <3>3, <3>4 DEF IInv
  <2>2. CASE ~Whole
    <3>1. /\ pc' = [pc EXCEPT ![p] = "measure"] /\ pc[p] = "load"
          /\ UNCHANGED <<cal, kfile, lib, faults, mu, K>>
      BY <1>3, <2>2 DEF Load
    <3>2. TypeOK'
      BY <3>1 DEF IInv, TypeOK, Steps
    <3>3. OneAtATime' /\ pc'[p] = "measure"
          /\ \A q \in Procs : q # p => pc'[q] = "down"
      BY <3>1, StepKeeps DEF Steps
    <3>4. FilesFit'
      BY <3>3 DEF FilesFit, Ready
    <3> QED BY <3>2, <3>3, <3>4 DEF IInv
  <2> QED BY <2>1, <2>2
<1>4. ASSUME NEW p \in Procs, Measure(p) PROVE IInv'
  <2>1. PICK r \in Readings(p) : mu' = [mu EXCEPT ![p] = r]
    BY <1>4 DEF Measure
  <2>2. r \in Calibrations
    BY DEF Calibrations
  <2>3. TypeOK'
    BY <1>4, <2>1, <2>2 DEF Measure, IInv, TypeOK, Steps
  <2>4. OneAtATime' /\ pc'[p] = "open" /\ \A q \in Procs : q # p => pc'[q] = "down"
    BY <1>4, StepKeeps DEF Measure, Steps
  <2>5. FilesFit'
    BY <1>4, <2>1, <2>2, <2>4 DEF FilesFit, Ready, Measure, IInv, TypeOK
  <2> QED BY <2>3, <2>4, <2>5 DEF IInv
<1>5. ASSUME NEW p \in Procs, Open(p) PROVE IInv'
  <2>1. TypeOK'
    BY <1>5 DEF Open, IInv, TypeOK, Steps
  <2>2. OneAtATime' /\ pc'[p] = "dump" /\ \A q \in Procs : q # p => pc'[q] = "down"
    BY <1>5, StepKeeps DEF Open, Steps
  <2>3. FilesFit'
    BY <1>5, <2>2 DEF FilesFit, Ready, Open, IInv
  <2> QED BY <2>1, <2>2, <2>3 DEF IInv
<1>6. ASSUME NEW p \in Procs, Dump(p) PROVE IInv'
  <2>1. /\ cal = Empty /\ mu[p] \in Calibrations /\ pc[p] = "dump"
    BY <1>6 DEF Dump, IInv, FilesFit
  <2>2. /\ cal' = mu[p] /\ UNCHANGED <<kfile, lib, mu, faults>>
        /\ K' = [K EXCEPT ![p] = IF p \in V2 THEN Key(mu[p]) ELSE @]
        /\ pc' = [pc EXCEPT ![p] = IF p \in V2 THEN "save" ELSE "ready"]
    BY <1>6, <2>1 DEF Dump
  <2>3. TypeOK'
    BY <2>1, <2>2, KeyType DEF IInv, TypeOK, Steps
  <2>4. OneAtATime' /\ pc'[p] = (IF p \in V2 THEN "save" ELSE "ready")
        /\ \A q \in Procs : q # p => pc'[q] = "down"
    BY <2>1, <2>2, StepKeeps DEF Steps
  <2>5. FilesFit'
    BY <2>1, <2>2, <2>4 DEF FilesFit, Ready, Whole, IInv, TypeOK
  <2> QED BY <2>3, <2>4, <2>5 DEF IInv
<1>7. ASSUME NEW p \in Procs, OpenKey(p) PROVE IInv'
  <2>1. TypeOK'
    BY <1>7 DEF OpenKey, IInv, TypeOK, Steps
  <2>2. OneAtATime' /\ pc'[p] \in {"write", "rewrite"}
        /\ \A q \in Procs : q # p => pc'[q] = "down"
    BY <1>7, StepKeeps DEF OpenKey, Steps
  <2>3. FilesFit'
    BY <1>7, <2>2 DEF FilesFit, Ready, OpenKey, IInv, Whole
  <2> QED BY <2>1, <2>2, <2>3 DEF IInv
<1>8. ASSUME NEW p \in Procs, WriteKey(p) PROVE IInv'
  <2>1. p \in V2 /\ Whole /\ K[p] = Key(cal)
    BY <1>8 DEF WriteKey, IInv, FilesFit
  <2>2. TypeOK'
    BY <1>8, <2>1, KeyType DEF WriteKey, IInv, TypeOK, Steps, Whole
  <2>3. OneAtATime' /\ pc'[p] = "ready" /\ \A q \in Procs : q # p => pc'[q] = "down"
    BY <1>8, StepKeeps DEF WriteKey, Steps
  <2>4. FilesFit'
    BY <1>8, <2>1, <2>3 DEF FilesFit, Ready, WriteKey, Whole
  <2> QED BY <2>2, <2>3, <2>4 DEF IInv
<1>9. ASSUME NEW p \in Procs, SaveFails(p) PROVE IInv'
  <2>1. TypeOK'
    BY <1>9, ExclusiveAssumption DEF SaveFails, IInv, TypeOK, Steps
  <2>2. OneAtATime' /\ pc'[p] \in {"down", "measure"}
        /\ \A q \in Procs : q # p => pc'[q] = "down"
    BY <1>9, StepKeeps DEF SaveFails, Steps
  <2>3. FilesFit'
    BY <2>2 DEF FilesFit, Ready
  <2> QED BY <2>1, <2>2, <2>3 DEF IInv
<1>10. ASSUME NEW p \in Procs, Collect(p) PROVE IInv'
  <2>1. Whole /\ K[p] = Key(cal)
    BY <1>10 DEF Collect, IInv, FilesFit
  <2>2. TypeOK'
    BY <1>10, <2>1, KeyType DEF Collect, IInv, TypeOK, Whole
  <2>3. OneAtATime' /\ FilesFit'
    BY <1>10 DEF Collect, IInv, OneAtATime, FilesFit, Ready, Whole
  <2> QED BY <2>2, <2>3 DEF IInv
<1>11. ASSUME NEW p \in Procs, Exit(p) PROVE IInv'
  <2>1. TypeOK'
    BY <1>11 DEF Exit, IInv, TypeOK, Steps
  <2>2. OneAtATime' /\ pc'[p] = "down" /\ \A q \in Procs : q # p => pc'[q] = "down"
    BY <1>11, StepKeeps DEF Exit, Steps
  <2>3. FilesFit'
    BY <2>2 DEF FilesFit, Ready
  <2> QED BY <2>1, <2>2, <2>3 DEF IInv
<1>12. CASE UNCHANGED vars
  BY <1>12 DEF vars, IInv, TypeOK, OneAtATime, FilesFit, Ready, Whole
<1> QED BY <1>1, <1>2, <1>3, <1>4, <1>5, <1>6, <1>7, <1>8, <1>9, <1>10, <1>11, <1>12
        DEF Next

LEMMA InitHolds == Init => IInv /\ LibraryFits
BY FilesAssumption, ExclusiveAssumption
   DEF Init, IInv, TypeOK, Steps, OneAtATime, FilesFit, LibraryFits, Ready, At, Whole

(* The inductive invariant holds in every reachable state. *)
THEOREM Invariance == ASSUME Exclusive PROVE Spec => []IInv
<1>1. IInv /\ [Next]_vars => IInv'
  BY InductiveStep
<1> QED BY <1>1, InitHolds, PTL DEF Spec

(* Wherever processes are killed and whenever saving fails, the key in     *)
(* service is the one the files give the next process.                     *)
THEOREM KeyOnDisk == ASSUME Exclusive PROVE Spec => []ReadyKeyIsOnDisk
<1>1. IInv => ReadyKeyIsOnDisk
  BY DEF IInv, FilesFit, ReadyKeyIsOnDisk, Ready, At
<1> QED BY <1>1, Invariance, PTL

(* Only Open and the steps at "dump" write the calibration file, and they  *)
(* come after a check or a load that found no complete one.                *)
LEMMA LibraryStep ==
  ASSUME Exclusive, IInv, LibraryFits, [Next]_vars
  PROVE  LibraryFits' /\ [Whole /\ faults = 0 => cal' = cal]_cal
<1> USE DEF Go, At
<1>1. ASSUME NEW p \in Procs,
             Start(p) \/ Check(p) \/ Measure(p) \/ OpenKey(p) \/ WriteKey(p)
      PROVE  LibraryFits' /\ cal' = cal
  <2>1. /\ UNCHANGED <<cal, lib, faults>> /\ pc \in [Procs -> Steps]
        /\ \/ pc'[p] \notin {"measure", "open", "dump"}
           \/ pc'[p] = "measure" /\ cal = Missing
           \/ pc'[p] = "open" /\ pc[p] = "measure"
        /\ \A q \in Procs : q # p => pc'[q] = pc[q]
    BY <1>1 DEF Start, Check, Measure, OpenKey, WriteKey, IInv, TypeOK
  <2>2. Missing \notin Calibrations
    BY FilesAssumption
  <2>3. Whole' = Whole
    BY <2>1 DEF Whole
  <2> QED BY <2>1, <2>2, <2>3 DEF LibraryFits, Whole
<1>2. ASSUME NEW p \in Procs, Load(p) PROVE LibraryFits' /\ cal' = cal
  <2>1. /\ UNCHANGED <<cal, lib, faults>> /\ pc \in [Procs -> Steps]
        /\ pc'[p] \in {"measure", "open", "dump"} => ~Whole
        /\ \A q \in Procs : q # p => pc'[q] = pc[q]
    BY <1>2 DEF Load, IInv, TypeOK
  <2>2. Whole' = Whole
    BY <2>1 DEF Whole
  <2> QED BY <2>1, <2>2 DEF LibraryFits
<1>3. ASSUME NEW p \in Procs, Open(p)
      PROVE  LibraryFits' /\ (faults = 0 => ~Whole)
  <2>1. /\ cal' = Empty /\ UNCHANGED <<lib, faults>> /\ pc[p] = "open"
    BY <1>3 DEF Open
  <2>2. ~Whole'
    BY <2>1, FilesAssumption DEF Whole
  <2> QED BY <2>1, <2>2 DEF LibraryFits
<1>4. ASSUME NEW p \in Procs, Dump(p)
      PROVE  LibraryFits' /\ (faults = 0 => ~Whole)
  <2>1. UNCHANGED <<lib, faults>> /\ pc[p] = "dump"
    BY <1>4 DEF Dump
  <2>2. pc'[p] \in {"save", "ready"} /\ \A q \in Procs : q # p => pc'[q] = "down"
    BY <1>4, StepKeeps DEF Dump, Steps
  <2> QED BY <2>1, <2>2 DEF LibraryFits
<1>5. ASSUME NEW p \in Procs, SaveFails(p) PROVE LibraryFits' /\ cal' = cal
  <2>1. faults' # 0
    BY <1>5, ExclusiveAssumption DEF SaveFails, IInv, TypeOK
  <2> QED BY <1>5, <2>1 DEF LibraryFits, SaveFails
<1>6. ASSUME NEW p \in Procs, Collect(p) PROVE LibraryFits' /\ cal' = cal
  <2>1. Whole /\ K[p] = Key(cal)
    BY <1>6 DEF Collect, IInv, FilesFit
  <2> QED BY <1>6, <2>1 DEF LibraryFits, Collect, Whole
<1>7. ASSUME NEW p \in Procs, Exit(p)
      PROVE  LibraryFits' /\ (faults = 0 /\ Whole => cal' = cal)
  <2>1. UNCHANGED <<lib, faults>> /\ (faults = 0 /\ Whole => cal' = cal)
    BY <1>7 DEF Exit, LibraryFits
  <2>2. \A q \in Procs : pc'[q] = "down"
    BY <1>7, StepKeeps DEF Exit, Steps
  <2> QED BY <2>1, <2>2 DEF LibraryFits, Whole
<1>8. CASE UNCHANGED vars
  BY <1>8 DEF vars, LibraryFits, Whole
<1> QED BY <1>1, <1>2, <1>3, <1>4, <1>5, <1>6, <1>7, <1>8 DEF Next, vars

(* A complete calibration is never replaced before a key fails to save. *)
THEOREM CalibrationKept ==
  ASSUME Exclusive PROVE Spec => CalibrationNeverReplaced
<1>1. IInv /\ LibraryFits /\ [Next]_vars =>
        LibraryFits' /\ [Whole /\ faults = 0 => cal' = cal]_cal
  BY LibraryStep
<1> QED BY <1>1, InitHolds, Invariance, PTL DEF Spec, CalibrationNeverReplaced

(* The recorded library is only ever used under the key it was recorded    *)
(* with, whichever processes are killed and wherever.                      *)
THEOREM LibraryKept == ASSUME Exclusive PROVE Spec => []LibraryUnderCurrentKey
<1>1. IInv /\ LibraryFits /\ [Next]_vars => LibraryFits'
  BY LibraryStep
<1>2. IInv /\ LibraryFits => LibraryUnderCurrentKey
  BY DEF IInv, FilesFit, LibraryFits, LibraryUnderCurrentKey, Ready, At
<1> QED BY <1>1, <1>2, InitHolds, Invariance, PTL DEF Spec

-----------------------------------------------------------------------------
(* Evaluation: what is proved of the life cycle of the key holds under it, *)
(* and a classifier that vetoes in a report has earned it, for any number  *)
(* of trainings and kills.                                                 *)

\* The stages are functions of the processes, and only a ready one is in one.
StagesFit == /\ stage \in [Procs -> Between \cup {"next", "pairs", "loaded", "calibrated"}]
             /\ DOMAIN hand = Procs /\ DOMAIN tr = Procs
             /\ \A p \in Procs : stage[p] # "next" => Ready(p)

\* Trainings are numbered in the order they are made, and what is under way
\* is the last.
Numbered(p) ==
  /\ stage[p] \in Between => hand[p] \in Trainings /\ hand[p].n = count
  /\ stage[p] \in {"trained", "model", "modelled"} /\ training \in Trainings
       => training.n < count

\* What a process holds is what is in the file, and the AUROC it has read
\* entitles its classifier to the veto.
MemoryFits(p) ==
  /\ stage[p] = "model" => hand[p] \in Kept
  /\ stage[p] \in {"modelled", "training"} /\ hand[p] \in Kept => model = hand[p]
  /\ stage[p] = "loaded" => hand[p] = model /\ model \in Kept
  /\ stage[p] = "calibrated" /\ Vetoes(tr[p]) => Earned(tr[p], hand[p])

\* An AUROC above chance in the one file is that of the model in the other,
\* or of an earlier training: then the model's is being reported or was cut.
FilesOfTraining ==
  /\ count \in Nat /\ model \in Kept \cup {Missing, Empty}
  /\ training \in Trainings => training.n <= count
  /\ Vetoes(training) /\ model \in Kept =>
       \/ Earned(training, model)
       \/ \E p \in Procs : stage[p] = "modelled" /\ hand[p] = model

EInv == /\ StagesFit /\ FilesOfTraining /\ VetoIsEarned
        /\ \A p \in Procs : Numbered(p) /\ MemoryFits(p)

-----------------------------------------------------------------------------
\* Every step of the evaluation is one of the key's life cycle, or leaves it be.
LEMMA StepOfKey == [EvalNext]_evalVars => [Next]_vars
<1>1. ASSUME NEW p \in Procs, StartMain(p) \/ Construct(p) \/ SavePairs(p) \/ ExitMain(p)
      PROVE  Next
  BY <1>1 DEF StartMain, Construct, SavePairs, ExitMain, Next
<1>2. ASSUME NEW p \in Procs,
             CollectPaired(p) \/ Train(p) \/ SaveModel(p) \/ SaveTraining(p)
               \/ LoadModel(p) \/ Calibrate(p) \/ Attack(p)
      PROVE  UNCHANGED vars
  BY <1>2 DEF CollectPaired, Train, SaveModel, SaveTraining, LoadModel, Calibrate, Attack
<1>3. UNCHANGED evalVars => UNCHANGED vars
  BY DEF evalVars
<1> QED BY <1>1, <1>2, <1>3 DEF EvalNext

(* The evaluation keeps to the life cycle of the key, so all that is       *)
(* proved of that holds while stages are run.                              *)
THEOREM EvaluationRefinesKeyLifecycle == EvalSpec => Spec
<1>1. EvalInit => Init
  BY DEF EvalInit
<1> QED BY <1>1, StepOfKey, PTL DEF EvalSpec, Spec

\* In one stage there is one process; the others are down.
LEMMA Alone ==
  ASSUME IInv, StagesFit, NEW p \in Procs, ~At(p, "down"), NEW q \in Procs, q # p
  PROVE  pc[q] = "down" /\ stage[q] = "next"
<1>1. pc[q] = "down"
  BY DEF IInv, OneAtATime, At
<1> QED BY <1>1 DEF StagesFit, Ready, At

\* A process between two stages has nothing in memory to answer for.
LEMMA NextFits ==
  ASSUME NEW q \in Procs, stage[q] = "next"
  PROVE  Numbered(q) /\ MemoryFits(q)
BY DEF Numbered, MemoryFits, Between

LEMMA ConstructStep ==
  ASSUME IInv, EInv, NEW p \in Procs, StartMain(p) \/ Construct(p)
  PROVE  EInv'
<1>1. /\ UNCHANGED <<files, stage, hand, tr, count, cut>>
      /\ pc[p] # "ready"
      /\ \A q \in Procs : q # p => pc'[q] = pc[q]
  BY DEF StartMain, Construct, main, IInv, TypeOK, Start, Check, Load, Measure, Open, Dump,
         OpenKey, WriteKey, SaveFails, Go, At
<1>2. stage[p] = "next"
  BY <1>1 DEF EInv, StagesFit, Ready, At
<1>3. StagesFit'
  BY <1>1, <1>2 DEF EInv, StagesFit, Ready, At
<1>4. FilesOfTraining' /\ VetoIsEarned'
  BY <1>1 DEF files, EInv, FilesOfTraining, VetoIsEarned, Earned
<1>5. \A q \in Procs : Numbered(q)' /\ MemoryFits(q)'
  BY <1>1 DEF files, EInv, Numbered, MemoryFits, Earned
<1> QED BY <1>3, <1>4, <1>5 DEF EInv

LEMMA CollectStep ==
  ASSUME IInv, EInv, NEW p \in Procs, CollectPaired(p) \/ SavePairs(p)
  PROVE  EInv'
<1>1. /\ UNCHANGED <<pc, model, training, report, hand, tr, count, cut>>
      /\ Ready(p)
      /\ \/ stage' = [stage EXCEPT ![p] = "pairs"] /\ stage[p] = "next"
         \/ stage' = [stage EXCEPT ![p] = "next"] /\ stage[p] = "pairs"
  BY DEF CollectPaired, SavePairs, Runs, Enter, Done, Collect, vars, Ready, EInv, StagesFit
<1>2. StagesFit'
  BY <1>1 DEF EInv, StagesFit, Ready, At, Between
<1>3. FilesOfTraining'
  BY <1>1 DEF EInv, StagesFit, FilesOfTraining, Earned
<1>4. VetoIsEarned'
  BY <1>1 DEF EInv, VetoIsEarned, Earned
<1>5. \A q \in Procs : Numbered(q)' /\ MemoryFits(q)'
  BY <1>1 DEF EInv, StagesFit, Numbered, MemoryFits, Earned, Between
<1> QED BY <1>2, <1>3, <1>4, <1>5 DEF EInv

LEMMA TrainStep ==
  ASSUME IInv, EInv, NEW p \in Procs, Train(p)
  PROVE  EInv'
<1>1. PICK t \in Trainings : t.n = count + 1 /\ hand' = [hand EXCEPT ![p] = t]
  BY DEF Train
<1>2. /\ UNCHANGED <<pc, model, training, report, tr, cut>> /\ count' = count + 1
      /\ Ready(p)
      /\ stage' = [stage EXCEPT ![p] = "trained"] /\ stage[p] = "next"
  BY DEF Train, Runs, Enter, vars, files
<1>3. \A q \in Procs : q # p => stage[q] = "next" /\ stage'[q] = "next"
  BY <1>2, Alone DEF EInv, StagesFit, Ready, At
<1>4. StagesFit'
  BY <1>1, <1>2 DEF EInv, StagesFit, Ready, At, Between
<1>5. count \in Nat /\ (training \in Trainings => training.n <= count /\ training.n \in Nat)
  BY MaxTrainingsAssumption DEF EInv, FilesOfTraining, Trainings
<1>6. FilesOfTraining'
  BY <1>1, <1>2, <1>3, <1>5 DEF EInv, StagesFit, FilesOfTraining, Earned
<1>7. VetoIsEarned'
  BY <1>2 DEF EInv, VetoIsEarned, Earned
<1>8. stage'[p] = "trained" /\ hand'[p] = t
  BY <1>1, <1>2 DEF EInv, StagesFit
<1>9. Numbered(p)' /\ MemoryFits(p)'
  BY <1>1, <1>2, <1>5, <1>8 DEF Numbered, MemoryFits
<1>10. \A q \in Procs : Numbered(q)' /\ MemoryFits(q)'
  BY <1>3, <1>9 DEF Numbered, MemoryFits, Between
<1> QED BY <1>4, <1>6, <1>7, <1>10 DEF EInv

\* The model of the last training, or the one that was there; the AUROC in
\* the report is that of an earlier training until the new one is written.
LEMMA ModelStep ==
  ASSUME IInv, EInv, NEW p \in Procs, SaveModel(p)
  PROVE  EInv'
<1>1. Ready(p) /\ stage[p] # "next" /\ UNCHANGED <<pc, training, report, hand, tr, count, cut>>
  BY DEF SaveModel, EInv, StagesFit, vars
<1>2. \A q \in Procs : q # p => stage[q] = "next"
  BY <1>1, Alone DEF EInv, Ready, At
<1>3. /\ stage' \in [Procs -> Between \cup {"next", "pairs", "loaded", "calibrated"}]
      /\ stage[p] \in {"trained", "model"} /\ stage'[p] \in {"model", "modelled"}
      /\ \A q \in Procs : q # p => stage'[q] = "next"
  BY <1>2 DEF SaveModel, Enter, EInv, StagesFit, Between
<1>4. StagesFit'
  BY <1>1, <1>3, <1>2 DEF EInv, StagesFit, Ready, At
<1>5. \/ stage'[p] = "model" /\ model' = Empty /\ hand[p] \in Kept
      \/ stage'[p] = "modelled" /\ model' = model /\ hand[p] \notin Kept /\ stage[p] = "trained"
      \/ stage'[p] = "modelled" /\ model' = hand[p] /\ hand[p] \in Kept
  BY DEF SaveModel, Enter, EInv, StagesFit, MemoryFits
<1>6. Empty \notin Kept
  BY TrainingsAssumption DEF Kept
<1>7. FilesOfTraining'
  <2>1. \A q \in Procs : stage[q] # "modelled"
    BY <1>2, <1>3
  <2> QED BY <1>1, <1>3, <1>5, <1>6, <2>1 DEF EInv, FilesOfTraining, Earned
<1>8. VetoIsEarned'
  BY <1>1 DEF EInv, VetoIsEarned, Earned
<1>9. Numbered(p)' /\ MemoryFits(p)'
  BY <1>1, <1>3, <1>5 DEF EInv, Numbered, MemoryFits, Between
<1>10. \A q \in Procs : Numbered(q)' /\ MemoryFits(q)'
  BY <1>3, <1>9 DEF Numbered, MemoryFits, Between
<1> QED BY <1>4, <1>7, <1>8, <1>10 DEF EInv

\* Reported, a training that kept a model is the one in both files.
LEMMA ReportStep ==
  ASSUME IInv, EInv, NEW p \in Procs, SaveTraining(p)
  PROVE  EInv'
<1>1. Ready(p) /\ stage[p] # "next" /\ UNCHANGED <<pc, model, report, hand, tr, count, cut>>
  BY DEF SaveTraining, EInv, StagesFit, vars
<1>2. \A q \in Procs : q # p => stage[q] = "next"
  BY <1>1, Alone DEF EInv, Ready, At
<1>3. /\ stage' \in [Procs -> Between \cup {"next", "pairs", "loaded", "calibrated"}]
      /\ \/ stage[p] = "modelled" /\ stage'[p] = "training" /\ training' = Empty
         \/ stage[p] = "training" /\ stage'[p] = "next" /\ training' = hand[p]
      /\ \A q \in Procs : q # p => stage'[q] = "next"
  BY <1>2 DEF SaveTraining, Enter, Done, EInv, StagesFit, Between
<1>4. StagesFit'
  BY <1>1, <1>3, <1>2 DEF EInv, StagesFit, Ready, At
<1>5. hand[p] \in Trainings /\ hand[p].n = count /\ (hand[p] \in Kept => model = hand[p])
  BY <1>3 DEF EInv, Numbered, MemoryFits, Between
<1>6. Empty \notin Trainings
  BY TrainingsAssumption
<1>7. Vetoes(hand[p]) => hand[p] \in Kept
  BY DEF Vetoes, Kept
<1>8. FilesOfTraining'
  <2>1. CASE training' = Empty
    BY <1>1, <1>6, <2>1 DEF EInv, FilesOfTraining, Vetoes
  <2>2. CASE training' = hand[p]
    BY <1>1, <1>5, <1>7, <2>2 DEF EInv, FilesOfTraining, Earned, Vetoes
  <2> QED BY <1>3, <2>1, <2>2
<1>9. VetoIsEarned'
  BY <1>1 DEF EInv, VetoIsEarned, Earned
<1>10. Numbered(p)' /\ MemoryFits(p)'
  BY <1>1, <1>3, <1>5 DEF Numbered, MemoryFits, Between
<1>11. \A q \in Procs : Numbered(q)' /\ MemoryFits(q)'
  BY <1>3, <1>10 DEF Numbered, MemoryFits, Between
<1> QED BY <1>4, <1>8, <1>9, <1>11 DEF EInv

LEMMA AttackStep ==
  ASSUME IInv, EInv, NEW p \in Procs, LoadModel(p) \/ Calibrate(p) \/ Attack(p)
  PROVE  EInv'
<1>1. Ready(p) /\ UNCHANGED <<pc, model, training, count, cut>>
  BY DEF LoadModel, Calibrate, Attack, Runs, EInv, StagesFit, vars, files
<1>2. \A q \in Procs : q # p => stage[q] = "next"
  BY <1>1, Alone DEF EInv, Ready, At
<1>3. /\ stage' \in [Procs -> Between \cup {"next", "pairs", "loaded", "calibrated"}]
      /\ \A q \in Procs : q # p => stage'[q] = "next"
      /\ stage[p] \in {"next", "loaded", "calibrated"}
      /\ stage'[p] \in {"next", "loaded", "calibrated"}
      /\ DOMAIN hand' = Procs /\ DOMAIN tr' = Procs
  BY <1>2 DEF LoadModel, Calibrate, Attack, Runs, Enter, Done, EInv, StagesFit
<1>4. StagesFit'
  BY <1>1, <1>3 DEF EInv, StagesFit, Ready, At
<1>5. FilesOfTraining'
  <2>1. \A q \in Procs : stage[q] # "modelled"
    BY <1>2, <1>3
  <2> QED BY <1>1, <2>1 DEF EInv, FilesOfTraining, Earned
<1>6. CASE LoadModel(p)
  <2>1. /\ hand'[p] = model /\ model \in Trainings
        /\ stage'[p] = "loaded" /\ UNCHANGED report
    BY <1>6 DEF LoadModel, Enter, files, EInv, StagesFit
  <2>2. model \in Kept
    BY <2>1, TrainingsAssumption DEF EInv, FilesOfTraining
  <2>3. VetoIsEarned'
    BY <1>1, <2>1 DEF EInv, VetoIsEarned, Earned
  <2>4. Numbered(p)' /\ MemoryFits(p)'
    BY <1>1, <2>1, <2>2 DEF Numbered, MemoryFits, Between
  <2>5. \A q \in Procs : Numbered(q)' /\ MemoryFits(q)'
    BY <1>3, <2>4 DEF Numbered, MemoryFits, Between
  <2> QED BY <1>4, <1>5, <2>3, <2>5 DEF EInv
<1>7. CASE Calibrate(p)
  <2>1. /\ tr'[p] = (IF training \in Trainings THEN training ELSE NoTraining)
        /\ stage'[p] = "calibrated" /\ stage[p] = "loaded" /\ UNCHANGED <<report, hand>>
    BY <1>7 DEF Calibrate, Enter, files, EInv, StagesFit
  <2>2. hand[p] = model /\ model \in Kept
    BY <2>1 DEF EInv, MemoryFits
  <2>3. Vetoes(tr'[p]) => tr'[p] = training /\ Vetoes(training)
    BY <2>1, TrainingsAssumption DEF Vetoes
  <2>4. Vetoes(training) => Earned(training, model)
    BY <1>2, <2>1, <2>2 DEF EInv, FilesOfTraining
  <2>5. Vetoes(tr'[p]) => Earned(tr'[p], hand[p])
    BY <2>2, <2>3, <2>4
  <2>6. VetoIsEarned'
    BY <1>1, <2>1 DEF EInv, VetoIsEarned, Earned
  <2>7. Numbered(p)' /\ MemoryFits(p)'
    BY <1>1, <2>1, <2>5 DEF Numbered, MemoryFits, Between, Earned
  <2>8. \A q \in Procs : Numbered(q)' /\ MemoryFits(q)'
    BY <1>3, <2>7 DEF Numbered, MemoryFits, Between
  <2> QED BY <1>4, <1>5, <2>6, <2>8 DEF EInv
<1>8. CASE Attack(p)
  <2>1. /\ report' = [model |-> hand[p], tr |-> tr[p]]
        /\ stage'[p] = "next" /\ stage[p] = "calibrated"
    BY <1>8 DEF Attack, Done, Enter, EInv, StagesFit
  <2>2. Vetoes(tr[p]) => Earned(tr[p], hand[p])
    BY <2>1 DEF EInv, MemoryFits
  <2>3. report'.tr = tr[p] /\ report'.model = hand[p]
    BY <2>1, Zenon
  <2>4. VetoIsEarned'
    BY <1>1, <2>2, <2>3 DEF VetoIsEarned, Earned
  <2>5. \A q \in Procs : Numbered(q)' /\ MemoryFits(q)'
    BY <1>3, <2>1 DEF Numbered, MemoryFits, Between
  <2> QED BY <1>4, <1>5, <2>4, <2>5 DEF EInv
<1> QED BY <1>6, <1>7, <1>8

LEMMA ExitStep ==
  ASSUME IInv, EInv, NEW p \in Procs, ExitMain(p)
  PROVE  EInv'
<1>1. /\ ~At(p, "down") /\ pc' = [pc EXCEPT ![p] = "down"]
      /\ UNCHANGED <<model, training, report, count>>
      /\ stage' = [stage EXCEPT ![p] = "next"]
      /\ hand' = [hand EXCEPT ![p] = NoTraining]
      /\ tr' = [tr EXCEPT ![p] = NoTraining]
      /\ cut' = IF stage[p] \in Between THEN cut \cup {hand[p].n} ELSE cut
  BY DEF ExitMain, Exit, Go, Enter, files
<1>2. \A q \in Procs : q # p => stage[q] = "next"
  BY <1>1, Alone DEF EInv
<1>3. \A q \in Procs : stage'[q] = "next"
  BY <1>1, <1>2 DEF EInv, StagesFit
<1>4. stage' \in [Procs -> Between \cup {"next", "pairs", "loaded", "calibrated"}]
  BY <1>1 DEF EInv, StagesFit
<1>5. DOMAIN hand' = Procs /\ DOMAIN tr' = Procs
  BY <1>1 DEF EInv, StagesFit
<1>6. StagesFit'
  BY <1>3, <1>4, <1>5 DEF StagesFit
<1>7. cut \subseteq cut'
  BY <1>1
<1>8. FilesOfTraining'
  <2>1. ASSUME Vetoes(training), model \in Kept PROVE Earned(training, model)'
    <3>1. CASE Earned(training, model)
      BY <1>1, <1>7, <3>1 DEF Earned
    <3>2. CASE stage[p] = "modelled" /\ hand[p] = model
      <4>1. model.n \in cut'
        BY <1>1, <3>2 DEF Between
      <4>2. training.n < model.n
        BY <2>1, <3>2 DEF Vetoes, EInv, Numbered, Between
      <4> QED BY <1>1, <4>1, <4>2 DEF Earned
    <3> QED BY <2>1, <1>2, <3>1, <3>2 DEF EInv, FilesOfTraining
  <2> QED BY <1>1, <2>1 DEF EInv, FilesOfTraining, Vetoes
<1>9. VetoIsEarned'
  BY <1>1, <1>7 DEF EInv, VetoIsEarned, Earned
<1>10. \A q \in Procs : Numbered(q)' /\ MemoryFits(q)'
  BY <1>3 DEF Numbered, MemoryFits, Between
<1> QED BY <1>6, <1>8, <1>9, <1>10 DEF EInv

LEMMA EInvStep == IInv /\ EInv /\ [EvalNext]_evalVars => EInv'
<1>1. ASSUME IInv, EInv, UNCHANGED evalVars PROVE EInv'
  <2>1. UNCHANGED <<pc, model, training, report, stage, hand, tr, count, cut>>
    BY <1>1 DEF evalVars, vars, files, main
  <2>2. StagesFit'
    BY <1>1, <2>1 DEF EInv, StagesFit, Ready, At
  <2>3. FilesOfTraining' /\ VetoIsEarned'
    BY <1>1, <2>1 DEF EInv, FilesOfTraining, VetoIsEarned, Earned
  <2>4. \A q \in Procs : Numbered(q)' /\ MemoryFits(q)'
    BY <1>1, <2>1 DEF EInv, Numbered, MemoryFits, Earned
  <2> QED BY <2>2, <2>3, <2>4 DEF EInv
<1> QED BY <1>1, ConstructStep, CollectStep, TrainStep, ModelStep, ReportStep, AttackStep, ExitStep
        DEF EvalNext

LEMMA EInvHolds == ASSUME Exclusive PROVE EvalSpec => []EInv
<1>1. EvalInit => EInv
  <2> SUFFICES ASSUME EvalInit PROVE EInv
    OBVIOUS
  <2>1. StagesFit /\ VetoIsEarned
    BY DEF EvalInit, StagesFit, VetoIsEarned
  <2>2. FilesOfTraining
    BY TrainingsAssumption DEF EvalInit, FilesOfTraining, Vetoes
  <2>3. \A p \in Procs : Numbered(p) /\ MemoryFits(p)
    BY NextFits DEF EvalInit
  <2> QED BY <2>1, <2>2, <2>3 DEF EInv
<1> QED BY <1>1, EInvStep, Invariance, EvaluationRefinesKeyLifecycle, PTL DEF EvalSpec

(* Whatever is killed where, and whichever trainings keep no model, a      *)
(* classifier that vetoes in a report has an AUROC above chance of its     *)
(* own, or was cut short of its report and has that of an earlier one.     *)
THEOREM VetoWasEarned == ASSUME Exclusive PROVE EvalSpec => []VetoIsEarned
<1>1. EInv => VetoIsEarned
  BY DEF EInv
<1> QED BY <1>1, EInvHolds, PTL
-----------------------------------------------------------------------------
\* The types of the stages' files and memory.

Stages == {"collect", "train", "attack"}

\* What is left of a mode.
Rests == {t \in Seq(Stages) : \E m \in Modes : \E i \in 1 .. Len(m) + 1 : t = SubSeq(m, i, Len(m))}

FilesTyped == /\ pairs \in {Missing, Empty, "whole"}
              /\ model \in Kept \cup {Missing, Empty}
              /\ training \in Trainings \cup {Missing, Empty}
              /\ report = Missing \/ report \in [model : Kept, tr : Trainings \cup {NoTraining}]

\* In a stage there is a stage to finish, and from training or loading on
\* there is a training in memory.
MemoryTyped ==
  /\ todo \in [Procs -> Rests]
  /\ hand \in [Procs -> Trainings \cup {NoTraining}]
  /\ tr \in [Procs -> Trainings \cup {NoTraining}]
  /\ \A p \in Procs : /\ stage[p] # "next" => todo[p] # <<>>
                      /\ stage[p] \notin {"next", "pairs"} => hand[p] \in Trainings
                      /\ stage[p] \in {"model", "loaded", "calibrated"} => hand[p] \in Kept
  /\ count \in 0 .. MaxTrainings /\ cut \subseteq 1 .. MaxTrainings

TInv == StagesFit /\ FilesTyped /\ MemoryTyped

LEMMA ModesTyped == Modes \subseteq Seq(Stages) /\ Modes # {}
<1>1. \A S : \A a \in S : <<a>> \in Seq(S)
  OBVIOUS
<1>2. \A S : \A a, b, c \in S : <<a, b, c>> \in Seq(S)
  OBVIOUS
<1>3. "collect" \in Stages /\ "train" \in Stages /\ "attack" \in Stages
  BY DEF Stages
<1>4. <<"collect">> \in Seq(Stages) /\ <<"train">> \in Seq(Stages) /\ <<"attack">> \in Seq(Stages)
  BY <1>1, <1>3, Zenon
<1>5. <<"collect", "train", "attack">> \in Seq(Stages)
  BY <1>2, <1>3, Zenon
<1> QED BY <1>4, <1>5, Zenon DEF Modes

LEMMA ModesAreRests == Modes \subseteq Rests
<1>1. ASSUME NEW m \in Modes PROVE m \in Rests
  <2>1. m \in Seq(Stages) /\ Len(m) \in Nat /\ SubSeq(m, 1, Len(m)) = m
    BY ModesTyped, LenProperties, SubSeqFull
  <2>2. 1 \in 1 .. Len(m) + 1
    BY <2>1
  <2> QED BY <2>1, <2>2 DEF Rests
<1> QED BY <1>1

LEMMA NothingIsARest == <<>> \in Rests
<1>1. PICK m \in Modes : TRUE
  BY ModesTyped
<1>2. m \in Seq(Stages) /\ Len(m) \in Nat
  BY ModesTyped, LenProperties
<1>3. <<>> = SubSeq(m, Len(m) + 1, Len(m))
  BY <1>2, SubSeqEmpty
<1>4. <<>> \in Seq(Stages) /\ Len(m) + 1 \in 1 .. Len(m) + 1
  BY <1>2, EmptySeq
<1> QED BY <1>3, <1>4 DEF Rests

LEMMA TailOfRest ==
  ASSUME NEW t \in Rests, t # <<>>
  PROVE  Tail(t) \in Rests
<1>1. PICK m \in Modes : \E i \in 1 .. Len(m) + 1 : t = SubSeq(m, i, Len(m))
  BY DEF Rests
<1> PICK i \in 1 .. Len(m) + 1 : t = SubSeq(m, i, Len(m))
  BY <1>1
<1>2. m \in Seq(Stages) /\ Len(m) \in Nat
  BY ModesTyped, LenProperties
<1>3. i \in 1 .. Len(m) /\ Len(m) \in i .. Len(m)
  <2>1. i # Len(m) + 1
    BY <1>2, SubSeqEmpty
  <2> QED BY <1>2, <2>1
<1>4. Tail(t) = SubSeq(m, i + 1, Len(m))
  BY <1>2, <1>3, HeadTailOfSubSeq
<1>5. Tail(t) \in Seq(Stages)
  BY HeadTailProperties DEF Rests
<1>6. i + 1 \in 1 .. Len(m) + 1
  BY <1>2, <1>3
<1> QED BY <1>4, <1>5, <1>6 DEF Rests

\* The end of a stage leaves a rest of the same mode.
LEMMA DoneTodo ==
  ASSUME TInv, NEW p \in Procs, stage[p] # "next", Done(p)
  PROVE  /\ todo' \in [Procs -> Rests]
         /\ stage' = [stage EXCEPT ![p] = "next"]
         /\ \A q \in Procs : q # p => todo'[q] = todo[q]
<1>1. todo \in [Procs -> Rests] /\ todo[p] \in Rests /\ todo[p] # <<>>
  BY DEF TInv, MemoryTyped
<1>2. Tail(todo[p]) \in Rests
  BY <1>1, TailOfRest
<1>3. todo' = [todo EXCEPT ![p] = Tail(todo[p])] /\ stage' = [stage EXCEPT ![p] = "next"]
  BY DEF Done, Enter
<1> QED BY <1>1, <1>2, <1>3

(* Every step keeps the types. *)
LEMMA TypeStep ==
  ASSUME IInv, TInv, [EvalNext]_evalVars
  PROVE  FilesTyped' /\ MemoryTyped'
<1>1. ASSUME NEW p \in Procs, StartMain(p) PROVE FilesTyped' /\ MemoryTyped'
  <2>1. UNCHANGED <<files, stage, hand, tr, count, cut>> /\ stage[p] = "next"
    BY <1>1 DEF StartMain, Start, At, TInv, StagesFit, Ready
  <2>2. PICK t \in Rests : todo' = [todo EXCEPT ![p] = t]
    <3>1. PICK m \in Modes : todo' = [todo EXCEPT ![p] = IF p \in V2 THEN m ELSE <<>>]
      BY <1>1 DEF StartMain
    <3> QED BY <3>1, NothingIsARest, ModesAreRests
  <2>3. MemoryTyped'
    BY <2>1, <2>2 DEF TInv, MemoryTyped
  <2> QED BY <2>1, <2>3 DEF TInv, FilesTyped, files
<1>2. ASSUME NEW p \in Procs, Construct(p) PROVE FilesTyped' /\ MemoryTyped'
  <2>1. UNCHANGED <<files, main, count, cut>>
    BY <1>2 DEF Construct
  <2> QED BY <2>1 DEF TInv, FilesTyped, MemoryTyped, files, main
<1>3. ASSUME NEW p \in Procs, CollectPaired(p) PROVE FilesTyped' /\ MemoryTyped'
  <2>1. /\ pairs' = Empty /\ UNCHANGED <<model, training, report, todo, hand, tr, count, cut>>
        /\ todo[p] # <<>> /\ stage' = [stage EXCEPT ![p] = "pairs"]
    BY <1>3 DEF CollectPaired, Runs, Enter
  <2>2. MemoryTyped'
    BY <2>1 DEF TInv, StagesFit, MemoryTyped
  <2> QED BY <2>1, <2>2 DEF TInv, FilesTyped
<1>4. ASSUME NEW p \in Procs, SavePairs(p) PROVE FilesTyped' /\ MemoryTyped'
  <2>1. /\ pairs' = "whole" /\ UNCHANGED <<model, training, report, hand, tr, count, cut>>
        /\ stage[p] = "pairs" /\ Done(p)
    BY <1>4 DEF SavePairs
  <2>2. MemoryTyped'
    BY <2>1, DoneTodo DEF TInv, StagesFit, MemoryTyped
  <2> QED BY <2>1, <2>2 DEF TInv, FilesTyped
<1>5. ASSUME NEW p \in Procs, Train(p) PROVE FilesTyped' /\ MemoryTyped'
  <2>1. PICK t \in Trainings : hand' = [hand EXCEPT ![p] = t]
    BY <1>5 DEF Train
  <2>2. /\ UNCHANGED <<files, todo, tr, cut>> /\ todo[p] # <<>>
        /\ count < MaxTrainings /\ count' = count + 1
        /\ stage' = [stage EXCEPT ![p] = "trained"]
    BY <1>5 DEF Train, Runs, Enter
  <2>3. count' \in 0 .. MaxTrainings
    BY <2>2, MaxTrainingsAssumption DEF TInv, MemoryTyped
  <2>4. MemoryTyped'
    BY <2>1, <2>2, <2>3 DEF TInv, StagesFit, MemoryTyped
  <2> QED BY <2>2, <2>4 DEF TInv, FilesTyped, files
<1>6. ASSUME NEW p \in Procs, SaveModel(p) PROVE FilesTyped' /\ MemoryTyped'
  <2>1. /\ UNCHANGED <<pairs, training, report, todo, hand, tr, count, cut>>
        /\ stage[p] \in {"trained", "model"}
        /\ \/ model' = Empty /\ stage' = [stage EXCEPT ![p] = "model"] /\ hand[p] \in Kept
           \/ model' = model /\ stage' = [stage EXCEPT ![p] = "modelled"]
           \/ /\ model' = hand[p] /\ stage' = [stage EXCEPT ![p] = "modelled"]
              /\ stage[p] = "model"
    BY <1>6 DEF SaveModel, Enter
  <2>2. /\ hand[p] \in Trainings /\ todo[p] # <<>>
        /\ stage[p] = "model" => hand[p] \in Kept
    BY <2>1 DEF TInv, MemoryTyped
  <2>3. MemoryTyped'
    BY <2>1, <2>2 DEF TInv, StagesFit, MemoryTyped
  <2> QED BY <2>1, <2>2, <2>3 DEF TInv, FilesTyped
<1>7. ASSUME NEW p \in Procs, SaveTraining(p) PROVE FilesTyped' /\ MemoryTyped'
  <2>1. /\ UNCHANGED <<pairs, model, report, hand, tr, count, cut>>
        /\ stage[p] \in {"modelled", "training"}
        /\ \/ training' = Empty /\ stage' = [stage EXCEPT ![p] = "training"] /\ UNCHANGED todo
           \/ training' = hand[p] /\ Done(p)
    BY <1>7 DEF SaveTraining, Enter
  <2>2. hand[p] \in Trainings /\ todo[p] # <<>>
    BY <2>1 DEF TInv, MemoryTyped
  <2>3. MemoryTyped'
    BY <2>1, <2>2, DoneTodo DEF TInv, StagesFit, MemoryTyped
  <2> QED BY <2>1, <2>2, <2>3 DEF TInv, FilesTyped
<1>8. ASSUME NEW p \in Procs, LoadModel(p) PROVE FilesTyped' /\ MemoryTyped'
  <2>1. /\ UNCHANGED <<files, todo, tr, count, cut>> /\ todo[p] # <<>> /\ model \in Trainings
        /\ hand' = [hand EXCEPT ![p] = model] /\ stage' = [stage EXCEPT ![p] = "loaded"]
    BY <1>8 DEF LoadModel, Runs, Enter
  <2>2. model \in Kept
    BY <2>1, TrainingsAssumption DEF TInv, FilesTyped
  <2>3. MemoryTyped'
    BY <2>1, <2>2 DEF TInv, StagesFit, MemoryTyped
  <2> QED BY <2>1, <2>3 DEF TInv, FilesTyped, files
<1>9. ASSUME NEW p \in Procs, Calibrate(p) PROVE FilesTyped' /\ MemoryTyped'
  <2>1. /\ UNCHANGED <<files, todo, hand, count, cut>> /\ stage[p] = "loaded"
        /\ stage' = [stage EXCEPT ![p] = "calibrated"]
        /\ \E t \in Trainings \cup {NoTraining} : tr' = [tr EXCEPT ![p] = t]
    BY <1>9 DEF Calibrate, Enter
  <2>2. MemoryTyped'
    BY <2>1 DEF TInv, StagesFit, MemoryTyped
  <2> QED BY <2>1, <2>2 DEF TInv, FilesTyped, files
<1>10. ASSUME NEW p \in Procs, Attack(p) PROVE FilesTyped' /\ MemoryTyped'
  <2>1. /\ UNCHANGED <<pairs, model, training, hand, tr, count, cut>>
        /\ stage[p] = "calibrated" /\ Done(p)
        /\ report' = [model |-> hand[p], tr |-> tr[p]]
    BY <1>10 DEF Attack
  <2>2. hand[p] \in Kept
    BY <2>1 DEF TInv, MemoryTyped
  <2>3. tr[p] \in Trainings \cup {NoTraining}
    BY DEF TInv, MemoryTyped
  <2>4. report' \in [model : Kept, tr : Trainings \cup {NoTraining}]
    BY <2>1, <2>2, <2>3, Zenon
  <2>5. MemoryTyped'
    BY <2>1, DoneTodo DEF TInv, StagesFit, MemoryTyped
  <2> QED BY <2>1, <2>4, <2>5 DEF TInv, FilesTyped
<1>11. ASSUME NEW p \in Procs, ExitMain(p) PROVE FilesTyped' /\ MemoryTyped'
  <2>1. /\ UNCHANGED <<files, count>>
        /\ stage' = [stage EXCEPT ![p] = "next"]
        /\ todo' = [todo EXCEPT ![p] = <<>>]
        /\ hand' = [hand EXCEPT ![p] = NoTraining]
        /\ tr' = [tr EXCEPT ![p] = NoTraining]
        /\ cut' = IF stage[p] \in Between THEN cut \cup {hand[p].n} ELSE cut
    BY <1>11 DEF ExitMain, Enter
  <2>2. cut' \subseteq 1 .. MaxTrainings
    BY <2>1 DEF TInv, MemoryTyped, Between, Trainings
  <2>3. MemoryTyped'
    BY <2>1, <2>2, NothingIsARest DEF TInv, StagesFit, MemoryTyped
  <2> QED BY <2>1, <2>3 DEF TInv, FilesTyped, files
<1>12. CASE UNCHANGED evalVars
  BY <1>12 DEF evalVars, files, main, TInv, FilesTyped, MemoryTyped
<1> QED BY <1>1, <1>2, <1>3, <1>4, <1>5, <1>6, <1>7, <1>8, <1>9, <1>10, <1>11, <1>12 DEF EvalNext

(* Files and memory of the stages stay within their types: no stage ends   *)
(* that was not begun, and no file or report is given a training that is   *)
(* not there.                                                              *)
THEOREM EvaluationTypeCorrect == ASSUME Exclusive PROVE EvalSpec => []EvalTypeOK
<1>1. EvalInit => FilesTyped /\ MemoryTyped
  BY MaxTrainingsAssumption, NothingIsARest DEF EvalInit, FilesTyped, MemoryTyped
<1>2. IInv /\ EInv /\ FilesTyped /\ MemoryTyped /\ [EvalNext]_evalVars => FilesTyped' /\ MemoryTyped'
  BY TypeStep DEF EInv, TInv
<1>3. IInv /\ EInv /\ FilesTyped /\ MemoryTyped => EvalTypeOK
  <2> SUFFICES ASSUME IInv, EInv, FilesTyped, MemoryTyped PROVE EvalTypeOK
    OBVIOUS
  <2>1. \A p \in Procs : \E m \in Modes : \E i \in 1 .. Len(m) + 1 : todo[p] = SubSeq(m, i, Len(m))
    BY DEF MemoryTyped, Rests
  <2>2. TypeOK /\ StagesFit
    BY DEF IInv, EInv
  <2> QED BY <2>1, <2>2 DEF StagesFit, FilesTyped, MemoryTyped, EvalTypeOK
<1> QED BY <1>1, <1>2, <1>3, EInvHolds, Invariance, EvaluationRefinesKeyLifecycle, PTL DEF EvalSpec
=============================================================================
