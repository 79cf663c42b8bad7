---------------------------- MODULE CaptureProofs ----------------------------
(***************************************************************************)
(* Proofs about Capture, for any programs, readings of the sensor and      *)
(* number of polls.                                                        *)
(***************************************************************************)
EXTENDS Capture, TLAPS

Running == pc \in {"wait", "spawn", "guard", "cool", "stop", "join"}

Loaded == pc \in {"guard", "cool", "stop"}

Phase(w) == <<w[1], w[2]>>

\* Phase s was over before the one the program is in.
Over(s) == s[1] < rep \/ (s[1] = rep /\ s[2] < phase)

(* While the loop runs the rows before this repetition are measured, each  *)
(* with its duration; when it ends, the rows to save are those.            *)
RowsInv ==
  /\ Running => /\ rep <= prog.reps /\ file = NoFile /\ meta = NoFile /\ ~aborted
                /\ vecs \in [1 .. prog.reps -> Rows]
                /\ \A r \in 1 .. prog.reps : r < rep => vecs[r] = "measured"
                /\ seconds = IF rep = 0 THEN 0 ELSE rep - 1
  /\ pc \in {"save", "meta"} =>
       /\ vecs \in [1 .. seconds -> {"measured"}] /\ meta = NoFile
       /\ ~aborted => seconds = prog.reps
       /\ file = IF pc = "save" THEN NoFile ELSE vecs

JoinInv == /\ Loaded => joined = 0
           /\ pc = "join" => joined <= prog.phases[phase].workers

(* The flags set are those of the phases that are over, and of this one    *)
(* while it waits for its workers; a worker that was not told to stop is   *)
(* one of this phase.                                                      *)
LoadInv ==
  Running =>
    /\ \A s \in stop : Over(s) \/ (pc = "join" /\ s = Here)
    /\ pc = "join" => Here \in stop
    /\ \A w \in signalled : Phase(w) \in stop
    /\ \A w \in live : Phase(w) \in stop \/ (Loaded /\ Phase(w) = Here)
    /\ pc \in {"guard", "cool"} => Workers(rep, phase) \subseteq live

IInv == TypeOK /\ RowsInv /\ JoinInv /\ LoadInv /\ SavedRowsWereMeasured

-----------------------------------------------------------------------------
LEMMA ElementsAre ==
  ASSUME NEW R, NEW s \in Seq(R)
  PROVE  /\ DOMAIN s = 1 .. Len(s) /\ Len(s) \in Nat
         /\ \A i \in DOMAIN s : s[i] \in R
OBVIOUS

(* The program and the phase it is in. *)
LEMMA ProgramIs ==
  ASSUME prog \in Programs
  PROVE  /\ prog.reps \in Nat /\ prog.reps >= 1
         /\ prog.probes \in BOOLEAN /\ prog.waits \in BOOLEAN
         /\ Len(prog.phases) \in Nat /\ Len(prog.phases) >= 1
         /\ DOMAIN prog.phases = 1 .. Len(prog.phases)
         /\ \A ph \in DOMAIN prog.phases :
              /\ prog.phases[ph].guards \in Nat /\ prog.phases[ph].guards >= 1
              /\ prog.phases[ph].workers \in Nat
<1>1. /\ prog \in [reps : Nat \ {0}, probes : BOOLEAN, waits : BOOLEAN, salvages : BOOLEAN,
                   meta : BOOLEAN,
                   phases : Seq([guards : Nat \ {0}, workers : Nat, raises : BOOLEAN]),
                   guard : [abort : Int, pause : Int, cool : Int, timed : BOOLEAN],
                   target : Int]
      /\ prog.phases # <<>>
  BY ProgramsAssumption
<1>2. /\ prog.reps \in Nat \ {0} /\ prog.probes \in BOOLEAN /\ prog.waits \in BOOLEAN
      /\ prog.phases \in Seq([guards : Nat \ {0}, workers : Nat, raises : BOOLEAN])
  BY <1>1
<1>3. \A ph \in DOMAIN prog.phases :
        prog.phases[ph] \in [guards : Nat \ {0}, workers : Nat, raises : BOOLEAN]
  BY <1>2, ElementsAre
<1>4. /\ Len(prog.phases) \in Nat /\ Len(prog.phases) >= 1
      /\ DOMAIN prog.phases = 1 .. Len(prog.phases)
  BY <1>1, <1>2
<1>5. \A ph \in DOMAIN prog.phases :
        /\ prog.phases[ph].guards \in Nat /\ prog.phases[ph].guards >= 1
        /\ prog.phases[ph].workers \in Nat
  BY <1>3
<1> QED BY <1>2, <1>4, <1>5

LEMMA WorkersAre ==
  ASSUME NEW p \in Programs, NEW r \in 0 .. p.reps, NEW ph \in DOMAIN p.phases,
         NEW k \in 1 .. p.phases[ph].workers
  PROVE  <<r, ph, k>> \in AllWorkers
BY DEF AllWorkers

LEMMA PhaseOf == \A r, ph, k : Phase(<<r, ph, k>>) = <<r, ph>>
BY DEF Phase

(* Rows in memory are a sequence. *)
LEMMA RowsAre ==
  ASSUME NEW m \in Nat, NEW R, NEW f \in [1 .. m -> R]
  PROVE  f \in Seq(R) /\ Len(f) = m /\ DOMAIN f = 1 .. m
OBVIOUS

(* What the sequential part leaves as it is. *)
LEMMA LoadUnchanged ==
  ASSUME LoadInv, Running, pc' = pc \/ (Loaded /\ pc' \in {"guard", "cool", "stop"})
                             \/ (~Loaded /\ pc' = "spawn" /\ pc # "join"),
         pc' = "cool" => pc \in {"guard", "cool"},
         pc' = "guard" => pc \in {"guard", "cool"},
         UNCHANGED <<prog, rep, phase, live, stop, signalled>>
  PROVE  LoadInv'
<1>1. /\ (Loaded <=> Loaded') /\ (pc = "join" <=> pc' = "join")
      /\ Here' = Here /\ Workers(rep, phase)' = Workers(rep, phase)
      /\ \A s : Over(s)' = Over(s)
  BY DEF Loaded, Running, Here, Workers, Over
<1> QED BY <1>1 DEF LoadInv

LEMMA RowsUnchanged ==
  ASSUME RowsInv, Running, Running',
         UNCHANGED <<prog, rep, vecs, seconds, aborted, file, meta>>
  PROVE  RowsInv' /\ SavedRowsWereMeasured'
<1>1. RowsInv'
  BY DEF RowsInv, Running
<1>2. file' = NoFile /\ meta' = NoFile
  BY DEF RowsInv
<1> QED BY <1>1, <1>2 DEF SavedRowsWereMeasured

LEMMA WaitCoolKeeps ==
  ASSUME IInv, WaitCool
  PROVE  IInv'
<1> USE DEF IInv
<1>1. /\ pc = "wait" /\ pc' \in {"wait", "spawn"} /\ polls' \in 0 .. MaxPolls
      /\ UNCHANGED <<prog, rep, phase, sample, vecs, seconds, live, stop, signalled,
                     joined, aborted, file, meta>>
  <2>1. /\ pc = "wait" /\ UNCHANGED <<loop, load, aborted, saved>>
        /\ \E return \in BOOLEAN :
             /\ ~return => polls # MaxPolls
             /\ polls' = IF return THEN 0 ELSE polls + 1
             /\ pc' = IF return THEN "spawn" ELSE "wait"
    BY DEF WaitCool
  <2> QED BY <2>1, MaxPollsAssumption DEF loop, load, saved, TypeOK
<1>2. TypeOK'
  BY <1>1 DEF TypeOK
<1>3. RowsInv' /\ SavedRowsWereMeasured'
  BY <1>1, RowsUnchanged DEF Running
<1>4. JoinInv'
  BY <1>1 DEF JoinInv, Loaded
<1>5. LoadInv'
  BY <1>1, LoadUnchanged DEF Running, Loaded
<1> QED BY <1>2, <1>3, <1>4, <1>5

LEMMA SpawnKeeps ==
  ASSUME IInv, Spawn
  PROVE  IInv'
<1> USE DEF IInv
<1>1. /\ pc = "spawn" /\ pc' = "guard" /\ sample' = 0 /\ joined' = 0
      /\ live' = live \cup Workers(rep, phase)
      /\ UNCHANGED <<prog, rep, phase, polls, vecs, seconds, stop, signalled,
                     aborted, file, meta>>
  BY DEF Spawn, saved
<1>2. prog \in Programs /\ rep \in 0 .. prog.reps /\ phase \in DOMAIN prog.phases
  <2>1. rep <= prog.reps /\ prog.reps \in Nat
    BY <1>1, ProgramIs DEF RowsInv, Running, TypeOK
  <2> QED BY <2>1 DEF TypeOK
<1>3. Workers(rep, phase) \subseteq AllWorkers
  BY <1>2, WorkersAre DEF Workers
<1>4. prog.phases[phase].guards > 0
  BY <1>2, ProgramIs
<1>5. TypeOK'
  BY <1>1, <1>3, <1>4 DEF TypeOK
<1>6. RowsInv' /\ SavedRowsWereMeasured'
  BY <1>1, RowsUnchanged DEF Running
<1>7. JoinInv'
  BY <1>1 DEF JoinInv, Loaded
<1>8. LoadInv'
  <2>1. /\ Here' = Here /\ Workers(rep, phase)' = Workers(rep, phase)
        /\ \A s : Over(s)' = Over(s)
    BY <1>1 DEF Here, Workers, Over
  <2>2. \A w \in Workers(rep, phase) : Phase(w) = Here
    BY PhaseOf DEF Workers, Here
  <2>3. Loaded' /\ ~Loaded /\ Running
    BY <1>1 DEF Loaded, Running
  <2>4. \A w \in live' : Phase(w) \in stop' \/ Phase(w) = Here'
    BY <1>1, <2>1, <2>2, <2>3 DEF LoadInv
  <2> QED BY <1>1, <2>1, <2>3, <2>4 DEF LoadInv
<1> QED BY <1>5, <1>6, <1>7, <1>8

LEMMA SampleKeeps ==
  ASSUME IInv, pc \in {"guard", "cool"}, Sample
  PROVE  IInv'
<1> USE DEF IInv
<1>1. /\ sample' = sample + 1 /\ polls' = 0
      /\ pc' = IF sample + 1 < prog.phases[phase].guards THEN "guard" ELSE "stop"
      /\ UNCHANGED <<prog, rep, phase, vecs, seconds, live, stop, signalled, joined,
                     aborted, file, meta>>
  BY DEF Sample, load, saved
<1>2. pc' \in {"guard", "stop"} /\ (pc' = "guard" => sample' < prog.phases[phase].guards)
  BY <1>1
<1>3. TypeOK'
  BY <1>1, <1>2, MaxPollsAssumption DEF TypeOK
<1>4. RowsInv' /\ SavedRowsWereMeasured'
  BY <1>1, <1>2, RowsUnchanged DEF Running
<1>5. JoinInv'
  BY <1>1, <1>2 DEF JoinInv, Loaded
<1>6. LoadInv'
  BY <1>1, <1>2, LoadUnchanged DEF Running, Loaded
<1> QED BY <1>3, <1>4, <1>5, <1>6

(* The rows cut at the repetition that was aborted. *)
LEMMA AbortKeeps ==
  ASSUME IInv, pc \in {"guard", "cool"}, Abort
  PROVE  IInv'
<1> USE DEF IInv
<1>1. /\ aborted' = TRUE
      /\ UNCHANGED <<prog, rep, phase, sample, seconds, polls, live, stop, signalled,
                     joined, file, meta>>
      /\ \/ /\ rep > 0 /\ pc' = "save"
            /\ vecs' = [r \in 1 .. rep - 1 |-> vecs[r]]
         \/ pc' = "exit" /\ vecs' = vecs
  BY DEF Abort, load, saved
<1>2. /\ rep \in Nat /\ prog.reps \in Nat /\ rep <= prog.reps /\ file = NoFile /\ meta = NoFile
      /\ vecs \in [1 .. prog.reps -> Rows]
      /\ \A r \in 1 .. prog.reps : r < rep => vecs[r] = "measured"
      /\ seconds = IF rep = 0 THEN 0 ELSE rep - 1
  BY ProgramIs DEF RowsInv, Running, TypeOK
<1>3. ASSUME rep > 0
      PROVE  /\ [r \in 1 .. rep - 1 |-> vecs[r]] \in [1 .. seconds -> {"measured"}]
             /\ [r \in 1 .. rep - 1 |-> vecs[r]] \in Seq(Rows)
  <2>1. seconds = rep - 1 /\ seconds \in Nat
    BY <1>2, <1>3
  <2>2. \A r \in 1 .. rep - 1 : vecs[r] = "measured"
    BY <1>2
  <2>3. [r \in 1 .. rep - 1 |-> vecs[r]] \in [1 .. seconds -> {"measured"}]
    BY <2>1, <2>2
  <2>4. [r \in 1 .. rep - 1 |-> vecs[r]] \in [1 .. seconds -> Rows]
    BY <2>1, <2>2 DEF Rows
  <2> QED BY <2>1, <2>3, <2>4, RowsAre
<1>4. TypeOK'
  <2>1. pc' \in {"save", "exit"}
    BY <1>1
  <2>2. vecs' \in Seq(Rows)
    BY <1>1, <1>3 DEF TypeOK
  <2> QED BY <1>1, <2>1, <2>2 DEF TypeOK
<1>5. RowsInv'
  BY <1>1, <1>2, <1>3 DEF RowsInv, Running
<1>6. JoinInv' /\ LoadInv'
  BY <1>1 DEF JoinInv, LoadInv, Loaded, Running
<1>7. SavedRowsWereMeasured'
  BY <1>1, <1>2 DEF SavedRowsWereMeasured
<1> QED BY <1>4, <1>5, <1>6, <1>7

LEMMA RaiseKeeps ==
  ASSUME IInv, pc \in {"guard", "cool"}, Raise
  PROVE  IInv'
<1> USE DEF IInv
<1>1. /\ pc' = "exit" /\ polls' = 0
      /\ UNCHANGED <<prog, rep, phase, sample, vecs, seconds, live, stop, signalled,
                     joined, aborted, file, meta>>
  BY DEF Raise, loop, load, saved
<1>2. TypeOK'
  BY <1>1, MaxPollsAssumption DEF TypeOK
<1>3. RowsInv' /\ JoinInv' /\ LoadInv'
  BY <1>1 DEF RowsInv, JoinInv, LoadInv, Loaded, Running
<1>4. SavedRowsWereMeasured'
  BY <1>1 DEF SavedRowsWereMeasured
<1> QED BY <1>2, <1>3, <1>4

(* The guard, and its wait for the chip to cool. *)
LEMMA GuardKeeps ==
  ASSUME IInv, Guard
  PROVE  IInv'
<1>1. pc = "guard"
  BY DEF Guard
<1>2. CASE pc' = "cool" /\ UNCHANGED <<loop, polls, load, aborted, saved>>
  <2> USE DEF IInv
  <2>1. UNCHANGED <<prog, rep, phase, sample, vecs, seconds, polls, live, stop, signalled,
                    joined, aborted, file, meta>>
    BY <1>2 DEF loop, load, saved
  <2>2. TypeOK'
    BY <1>1, <1>2, <2>1 DEF TypeOK
  <2>3. RowsInv' /\ SavedRowsWereMeasured'
    BY <1>1, <1>2, <2>1, RowsUnchanged DEF Running
  <2>4. JoinInv'
    BY <1>1, <1>2, <2>1 DEF JoinInv, Loaded
  <2>5. LoadInv'
    BY <1>1, <1>2, <2>1, LoadUnchanged DEF Running, Loaded
  <2> QED BY <2>2, <2>3, <2>4, <2>5
<1>3. \/ Abort \/ Sample \/ Raise
      \/ pc' = "cool" /\ UNCHANGED <<loop, polls, load, aborted, saved>>
  BY DEF Guard
<1> QED BY <1>1, <1>2, <1>3, AbortKeeps, SampleKeeps, RaiseKeeps

LEMMA StutterKeeps ==
  ASSUME IInv, UNCHANGED vars
  PROVE  IInv'
<1>1. UNCHANGED <<prog, pc, rep, phase, sample, polls, vecs, seconds, live, stop,
                  signalled, joined, aborted, file, meta>>
  BY DEF vars
<1>2. TypeOK' /\ RowsInv'
  BY <1>1 DEF IInv, TypeOK, RowsInv, Running
<1>3. JoinInv' /\ LoadInv'
  BY <1>1 DEF IInv, JoinInv, LoadInv, Loaded, Running, Here, Over, Workers
<1>4. SavedRowsWereMeasured'
  BY <1>1 DEF IInv, SavedRowsWereMeasured
<1> QED BY <1>2, <1>3, <1>4 DEF IInv

LEMMA CoolKeeps ==
  ASSUME IInv, Cool
  PROVE  IInv'
<1>1. pc = "cool"
  BY DEF Cool
<1>2. CASE /\ polls < MaxPolls /\ polls' = polls + 1
           /\ UNCHANGED <<loop, pc, load, aborted, saved>>
  <2> USE DEF IInv
  <2>1. UNCHANGED <<prog, rep, phase, sample, vecs, seconds, pc, live, stop, signalled,
                    joined, aborted, file, meta>>
    BY <1>2 DEF loop, load, saved
  <2>2. TypeOK'
    BY <1>2, <2>1, MaxPollsAssumption DEF TypeOK
  <2>3. RowsInv' /\ SavedRowsWereMeasured'
    BY <1>1, <2>1, RowsUnchanged DEF Running
  <2>4. JoinInv'
    BY <2>1 DEF JoinInv, Loaded
  <2>5. LoadInv'
    BY <1>1, <2>1, LoadUnchanged DEF Running, Loaded
  <2> QED BY <2>2, <2>3, <2>4, <2>5
<1>3. \/ Sample \/ Raise \/ UNCHANGED vars
      \/ /\ polls < MaxPolls /\ polls' = polls + 1
         /\ UNCHANGED <<loop, pc, load, aborted, saved>>
  BY DEF Cool
<1> QED BY <1>1, <1>2, <1>3, SampleKeeps, RaiseKeeps, StutterKeeps

LEMMA StopKeeps ==
  ASSUME IInv, Stop
  PROVE  IInv'
<1> USE DEF IInv
<1>1. /\ pc = "stop" /\ pc' = "join" /\ stop' = stop \cup {Here}
      /\ UNCHANGED <<prog, rep, phase, sample, vecs, seconds, polls, live, signalled,
                     joined, aborted, file, meta>>
  BY DEF Stop, loop, saved
<1>2. prog \in Programs /\ rep \in 0 .. prog.reps /\ phase \in DOMAIN prog.phases
  <2>1. rep <= prog.reps /\ prog.reps \in Nat
    BY <1>1, ProgramIs DEF RowsInv, Running, TypeOK
  <2> QED BY <2>1 DEF TypeOK
<1>3. joined' = 0 /\ joined' <= prog.phases[phase].workers
  BY <1>1, <1>2, ProgramIs DEF JoinInv, Loaded
<1>4. TypeOK'
  <2>1. Here \in (0 .. prog.reps) \X DOMAIN prog.phases
    BY <1>2 DEF Here
  <2> QED BY <1>1, <1>3, <2>1 DEF TypeOK
<1>5. RowsInv' /\ SavedRowsWereMeasured'
  BY <1>1, RowsUnchanged DEF Running
<1>6. JoinInv'
  BY <1>1, <1>3 DEF JoinInv, Loaded
<1>7. LoadInv'
  <2>1. Here' = Here /\ \A s : Over(s)' = Over(s)
    BY <1>1 DEF Here, Over
  <2> QED BY <1>1, <2>1 DEF LoadInv, Running, Loaded
<1> QED BY <1>4, <1>5, <1>6, <1>7

LEMMA JoinKeeps ==
  ASSUME IInv, Join
  PROVE  IInv'
<1> USE DEF IInv
<1> DEFINE w == <<rep, phase, joined + 1>>
<1>1. /\ pc = "join" /\ joined < prog.phases[phase].workers
      /\ joined' = joined + 1
      /\ \/ signalled' = signalled
         \/ w \in live /\ signalled' = signalled \cup {w}
      /\ UNCHANGED <<prog, rep, phase, sample, vecs, seconds, pc, polls, live, stop,
                     aborted, file, meta>>
  BY DEF Join, loop, saved
<1>2. /\ joined \in Nat /\ prog.phases[phase].workers \in Nat
  BY ProgramIs DEF TypeOK
<1>3. joined' \in Nat /\ joined' <= prog.phases[phase].workers
  BY <1>1, <1>2
<1>4. TypeOK'
  BY <1>1, <1>3 DEF TypeOK
<1>5. RowsInv' /\ SavedRowsWereMeasured'
  BY <1>1, RowsUnchanged DEF Running
<1>6. JoinInv'
  BY <1>1, <1>3 DEF JoinInv, Loaded
<1>7. LoadInv'
  <2>1. Phase(w) = Here
    BY PhaseOf DEF Here
  <2>2. Here' = Here /\ \A s : Over(s)' = Over(s)
    BY <1>1 DEF Here, Over
  <2> HIDE DEF w
  <2> QED BY <1>1, <2>1, <2>2 DEF LoadInv, Running, Loaded
<1> QED BY <1>4, <1>5, <1>6, <1>7

(* The next phase or repetition finds every earlier flag set. *)
LEMMA JoinedKeeps ==
  ASSUME IInv, Joined
  PROVE  IInv'
<1> USE DEF IInv
<1>1. /\ pc = "join"
      /\ UNCHANGED <<prog, sample, polls, live, stop, signalled, joined, aborted, file, meta>>
  BY DEF Joined, load, saved
<1>2. /\ rep \in Nat /\ prog.reps \in Nat /\ rep <= prog.reps
      /\ file = NoFile /\ meta = NoFile /\ ~aborted
      /\ vecs \in [1 .. prog.reps -> Rows]
      /\ \A r \in 1 .. prog.reps : r < rep => vecs[r] = "measured"
      /\ seconds = IF rep = 0 THEN 0 ELSE rep - 1
  BY <1>1, ProgramIs DEF RowsInv, Running, TypeOK
<1>3. /\ Len(prog.phases) \in Nat /\ Len(prog.phases) >= 1
      /\ DOMAIN prog.phases = 1 .. Len(prog.phases)
      /\ phase \in 1 .. Len(prog.phases)
  BY ProgramIs DEF TypeOK
<1>4. /\ \A s \in stop : s[1] < rep \/ (s[1] = rep /\ s[2] <= phase)
      /\ \A x \in signalled : Phase(x) \in stop
      /\ \A x \in live : Phase(x) \in stop
      /\ \A s \in stop : s[1] \in Nat /\ s[2] \in Nat
  <2>1. \A s \in stop : Over(s) \/ s = Here
    BY <1>1 DEF LoadInv, Running
  <2>2. \A s \in stop : s[1] \in 0 .. prog.reps /\ s[2] \in DOMAIN prog.phases
    BY DEF TypeOK
  <2>3. \A s \in stop : s[1] \in Nat /\ s[2] \in Nat
    BY <1>3, <2>2
  <2>4. \A s \in stop : s[1] < rep \/ (s[1] = rep /\ s[2] <= phase)
    BY <1>3, <2>1, <2>3 DEF Over, Here
  <2>5. \A x \in live : Phase(x) \in stop
    BY <1>1 DEF LoadInv, Running, Loaded
  <2> QED BY <1>1, <2>3, <2>4, <2>5 DEF LoadInv, Running
<1>5. CASE phase < Len(prog.phases)
  <2>1. /\ phase' = phase + 1 /\ pc' = "spawn"
        /\ UNCHANGED <<rep, vecs, seconds>>
    BY <1>5 DEF Joined
  <2>2. TypeOK'
    <3>1. phase' \in DOMAIN prog.phases
      BY <1>3, <1>5, <2>1
    <3> QED BY <1>1, <2>1, <3>1 DEF TypeOK
  <2>3. RowsInv' /\ SavedRowsWereMeasured'
    BY <1>1, <2>1, RowsUnchanged DEF Running
  <2>4. JoinInv'
    BY <2>1 DEF JoinInv, Loaded
  <2>5. LoadInv'
    <3>1. \A s \in stop : Over(s)'
      BY <1>1, <1>3, <1>4, <2>1 DEF Over
    <3> QED BY <1>1, <1>4, <2>1, <3>1 DEF LoadInv, Loaded
  <2> QED BY <2>2, <2>3, <2>4, <2>5
<1>6. CASE ~(phase < Len(prog.phases))
  <2>1. /\ rep' = rep + 1 /\ phase' = 1
        /\ pc' = IF rep < prog.reps THEN Begin(prog) ELSE "save"
        /\ \/ rep = 0 /\ UNCHANGED <<vecs, seconds>>
           \/ /\ rep > 0 /\ seconds' = seconds + 1
              /\ vecs' = [vecs EXCEPT ![rep] = "measured"]
    BY <1>2, <1>6 DEF Joined
  <2>2. pc' \in {"wait", "spawn", "save"}
        /\ (pc' = "save" => rep = prog.reps) /\ (pc' # "save" => rep < prog.reps)
    BY <1>2, <2>1 DEF Begin
  <2>3. vecs' \in [1 .. prog.reps -> Rows]
    BY <1>2, <2>1 DEF Rows
  <2>4. seconds' = rep /\ \A r \in 1 .. prog.reps : r < rep + 1 => vecs'[r] = "measured"
    BY <1>2, <2>1
  <2>5. TypeOK'
    <3>1. vecs' \in Seq(Rows) /\ seconds' \in 0 .. prog.reps
      BY <1>2, <2>3, <2>4, RowsAre
    <3>2. rep' \in 0 .. prog.reps + 1 /\ phase' \in DOMAIN prog.phases
      BY <1>2, <1>3, <2>1
    <3> QED BY <1>1, <2>2, <3>1, <3>2 DEF TypeOK
  <2>6. RowsInv'
    <3>1. CASE pc' = "save"
      <4>1. seconds' = prog.reps
        BY <2>2, <2>4, <3>1
      <4>2. \A r \in 1 .. prog.reps : vecs'[r] = "measured"
        BY <1>2, <2>2, <2>4, <3>1
      <4>3. vecs' \in [1 .. seconds' -> {"measured"}]
        BY <2>3, <4>1, <4>2
      <4> QED BY <1>1, <1>2, <3>1, <4>1, <4>3 DEF RowsInv, Running
    <3>2. CASE pc' # "save"
      <4>1. rep' <= prog.reps /\ rep' # 0 /\ seconds' = rep' - 1
        BY <1>2, <2>1, <2>2, <2>4, <3>2
      <4> QED BY <1>1, <1>2, <2>1, <2>2, <2>3, <2>4, <3>2, <4>1 DEF RowsInv
    <3> QED BY <3>1, <3>2
  <2>7. JoinInv' /\ SavedRowsWereMeasured'
    BY <1>1, <1>2, <2>2 DEF JoinInv, Loaded, SavedRowsWereMeasured
  <2>8. LoadInv'
    <3>1. \A s \in stop : Over(s)'
      BY <1>2, <1>4, <2>1 DEF Over
    <3> QED BY <1>1, <1>4, <2>2, <3>1 DEF LoadInv, Loaded
  <2> QED BY <2>5, <2>6, <2>7, <2>8
<1> QED BY <1>5, <1>6

LEMMA SaveKeeps ==
  ASSUME IInv, Save
  PROVE  IInv'
<1> USE DEF IInv
<1>1. /\ pc = "save" /\ pc' \in {"meta", "exit"}
      /\ file' = vecs
      /\ UNCHANGED <<prog, rep, phase, sample, vecs, seconds, polls, live, stop,
                     signalled, joined, aborted, meta>>
  BY DEF Save, loop, load
<1>2. /\ vecs \in [1 .. seconds -> {"measured"}] /\ seconds \in Nat
      /\ ~aborted => seconds = prog.reps
      /\ meta = NoFile
  BY <1>1, ProgramIs DEF RowsInv, TypeOK
<1>3. Len(vecs) = seconds /\ DOMAIN vecs = 1 .. seconds
  BY <1>2, RowsAre
<1>4. TypeOK'
  BY <1>1 DEF TypeOK
<1>5. RowsInv' /\ JoinInv' /\ LoadInv'
  BY <1>1, <1>2 DEF RowsInv, JoinInv, LoadInv, Loaded, Running
<1>6. SavedRowsWereMeasured'
  BY <1>1, <1>2, <1>3 DEF SavedRowsWereMeasured
<1> QED BY <1>4, <1>5, <1>6

LEMMA SaveMetaKeeps ==
  ASSUME IInv, SaveMeta
  PROVE  IInv'
<1> USE DEF IInv
<1>1. /\ pc = "meta" /\ pc' = "exit" /\ meta' = seconds
      /\ UNCHANGED <<prog, rep, phase, sample, vecs, seconds, polls, live, stop,
                     signalled, joined, aborted, file>>
  BY DEF SaveMeta, loop, load
<1>2. vecs \in [1 .. seconds -> {"measured"}] /\ seconds \in Nat /\ file = vecs
  BY <1>1, ProgramIs DEF RowsInv, TypeOK
<1>3. Len(file) = seconds
  BY <1>2, RowsAre
<1>4. TypeOK'
  BY <1>1, <1>2 DEF TypeOK
<1>5. RowsInv' /\ JoinInv' /\ LoadInv'
  BY <1>1 DEF RowsInv, JoinInv, LoadInv, Loaded, Running
<1>6. SavedRowsWereMeasured'
  BY <1>1, <1>3 DEF SavedRowsWereMeasured
<1> QED BY <1>4, <1>5, <1>6

(* The program ends, by itself or killed: nothing is claimed of its        *)
(* workers any more, and the files stay.                                   *)
LEMMA ExitKeeps ==
  ASSUME IInv, Exit \/ Killed
  PROVE  IInv'
<1> USE DEF IInv
<1>1. /\ pc' = "ended"
      /\ UNCHANGED <<prog, rep, phase, sample, vecs, seconds, polls, live, stop,
                     signalled, joined, aborted, file, meta>>
  BY DEF Exit, Killed, loop, load, saved
<1>2. TypeOK'
  BY <1>1 DEF TypeOK
<1>3. RowsInv' /\ JoinInv' /\ LoadInv' /\ SavedRowsWereMeasured'
  BY <1>1 DEF RowsInv, JoinInv, LoadInv, Loaded, Running, SavedRowsWereMeasured
<1> QED BY <1>2, <1>3

(* A worker that ends was told to, so it is not one of the phase that is   *)
(* being measured.                                                         *)
LEMMA WorkerKeeps ==
  ASSUME IInv, NEW w \in live, WorkerEnds(w)
  PROVE  IInv'
<1> USE DEF IInv
<1>1. /\ Phase(w) \in stop \/ w \in signalled
      /\ live' = live \ {w}
      /\ UNCHANGED <<prog, rep, phase, sample, vecs, seconds, pc, polls, stop,
                     signalled, joined, aborted, file, meta>>
  BY DEF WorkerEnds, loop, saved, Phase
<1>2. TypeOK' /\ RowsInv'
  BY <1>1 DEF TypeOK, RowsInv, Running
<1>3. JoinInv' /\ SavedRowsWereMeasured'
  BY <1>1 DEF JoinInv, Loaded, SavedRowsWereMeasured
<1>4. LoadInv'
  <2> SUFFICES ASSUME Running PROVE LoadInv'
    BY <1>1 DEF LoadInv, Running
  <2>1. /\ Here' = Here /\ Workers(rep, phase)' = Workers(rep, phase)
        /\ \A s : Over(s)' = Over(s)
    BY <1>1 DEF Here, Workers, Over
  <2>2. Phase(w) \in stop
    BY <1>1 DEF LoadInv
  <2>3. ASSUME pc \in {"guard", "cool"} PROVE w \notin Workers(rep, phase)
    <3>1. Over(Phase(w))
      BY <2>2, <2>3 DEF LoadInv
    <3>2. rep \in Int /\ phase \in Int
      BY ProgramIs DEF TypeOK
    <3>3. Phase(w) # Here
      BY <3>1, <3>2 DEF Over, Here
    <3>4. \A x \in Workers(rep, phase) : Phase(x) = Here
      BY PhaseOf DEF Workers, Here
    <3> QED BY <3>3, <3>4
  <2> QED BY <1>1, <2>1, <2>3 DEF LoadInv, Running, Loaded
<1> QED BY <1>2, <1>3, <1>4

-----------------------------------------------------------------------------
LEMMA Starting ==
  ASSUME Init
  PROVE  IInv
<1>1. /\ prog \in Programs /\ phase = 1 /\ sample = 0 /\ polls = 0
      /\ vecs = [r \in 1 .. prog.reps |-> "unset"] /\ seconds = 0
      /\ live = {} /\ stop = {} /\ signalled = {} /\ joined = 0
      /\ aborted = FALSE /\ file = NoFile /\ meta = NoFile
      /\ rep \in {0, 1} /\ pc \in {"wait", "spawn"}
  BY ProgramIs DEF Init, Begin
<1>2. /\ prog.reps \in Nat /\ prog.reps >= 1 /\ phase \in DOMAIN prog.phases
  BY <1>1, ProgramIs
<1>3. vecs \in [1 .. prog.reps -> Rows]
  BY <1>1 DEF Rows
<1>4. TypeOK
  <2>1. vecs \in Seq(Rows)
    BY <1>2, <1>3, RowsAre
  <2>2. /\ rep \in 0 .. prog.reps + 1 /\ seconds \in 0 .. prog.reps
        /\ polls \in 0 .. MaxPolls
    BY <1>1, <1>2, MaxPollsAssumption
  <2>3. pc \notin {"guard", "cool", "join"} /\ aborted \in BOOLEAN
    BY <1>1
  <2> QED BY <1>1, <1>2, <2>1, <2>2, <2>3 DEF TypeOK
<1>5. RowsInv
  BY <1>1, <1>2, <1>3 DEF RowsInv
<1>6. JoinInv /\ LoadInv /\ SavedRowsWereMeasured
  BY <1>1 DEF JoinInv, LoadInv, Loaded, SavedRowsWereMeasured
<1> QED BY <1>4, <1>5, <1>6 DEF IInv

(* The inductive invariant holds in every reachable state. *)
THEOREM Invariance == Spec => []IInv
<1>1. IInv /\ [Next]_vars => IInv'
  BY WaitCoolKeeps, SpawnKeeps, GuardKeeps, CoolKeeps, StopKeeps, JoinKeeps,
     JoinedKeeps, SaveKeeps, SaveMetaKeeps, ExitKeeps, WorkerKeeps, StutterKeeps DEF Next, Main
<1> QED BY <1>1, Starting, PTL DEF Spec

(* The loop counters, rows, workers and files of a capture are well-typed. *)
THEOREM TypeCorrect == Spec => []TypeOK
<1>1. IInv => TypeOK
  BY DEF IInv
<1> QED BY <1>1, Invariance, PTL

(* A file holds measured rows only, each with its duration, and all of     *)
(* them unless the guard aborted.                                          *)
THEOREM SavedIsMeasured == Spec => []SavedRowsWereMeasured
<1>1. IInv => SavedRowsWereMeasured
  BY DEF IInv
<1> QED BY <1>1, Invariance, PTL

(* Whatever worker ends when, a sample is taken under the whole load of    *)
(* its phase, and under no load of another that was not told to stop.      *)
THEOREM MeasuredUnderLoad == Spec => []LoadIsOn
<1>1. IInv => LoadIsOn
  <2> SUFFICES ASSUME IInv, pc \in {"guard", "cool"}
               PROVE  /\ Workers(rep, phase) \subseteq live
                      /\ \A w \in live : <<w[1], w[2]>> \in stop \cup {Here}
    BY DEF LoadIsOn
  <2> QED BY DEF IInv, LoadInv, Running, Loaded, Phase
<1> QED BY <1>1, Invariance, PTL
=============================================================================
