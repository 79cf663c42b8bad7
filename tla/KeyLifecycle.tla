---------------------------- MODULE KeyLifecycle ----------------------------
(***************************************************************************)
(* How a chip gets its key and keeps it across processes and crashes:      *)
(* NonceSig._maybe_calibrate (src/protocol/nonce_signature.py),            *)
(* NonceSigV2._maybe_calibrate (nonce_signature_v2.py), derive_kchip and   *)
(* save_kchip (key_derivation.py), and the signature library that the      *)
(* collect stage of attacks_extended.py leaves for the later stages.       *)
(* Processes share nothing but files.  A file is written by open(.., 'w'), *)
(* which empties it, and a write; a process may be killed at any point.    *)
(* Both classes build the same path _cal/cal_<host>.json.                  *)
(***************************************************************************)
EXTENDS Naturals

CONSTANTS Procs,         \* processes on one host
          V2,            \* those that construct a NonceSigV2, not a NonceSig
          Readings(_),   \* Readings(p): the mu a calibration by p may find
          Key(_),        \* derive_kchip(mu, host)
          Zeros,         \* the provisional key
          NoMu,          \* the provisional mu
          Missing, Empty, Garbled,   \* files that are not there, or not whole
          Exclusive,     \* TRUE: processes run one after another
          MaxSaveFaults  \* bound: failures of save_kchip (no space, no right)

ASSUME ExclusiveAssumption == Exclusive \in BOOLEAN /\ MaxSaveFaults \in Nat

VARIABLES cal,     \* the calibration file
          kfile,   \* _kchip/kchip_<host>.bin
          lib,     \* the key under which <host>_paired_sigs.npz was recorded
          pc,      \* where each process is
          mu,      \* self.mu
          K,       \* self.K_chip
          faults

vars == <<cal, kfile, lib, pc, mu, K, faults>>

Calibrations == UNION {Readings(p) : p \in Procs}

ASSUME FilesAssumption == {Missing, Empty, Garbled} \cap Calibrations = {}

Whole == cal \in Calibrations     \* the file parses and has its keys

Steps == {"down", "check", "load", "measure", "open", "dump",
          "save", "write", "resave", "rewrite", "ready"}

Init == /\ cal = Missing /\ kfile = Missing /\ lib = Missing
        /\ pc = [p \in Procs |-> "down"]
        /\ mu = [p \in Procs |-> NoMu]
        /\ K = [p \in Procs |-> Zeros]
        /\ faults = 0

Go(p, step) == pc' = [pc EXCEPT ![p] = step]

At(p, step) == pc[p] = step

Start(p) ==
  /\ At(p, "down")
  /\ Exclusive => \A q \in Procs : At(q, "down")
  /\ Go(p, "check")
  /\ UNCHANGED <<cal, kfile, lib, mu, K, faults>>

(* Mutant: calibrates at every start. *)
Check_Always(p) ==
  /\ At(p, "check")
  /\ Go(p, "measure")
  /\ UNCHANGED <<cal, kfile, lib, mu, K, faults>>

Check(p) ==                                     \* os.path.exists(cal_path)
  /\ At(p, "check")
  /\ Go(p, IF cal = Missing THEN "measure" ELSE "load")
  /\ UNCHANGED <<cal, kfile, lib, mu, K, faults>>

(* Mutant: the key is rebuilt and not saved. *)
Load_WithoutSave(p) ==
  /\ At(p, "load")
  /\ IF Whole
     THEN /\ mu' = [mu EXCEPT ![p] = cal]
          /\ K' = [K EXCEPT ![p] = IF p \in V2 THEN Key(cal) ELSE @]
          /\ Go(p, "ready")
     ELSE Go(p, "measure") /\ UNCHANGED <<mu, K>>
  /\ UNCHANGED <<cal, kfile, lib, faults>>

(* A file that parses is taken as it is, whoever measured it; any exception *)
(* means calibrating again.  NonceSigV2 derives its key and saves it.       *)
Load(p) ==
  /\ At(p, "load")
  /\ IF Whole
     THEN /\ mu' = [mu EXCEPT ![p] = cal]
          /\ K' = [K EXCEPT ![p] = IF p \in V2 THEN Key(cal) ELSE @]
          /\ Go(p, IF p \in V2 THEN "resave" ELSE "ready")
     ELSE Go(p, "measure") /\ UNCHANGED <<mu, K>>
  /\ UNCHANGED <<cal, kfile, lib, faults>>

Measure(p) ==
  /\ At(p, "measure")
  /\ \E r \in Readings(p) : mu' = [mu EXCEPT ![p] = r]
  /\ Go(p, "open")
  /\ UNCHANGED <<cal, kfile, lib, K, faults>>

Open(p) ==
  /\ At(p, "open")
  /\ cal' = Empty
  /\ Go(p, "dump")
  /\ UNCHANGED <<kfile, lib, mu, K, faults>>

(* Mutant: the file is opened and never written. *)
Dump_Nothing(p) ==
  /\ At(p, "dump")
  /\ K' = [K EXCEPT ![p] = IF p \in V2 THEN Key(mu[p]) ELSE @]
  /\ Go(p, IF p \in V2 THEN "save" ELSE "ready")
  /\ UNCHANGED <<cal, kfile, lib, mu, faults>>

(* Another process may have written since this one emptied the file: then  *)
(* the longer of the two texts may show behind the shorter.                *)
Dump(p) ==
  /\ At(p, "dump")
  /\ cal' \in {mu[p]} \cup (IF cal = Empty THEN {} ELSE {Garbled})
  /\ K' = [K EXCEPT ![p] = IF p \in V2 THEN Key(mu[p]) ELSE @]
  /\ Go(p, IF p \in V2 THEN "save" ELSE "ready")
  /\ UNCHANGED <<kfile, lib, mu, faults>>

OpenKey(p) ==
  /\ pc[p] \in {"save", "resave"}
  /\ kfile' = Empty
  /\ Go(p, IF At(p, "save") THEN "write" ELSE "rewrite")
  /\ UNCHANGED <<cal, lib, mu, K, faults>>

(* Mutant: what is written is the key the constructor starts with. *)
WriteKey_Provisional(p) ==
  /\ pc[p] \in {"write", "rewrite"}
  /\ kfile' = Zeros
  /\ Go(p, "ready")
  /\ UNCHANGED <<cal, lib, mu, K, faults>>

WriteKey(p) ==
  /\ pc[p] \in {"write", "rewrite"}
  /\ kfile' = K[p]
  /\ Go(p, "ready")
  /\ UNCHANGED <<cal, lib, mu, K, faults>>

(* save_kchip raises.  After a calibration the constructor fails with it;  *)
(* after a load the clause around the load catches it too, and calibration *)
(* starts over.                                                            *)
SaveFails(p) ==
  /\ faults < MaxSaveFaults
  /\ faults' = faults + 1
  /\ \/ /\ pc[p] \in {"save", "write"}
        /\ Go(p, "down")
        /\ mu' = [mu EXCEPT ![p] = NoMu]
        /\ K' = [K EXCEPT ![p] = Zeros]
     \/ /\ pc[p] \in {"resave", "rewrite"}
        /\ Go(p, "measure")
        /\ UNCHANGED <<mu, K>>
  /\ UNCHANGED <<cal, kfile, lib>>

(* The collect stage records signatures under the key in memory. *)
Collect(p) ==
  /\ At(p, "ready") /\ p \in V2
  /\ lib' = K[p]
  /\ UNCHANGED <<cal, kfile, pc, mu, K, faults>>

(* The process ends or is killed; a text half flushed stays half flushed.  *)
Exit(p) ==
  /\ ~At(p, "down")
  /\ Go(p, "down")
  /\ cal' \in {cal} \cup (IF At(p, "dump") THEN {Garbled} ELSE {})
  /\ mu' = [mu EXCEPT ![p] = NoMu]
  /\ K' = [K EXCEPT ![p] = Zeros]
  /\ UNCHANGED <<kfile, lib, faults>>

Next == \E p \in Procs :
          \/ Start(p) \/ Check(p) \/ Load(p) \/ Measure(p) \/ Open(p) \/ Dump(p)
          \/ OpenKey(p) \/ WriteKey(p) \/ SaveFails(p) \/ Collect(p) \/ Exit(p)

Spec == Init /\ [][Next]_vars

-----------------------------------------------------------------------------
Keys == {Key(c) : c \in Calibrations}

(* Type invariant. *)
TypeOK == /\ cal \in Calibrations \cup {Missing, Empty, Garbled}
          /\ kfile \in Keys \cup {Missing, Empty}
          /\ lib \in Keys \cup {Missing}
          /\ pc \in [Procs -> Steps]
          /\ mu \in [Procs -> Calibrations \cup {NoMu}]
          /\ K \in [Procs -> Keys \cup {Zeros}]
          /\ faults \in 0..MaxSaveFaults

Ready(p) == At(p, "ready") /\ p \in V2

(* A process in service uses the key that the files would give the next    *)
(* one: the key of the calibration on disk, which is also the key saved.   *)
(* With processes one after another, crashes anywhere do not break it,     *)
(* because the calibration is on disk before the key exists.               *)
ReadyKeyIsOnDisk ==
  \A p \in Procs : Ready(p) => Whole /\ K[p] = Key(cal) /\ kfile = K[p]

(* The library recorded by an earlier process is read by a later one under *)
(* the key it was recorded with (attacks_extended.py lines 182, 223, 245), *)
(* as long as saving a key has not failed.                                 *)
LibraryUnderCurrentKey ==
  \A p \in Procs : Ready(p) /\ lib # Missing /\ faults = 0 => lib = K[p]

(* A complete calibration is never replaced, so the key never changes, as  *)
(* long as saving a key has not failed (the clause at line 308 answers     *)
(* that failure by calibrating again).                                     *)
CalibrationNeverReplaced == [][Whole /\ faults = 0 => cal' = cal]_cal

(* K_chip is "deterministic for the same chip (within calibration jitter   *)
(* tolerance)" (key_derivation.py line 14): all processes in service agree *)
(* on it.                                                                   *)
SameChipSameKey ==
  \A p, q \in Procs : Ready(p) /\ Ready(q) => K[p] = K[q]
=============================================================================
