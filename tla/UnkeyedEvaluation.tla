-------------------------- MODULE UnkeyedEvaluation --------------------------
(***************************************************************************)
(* train.main and attacks.main (src/protocol/train.py, attacks.py): one    *)
(* process records a library of signatures and trains on it, another runs  *)
(* the seven attacks against the gate of the unkeyed scheme.  They meet in *)
(* files, and either may be killed, end on an exception, and start again.  *)
(*                                                                         *)
(* The classifier decides nothing here, and of the model only the file     *)
(* matters.  A nonce is the set of its bits that are set.  A peer's rows   *)
(* are signatures of another chip under plans of its own.                  *)
(***************************************************************************)
EXTENDS UnkeyedGate, Sequences, FiniteSets

CONSTANTS Bits,      \* 64 in the code
          Evals,     \* n_eval
          LibLen,    \* n_train
          Missing, Empty, Skipped

ASSUME EvaluationAssumption == /\ IsFiniteSet(Bits) /\ Nonces = SUBSET Bits
                               /\ Evals \in Nat \ {0} /\ LibLen \in Nat \ {0}

\* A file that is missing holds nothing, and what is skipped has no rate.
ASSUME ValuesAssumption ==
  /\ Missing \notin {Empty, "whole"}
  /\ Missing \notin [1 .. LibLen -> [nonce : Nonces, raw : Raws, sig : [Slots -> Int]]]
  /\ Skipped \notin Nat

VARIABLES plan,       \* derive_plan, as the function of the nonce it is
          pairs,      \* <host>_paired_sigs.npz
          model,      \* <host>_t3_best.pt
          training,   \* where train.main is
          given,      \* whether --t3_pt names a model from elsewhere
          named,      \* what --own_recorded_npz names; "default": it is not given
          attack,     \* the attack under way
          recorded,   \* the signatures it replays
          evals,      \* evaluated so far in it
          hits,       \* accepted among them
          results     \* hits of the attacks that are done

trainVars == <<pairs, model, training>>
attackVars == <<given, named, attack, recorded, evals, hits, results>>
unkeyedVars == <<plan, trainVars, attackVars>>

Battery == <<"honest_own", "peer", "static_replay_no_nonce", "dynamic_replay",
             "nonce_only_mismatch">>

Attacks == {Battery[i] : i \in 1 .. 5}

Record(n, raw) == [nonce |-> n, raw |-> raw, sig |-> ReadRaw(plan[n], raw)]

\* What read may return on this chip, with what was measured.
Signatures == {Record(n, raw) : n \in Nonces, raw \in Raws}

\* Libraries recorded on this host, by this training or an earlier one.
Libraries == [1 .. LibLen -> Signatures]

PeerRows == {ReadRaw(p, raw) : p \in Plans, raw \in Raws}

UnkeyedInit == /\ plan \in [Nonces -> Plans]
               /\ pairs = Missing /\ model = Missing /\ training = "off"
               /\ given = FALSE /\ named = "default"
               /\ attack = "off" /\ recorded = << >>
               /\ evals = 0 /\ hits = 0
               /\ results = [a \in {} |-> 0]
-----------------------------------------------------------------------------
(* train.main.  The pairs are collected, then np.savez_compressed opens    *)
(* its file; torch.save opens the other when the training is over.         *)

\* Mutant: the model is saved before the library.
StartTraining_ModelFirst == /\ training = "off"
                            /\ model' = Empty
                            /\ training' = "model"
                            /\ UNCHANGED <<plan, pairs, attackVars>>

StartTraining == /\ training = "off"
                 /\ pairs' = Empty
                 /\ training' = "pairs"
                 /\ UNCHANGED <<plan, model, attackVars>>

SavePairs == /\ training = "pairs"
             /\ pairs' \in Libraries
             /\ training' = "pairs saved"
             /\ UNCHANGED <<plan, model, attackVars>>

SaveModel == /\ \/ training = "pairs saved" /\ model' = Empty /\ training' = "model"
                \/ training = "model" /\ model' = "whole" /\ training' = "off"
             /\ UNCHANGED <<plan, pairs, attackVars>>

TrainingEnds == /\ training # "off"
                /\ training' = "off"
                /\ UNCHANGED <<plan, pairs, model, attackVars>>
-----------------------------------------------------------------------------
(* attacks.main.                                                           *)

\* Without a model it exits; a torn one does not load.
StartAttacks == /\ attack = "off"
                /\ given' \in BOOLEAN
                /\ named' \in {"default", "recorded", "absent"}
                /\ given' \/ model = "whole"
                /\ attack' = "honest_own"
                /\ UNCHANGED <<plan, trainVars, recorded, evals, hits, results>>

\* A vector is scored under the plan of the nonce n.
Score(sig, n) == /\ evals < Evals
                 /\ evals' = evals + 1
                 /\ hits' = IF PlanPass(sig, plan[n]) THEN hits + 1 ELSE hits
                 /\ UNCHANGED <<plan, trainVars, given, named, attack, recorded, results>>

HonestOwn == /\ attack = "honest_own"
             /\ \E s \in Signatures : Score(s.sig, s.nonce)

Peer == /\ attack = "peer"
        /\ \E v \in PeerRows, n \in Nonces : Score(v, n)

StaticReplay == /\ attack = "static_replay_no_nonce"
                /\ \E n \in Nonces : Score(recorded[1].sig, n)

Distance(m, n) == Cardinality((m \ n) \cup (n \ m))

\* The first record whose nonce has the fewest bits that differ from n.
Nearest(n) ==
  LET nearer(i, j) == \/ Distance(recorded[i].nonce, n) < Distance(recorded[j].nonce, n)
                      \/ Distance(recorded[i].nonce, n) = Distance(recorded[j].nonce, n) /\ i <= j
  IN  recorded[CHOOSE i \in DOMAIN recorded : \A j \in DOMAIN recorded : nearer(i, j)]

DynamicReplay == /\ attack = "dynamic_replay" /\ recorded # << >>
                 /\ \E n \in Nonces : Score(Nearest(n).sig, n)

Mismatch == /\ attack = "nonce_only_mismatch"
            /\ \E s \in Signatures, n \in Nonces : Score(s.sig, n)

(* From an attack to the next: its accept rate is noted, and what the next *)
(* one replays is measured or loaded.  A torn library ends the process.    *)
After(a) == CASE a = "honest_own" -> "peer"
              [] a = "peer" -> "static_replay_no_nonce"
              [] a = "static_replay_no_nonce" -> "dynamic_replay"
              [] a = "dynamic_replay" -> "nonce_only_mismatch"
              [] a = "nonce_only_mismatch" -> "gates"

Note(r) == /\ results' = [a \in DOMAIN results \cup {attack} |->
                            IF a = attack THEN r ELSE results[a]]
           /\ attack' = After(attack)
           /\ evals' = 0 /\ hits' = 0

\* All are evaluated, or as many as the file of the peer holds.
Evaluated == evals = Evals \/ (attack = "peer" /\ evals > 0)

\* A file that is not there is skipped when its turn comes.
Skips == \/ attack = "peer"
         \/ attack = "dynamic_replay" /\ recorded = << >>

\* Mutant: the library of this host is taken as it is.
LibraryLoads_Torn == CASE named = "default" -> recorded' = IF pairs = Missing THEN << >> ELSE pairs
                       [] named = "recorded" -> recorded' \in Libraries
                       [] named = "absent" -> recorded' = << >>

\* The library that is named, or else that of this host's training.
LibraryLoads == CASE named = "default" ->
                       /\ pairs # Empty
                       /\ recorded' = IF pairs = Missing THEN << >> ELSE pairs
                  [] named = "recorded" -> recorded' \in Libraries
                  [] named = "absent" -> recorded' = << >>

Replayed == CASE attack' = "static_replay_no_nonce" ->
                   \E s \in Signatures : recorded' = <<s>>
              [] attack' = "dynamic_replay" -> LibraryLoads
              [] OTHER -> recorded' = << >>

NextAttack == /\ attack \in Attacks
              /\ \/ Evaluated /\ Note(hits)
                 \/ evals = 0 /\ Skips /\ Note(Skipped)
              /\ Replayed
              /\ UNCHANGED <<plan, trainVars, given, named>>

\* The gates are saved with the results; or the process is killed, or raises.
AttacksEnd == /\ attack # "off"
              /\ attack' = "off" /\ given' = FALSE /\ named' = "default"
              /\ recorded' = << >> /\ evals' = 0 /\ hits' = 0
              /\ results' = [a \in {} |-> 0]
              /\ UNCHANGED <<plan, trainVars>>

UnkeyedNext == \/ StartTraining \/ SavePairs \/ SaveModel \/ TrainingEnds
               \/ StartAttacks \/ HonestOwn \/ Peer \/ StaticReplay \/ DynamicReplay
               \/ Mismatch \/ NextAttack \/ AttacksEnd

UnkeyedSpec == UnkeyedInit /\ [][UnkeyedNext]_unkeyedVars
-----------------------------------------------------------------------------
FilesOK == /\ pairs \in Libraries \cup {Missing, Empty}
           /\ model \in {Missing, Empty, "whole"}
           /\ training \in {"off", "pairs", "pairs saved", "model"}

RecordedOK == recorded = << >> \/ recorded \in [1 .. 1 -> Signatures] \cup Libraries

CountsOK == evals \in 0 .. Evals /\ hits \in 0 .. evals

ResultsOK == /\ DOMAIN results \subseteq Attacks
             /\ \A a \in DOMAIN results : results[a] \in 0 .. Evals \cup {Skipped}

(* Type invariant: the files and what is in memory; what is replayed is    *)
(* one signature or a library, and was read on this chip under the nonce   *)
(* it is recorded with.                                                    *)
UnkeyedTypeOK == /\ plan \in [Nonces -> Plans]
                 /\ given \in BOOLEAN /\ named \in {"default", "recorded", "absent"}
                 /\ attack \in Attacks \cup {"off", "gates"}
                 /\ FilesOK /\ RecordedOK /\ CountsOK /\ ResultsOK

(* The gate of honest_own, accept rate 0.95 or more (attacks.py line 122), *)
(* is passed in every run of the battery: a signature read under a nonce   *)
(* is found in order under that nonce, wherever its plan has put the       *)
(* sleep.                                                                  *)
HonestOwnPasses ==
  "honest_own" \in DOMAIN results => 100 * results["honest_own"] >= 95 * Evals

(* A replayed signature passes under another nonce only by chance: the     *)
(* plans put sleeps that are near in one position, or one of the chip's    *)
(* readings happens to be near the sleep that is looked for (verifier.py   *)
(* lines 9 to 12: a static replay fails because the plan differs).         *)
ReplayNeedsChance ==
  \A i \in DOMAIN recorded, n \in Nonces :
    LET signed == plan[recorded[i].nonce]
    IN  PlanPass(recorded[i].sig, plan[n]) =>
          \/ Pos(signed) = Pos(plan[n]) /\ Near(signed.sleep, plan[n].sleep)
          \/ \E d \in Slots \ {SleepDim} : Near(recorded[i].raw[d], plan[n].sleep)

(* dynamic_replay is skipped only when --own_recorded_npz names no file,   *)
(* or, when nothing is named, under a model from elsewhere: where there is *)
(* a model of this host there is its library, whatever of training and     *)
(* evaluation was killed and started again, since the library is saved     *)
(* first (train.py lines 46 and 66, attacks.py lines 166 to 168).          *)
OwnModelHasLibrary ==
  "dynamic_replay" \in DOMAIN results /\ results["dynamic_replay"] = Skipped =>
    named = "absent" \/ (named = "default" /\ given)
=============================================================================
