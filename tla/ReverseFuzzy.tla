---------------------------- MODULE ReverseFuzzy ----------------------------
(***************************************************************************)
(* The reverse fuzzy extractor (src/protocol/reverse_fuzzy.py): a verifier *)
(* that keeps one enrolment and compares noisy fingerprints with it        *)
(* through an error-correcting code.  A bit string is the set of its       *)
(* positions that are 1, xor is symmetric difference.  bchlib is external: *)
(* a bounded-distance decoder of radius t on the positions it uses; of the *)
(* last ecc byte it ignores the bits beyond ecc_bits (Pad), and correct()  *)
(* leaves them as they came.  SHA-256 is ideal: a key is the string hashed.*)
(***************************************************************************)
EXTENDS Integers, FiniteSets

CONSTANTS Positions,   \* the N_BITS positions of a codeword
          Pad,         \* positions of the ecc bytes beyond bch.ecc_bits
          Code,        \* codewords of the (shortened) BCH code
          T,           \* self.t
          None         \* no enrolment; no key

Words == SUBSET Positions

Xor(a, b) == (a \ b) \cup (b \ a)

Hamming(a, b) == Cardinality(Xor(a, b))

ASSUME PositionsAssumption == IsFiniteSet(Positions) /\ T \in Nat

(* Codewords are zero beyond ecc_bits and at least 2t + 1 apart.            *)
ASSUME CodeAssumption ==
  /\ Code \subseteq SUBSET (Positions \ Pad)
  /\ \A c, d \in Code : c # d => Hamming(c, d) > 2 * T

VARIABLES enrollment,   \* self._enrollment
          answer        \* what the latest call of verify returned

vars == <<enrollment, answer>>

Enrollments == [w_ref : Words, P : Words, K : Words]

Answers == [w_noisy : Words, verdict : {"accept", "reject"},
            K : Words \cup {None}, ham : Nat]

ASSUME NoneAssumption == \A w \in Words : w # None

Init == enrollment = None /\ answer = None

(* Mutant: the key is not stored. *)
Enroll_WithoutKey(w) ==
  \E c \in Code :
    /\ enrollment' = [w_ref |-> w, P |-> Xor(w, c)]
    /\ answer' = None

(* A fresh random codeword masks the reference; an earlier enrolment goes. *)
Enroll(w) ==
  \E c \in Code :
    /\ enrollment' = [w_ref |-> w, P |-> Xor(w, c), K |-> c]
    /\ answer' = None

WithinT(v) == {c \in Code : Hamming(c, v \ Pad) <= T}

(* Mutant: decode succeeded, correct() not called. *)
TryDecode_Uncorrected(v) == IF WithinT(v) = {} THEN None ELSE v

(* _try_decode: None, or the codeword with the ignored bits as received.    *)
TryDecode(v) == IF WithinT(v) = {} THEN None
                ELSE (CHOOSE c \in WithinT(v) : TRUE) \cup (v \cap Pad)

(* Mutant: any codeword will do. *)
Verify_AnyCodeword(w) ==
  /\ enrollment # None
  /\ LET K == TryDecode(Xor(w, enrollment.P))
     IN  answer' = [w_noisy |-> w,
                    verdict |-> IF K # None THEN "accept" ELSE "reject",
                    K |-> K, ham |-> Hamming(enrollment.w_ref, w)]
  /\ UNCHANGED enrollment

(* The reading is unmasked and decoded; the key recovered must be the one  *)
(* enrolled.                                                               *)
Verify(w) ==
  /\ enrollment # None                                \* "must enroll first"
  /\ LET K == TryDecode(Xor(w, enrollment.P))
     IN  answer' = [w_noisy |-> w,
                    verdict |-> IF K = enrollment.K THEN "accept" ELSE "reject",
                    K |-> K, ham |-> Hamming(enrollment.w_ref, w)]
  /\ UNCHANGED enrollment

Next == \E w \in Words : Enroll(w) \/ Verify(w)

Spec == Init /\ [][Next]_vars

-----------------------------------------------------------------------------
(* Type invariant. *)
TypeOK == /\ enrollment \in Enrollments \cup {None}
          /\ answer \in Answers \cup {None}

(* Whatever codeword the enrolment drew, and however many enrolments there *)
(* were before, an accepted fingerprint is within t bits of the reference  *)
(* enrolled last, and the key handed back is that enrolment's (lines       *)
(* 49-50, 186-187).                                                        *)
AcceptedIsClose ==
  answer # None /\ answer.verdict = "accept" =>
    /\ Hamming(enrollment.w_ref, answer.w_noisy) <= T
    /\ answer.K = enrollment.K

(* A fingerprint within t bits of the reference is accepted, if none of    *)
(* the differing bits is one the code does not use.                        *)
CloseIsAccepted ==
  answer # None /\ Hamming(enrollment.w_ref, answer.w_noisy) <= T
    /\ Xor(enrollment.w_ref, answer.w_noisy) \cap Pad = {}
    => answer.verdict = "accept"

(* The module docstring (line 48): "If Hamming(w_ref, w_noisy) <= t then   *)
(* K' == K (always correct)".                                              *)
CloseAlwaysAccepted ==
  answer # None /\ Hamming(enrollment.w_ref, answer.w_noisy) <= T
    => answer.verdict = "accept"
=============================================================================
