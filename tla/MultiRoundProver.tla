-------------------------- MODULE MultiRoundProver --------------------------
(***************************************************************************)
(* The prover of the Tier-2 multi-round protocol                           *)
(* (src/protocol/multiround_protocol.py, class MultiRoundProver): a        *)
(* dictionary from nonce to the sample series drawn for it, filled by      *)
(* round1 and emptied by round3.                                           *)
(***************************************************************************)
EXTENDS Naturals

CONSTANTS Nonces, Series,
          NoSeries,          \* "nonce is not a key of _state"
          Evaluate(_, _),    \* evaluate_constraint(S, c)
          InRange(_, _)      \* the subset of c indexes within series S

VARIABLES samples,   \* _state: nonce -> series
          drawn,     \* ghost: series drawn under each nonce
          revealed   \* ghost: series revealed under each nonce

vars == <<samples, drawn, revealed>>

Init == /\ samples = [n \in Nonces |-> NoSeries]
        /\ drawn = [n \in Nonces |-> 0]
        /\ revealed = [n \in Nonces |-> 0]

(* Mutant: one slot for the series instead of a dictionary. *)
Round1_OneSlot(n, S) ==
  /\ samples' = [m \in Nonces |-> IF m = n THEN S ELSE NoSeries]
  /\ drawn' = [drawn EXCEPT ![n] = @ + 1]
  /\ UNCHANGED revealed

(* Mutant: a reading for one nonce replaces the series held for all. *)
Round1_SharedArray(n, S) ==
  /\ samples' = [m \in Nonces |->
                   IF m = n \/ samples[m] # NoSeries THEN S ELSE NoSeries]
  /\ drawn' = [drawn EXCEPT ![n] = @ + 1]
  /\ UNCHANGED revealed

(* The chip is read again at every call; the series kept for a nonce is    *)
(* the last one drawn.  S is whatever the chip's noise gives.              *)
Round1(n, S) ==
  /\ samples' = [samples EXCEPT ![n] = S]
  /\ drawn' = [drawn EXCEPT ![n] = @ + 1]
  /\ UNCHANGED revealed

(* Mutant: the first aggregate is left out. *)
Answers_FromSecond(n, cons) ==
  [k \in DOMAIN cons \ {1} |-> Evaluate(samples[n], cons[k])]

Answers(n, cons) == [k \in DOMAIN cons |-> Evaluate(samples[n], cons[k])]

Answerable(n, cons) == \A k \in DOMAIN cons : InRange(cons[k], samples[n])

(* Mutant: get instead of pop. *)
Forget_Keeps(n) == n \in Nonces /\ UNCHANGED samples

Forget(n) == samples' = [samples EXCEPT ![n] = NoSeries]

(* The series leaves the dictionary and goes out with its aggregates. *)
Round3(n, cons) ==
  /\ samples[n] # NoSeries
  /\ Answerable(n, cons)
  /\ Forget(n)
  /\ revealed' = [revealed EXCEPT ![n] = @ + 1]
  /\ UNCHANGED drawn

(* The pop comes first, so a series too short for a subset is lost with    *)
(* the IndexError.                                                         *)
Round3Raise(n, cons) ==
  /\ samples[n] # NoSeries
  /\ ~Answerable(n, cons)
  /\ Forget(n)
  /\ UNCHANGED <<drawn, revealed>>
=============================================================================
