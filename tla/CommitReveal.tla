---------------------------- MODULE CommitReveal ----------------------------
(***************************************************************************)
(* What the multi-round verifier promises, without its bookkeeping: a      *)
(* session fixes one commitment, is challenged after that, and is decided  *)
(* at most once, in favour of nothing but the series it committed to.      *)
(* MultiRoundVerifier is shown to implement this module.                   *)
(***************************************************************************)
EXTENDS Naturals

CONSTANTS Nonces,          \* the session keys
          Commits,         \* the commitments a prover may send
          Series,          \* the sample series a prover may reveal
          NoCommit,        \* no commitment on record
          Opens(_, _, _)   \* Opens(c, n, s): s opens commitment c under nonce n

VARIABLES stage,      \* stage[n]: how far the session of nonce n has come
          bound,      \* bound[n]: the commitment on record, while a session is under way
          session,    \* session[n]: the number of n's latest session
          accepted    \* the <<nonce, session, series>> accepted so far

vars == <<stage, bound, session, accepted>>

Stages == {"idle", "committed", "challenged"}

Init == /\ stage = [n \in Nonces |-> "idle"]
        /\ bound = [n \in Nonces |-> NoCommit]
        /\ session = [n \in Nonces |-> 0]
        /\ accepted = {}

(* A session starts with its commitment; one already under way is dropped. *)
Commit(n, c) == /\ stage' = [stage EXCEPT ![n] = "committed"]
                /\ bound' = [bound EXCEPT ![n] = c]
                /\ session' = [session EXCEPT ![n] = session'[n]]
                /\ session'[n] > session[n]
                /\ UNCHANGED accepted

(* The questions go out only when a commitment is on record. *)
Challenge(n) == /\ stage[n] # "idle"
                /\ stage' = [stage EXCEPT ![n] = "challenged"]
                /\ UNCHANGED <<bound, session, accepted>>

Close(n) == /\ stage' = [stage EXCEPT ![n] = "idle"]
            /\ bound' = [bound EXCEPT ![n] = NoCommit]
            /\ UNCHANGED session

(* Only a challenged session is accepted, for a series that opens its own  *)
(* commitment, and it ends there.                                          *)
Accept(n, s) == /\ stage[n] = "challenged"
                /\ Opens(bound[n], n, s)
                /\ Close(n)
                /\ accepted' = accepted \cup {<<n, session[n], s>>}

(* Any session may end without acceptance. *)
End(n) == /\ stage[n] # "idle"
          /\ Close(n)
          /\ UNCHANGED accepted

Next == \E n \in Nonces :
          \/ \E c \in Commits : Commit(n, c)
          \/ Challenge(n)
          \/ \E s \in Series : Accept(n, s)
          \/ End(n)

Spec == Init /\ [][Next]_vars
=============================================================================
