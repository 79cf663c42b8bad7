------------------------- MODULE MultiRoundVerifier -------------------------
(***************************************************************************)
(* The verifier of the Tier-2 multi-round protocol                         *)
(* (src/protocol/multiround_protocol.py, class MultiRoundVerifier): a      *)
(* dictionary of open sessions keyed by nonce, and three handlers called   *)
(* by the transport in whatever order the messages arrive, with whatever   *)
(* a prover sent.  Floats are abstract: Evaluate is the aggregate f_k(S),  *)
(* FarApart the test |a - b| > eps.  The hash is ideal: a commitment is    *)
(* the pair it was computed from.                                          *)
(***************************************************************************)
EXTENDS Naturals, Sequences

CONSTANTS Nonces,            \* nonces in use
          Series,            \* float32 sample series
          ClaimLists,        \* lists t of claimed aggregates a prover may send
          MaxSessions,       \* bound: round1_recv calls modelled
          Absent,            \* "nonce is not a key of _open"
          Evaluate(_, _),    \* evaluate_constraint(S, c)
          FarApart(_, _, _), \* FarApart(name, a, b): abs(a - b) > eps[name]
          InRange(_, _)      \* the subset of c indexes within series S

ASSUME MaxSessionsAssumption == MaxSessions \in Nat

ASSUME ClaimListsAssumption == \A t \in ClaimLists : Len(t) \in Nat

VARIABLES open,      \* _open: nonce -> entry
          session,   \* ghost: number of the nonce's latest session
          opened,    \* ghost: sessions opened so far
          issued,    \* ghost: <<session, commitment>> at each round2_send
          outcomes   \* ghost: what round3_verify returned or raised

vars == <<open, session, opened, issued, outcomes>>

Commits == Nonces \X Series

CommitSamples(n, S) == <<n, S>>

Names == <<"median", "variance", "lag1_acf", "count_above_q", "weighted_sum">>

NumConstraints == 5

DeriveConstraints(n) ==
  [k \in 1..NumConstraints |-> [nonce |-> n, name |-> Names[k]]]

(* An entry without the key 'constraints' has cons = <<>>. *)
Entries == [commit : Commits,
            cons   : {<<>>} \cup {DeriveConstraints(n) : n \in Nonces}]

ASSUME AbsentAssumption == Absent \notin Entries

Results == {"accepted", "commit_mismatch", "constraint_violation",
            "KeyError", "IndexError"}

Init == /\ open = [n \in Nonces |-> Absent]
        /\ session = [n \in Nonces |-> 0]
        /\ opened = 0
        /\ issued = {}
        /\ outcomes = {}

(* Mutant: an entry already there keeps its constraints. *)
Round1Recv_KeepsConstraints(n, c) ==
  /\ opened < MaxSessions
  /\ open' = [open EXCEPT ![n] =
       [commit |-> c, cons |-> IF open[n] = Absent THEN <<>> ELSE open[n].cons]]
  /\ opened' = opened + 1
  /\ session' = [session EXCEPT ![n] = opened + 1]
  /\ UNCHANGED <<issued, outcomes>>

(* A commitment arrives: the entry is replaced whole, so the constraints   *)
(* of an earlier round under this nonce go with it.                        *)
Round1Recv(n, c) ==
  /\ opened < MaxSessions
  /\ open' = [open EXCEPT ![n] = [commit |-> c, cons |-> <<>>]]
  /\ opened' = opened + 1
  /\ session' = [session EXCEPT ![n] = opened + 1]
  /\ UNCHANGED <<issued, outcomes>>

(* Mutant: a second call extends the list of constraints. *)
Round2Send_Extends(n) ==
  /\ open[n] # Absent
  /\ open' = [open EXCEPT ![n].cons = @ \o DeriveConstraints(n)]
  /\ issued' = issued \cup {<<session[n], open[n].commit>>}
  /\ UNCHANGED <<session, opened, outcomes>>

(* The caller asks for the constraints; KeyError (no change) when absent. *)
Round2Send(n) ==
  /\ open[n] # Absent
  /\ open' = [open EXCEPT ![n].cons = DeriveConstraints(n)]
  /\ issued' = issued \cup {<<session[n], open[n].commit>>}
  /\ UNCHANGED <<session, opened, outcomes>>

(* Mutant: the entry is looked up and stays. *)
Close_WithoutPop(n, S, t, result) ==
  /\ outcomes' = outcomes \cup
       {[nonce |-> n, session |-> session[n], result |-> result, series |-> S,
         answers |-> Len(t)]}
  /\ UNCHANGED <<open, session, opened, issued>>

(* round3_verify takes the entry out before anything can fail. *)
Close(n, S, t, result) ==
  /\ open' = [open EXCEPT ![n] = Absent]
  /\ outcomes' = outcomes \cup
       {[nonce |-> n, session |-> session[n], result |-> result, series |-> S,
         answers |-> Len(t)]}
  /\ UNCHANGED <<session, opened, issued>>

Compared(n, t) == DOMAIN open[n].cons \cap DOMAIN t    \* zip(cons, t_claimed)

Raises(n, S, t) == \E k \in Compared(n, t) : ~InRange(open[n].cons[k], S)

Violates(n, S, t) ==
  \E k \in Compared(n, t) :
     LET c == open[n].cons[k] IN FarApart(c.name, t[k], Evaluate(S, c))

Challenged(n) == open[n] # Absent /\ open[n].cons # <<>>

Opened(n, S) == CommitSamples(n, S) = open[n].commit

(* Mutant: missing constraints are read as none to check. *)
Round3Unchallenged_Defaults(n, S, t) ==
  /\ open[n] # Absent /\ open[n].cons = <<>>
  /\ Close(n, S, t, IF Opened(n, S) THEN "accepted" ELSE "commit_mismatch")

Round3Unchallenged(n, S, t) ==
  /\ open[n] # Absent /\ open[n].cons = <<>>
  /\ Close(n, S, t, "KeyError")

Round3Mismatch(n, S, t) ==
  /\ Challenged(n) /\ ~Opened(n, S)
  /\ Close(n, S, t, "commit_mismatch")

Round3Raise(n, S, t) ==
  /\ Challenged(n) /\ Opened(n, S) /\ Raises(n, S, t)
  /\ Close(n, S, t, "IndexError")

Round3Violation(n, S, t) ==
  /\ Challenged(n) /\ Opened(n, S) /\ ~Raises(n, S, t) /\ Violates(n, S, t)
  /\ Close(n, S, t, "constraint_violation")

Round3Accept(n, S, t) ==
  /\ Challenged(n) /\ Opened(n, S) /\ ~Raises(n, S, t) /\ ~Violates(n, S, t)
  /\ Close(n, S, t, "accepted")

Round3Verify(n, S, t) ==
  \/ Round3Unchallenged(n, S, t)
  \/ Round3Mismatch(n, S, t)
  \/ Round3Raise(n, S, t)
  \/ Round3Violation(n, S, t)
  \/ Round3Accept(n, S, t)

Next == \E n \in Nonces :
          \/ \E c \in Commits : Round1Recv(n, c)
          \/ Round2Send(n)
          \/ \E S \in Series, t \in ClaimLists : Round3Verify(n, S, t)

Spec == Init /\ [][Next]_vars

-----------------------------------------------------------------------------
(* Type invariant: _open maps nonces to entries of round1_recv/round2_send. *)
TypeOK ==
  /\ open \in [Nonces -> Entries \cup {Absent}]
  /\ session \in [Nonces -> Nat]
  /\ opened \in Nat
  /\ issued \subseteq (Nat \X Commits)
  /\ outcomes \subseteq [nonce : Nonces, session : Nat, result : Results,
                         series : Series, answers : Nat]

(* An accepted series was already committed to, in the same session, when  *)
(* that session's constraints were handed out: neither a later round1_recv *)
(* nor another session's constraints can stand in (lines 15-17, 167-184).  *)
AcceptedSeriesWasBound ==
  \A o \in outcomes :
     o.result = "accepted" =>
       <<o.session, CommitSamples(o.nonce, o.series)>> \in issued

(* A session ends once: repeated round3_verify calls under the same nonce, *)
(* after any outcome including an exception, never report on a session     *)
(* twice (the pop at line 176 precedes every return and every raise).      *)
OneOutcomePerSession ==
  \A o1, o2 \in outcomes : o1.session = o2.session => o1 = o2

(* Every accepted answer list covered all five constraints, as the module  *)
(* docstring says (line 38: "5/5 must pass").                              *)
AcceptedAnsweredAll ==
  \A o \in outcomes : o.result = "accepted" => o.answers >= NumConstraints

-----------------------------------------------------------------------------
(* The abstract session the verifier implements. *)
stageBar == [n \in Nonces |->
               IF open[n] = Absent THEN "idle"
               ELSE IF open[n].cons = <<>> THEN "committed" ELSE "challenged"]

boundBar == [n \in Nonces |-> IF open[n] = Absent THEN Absent ELSE open[n].commit]

acceptedBar == {<<o.nonce, o.session, o.series>> :
                  o \in {x \in outcomes : x.result = "accepted"}}
OpensBar(c, n, S) == c = CommitSamples(n, S)

CR == INSTANCE CommitReveal WITH stage <- stageBar, bound <- boundBar,
        accepted <- acceptedBar, NoCommit <- Absent, Opens <- OpensBar

(* The dictionary and its handlers implement the commit-challenge-reveal   *)
(* discipline: whatever the order of calls, every step is one the abstract *)
(* session allows (acceptance only from a challenged session, for a series *)
(* opening the commitment on record, and the session over with it).        *)
RefinesCommitReveal == CR!Spec
=============================================================================
