----------------------------- MODULE MultiRound -----------------------------
(***************************************************************************)
(* The multi-round protocol end to end: an honest prover, the verifier,    *)
(* the caller that drives the verifier, and a transport.  The repository   *)
(* has no transport for this protocol (its smoke test calls both sides in  *)
(* turn), so the network here is external: it may lose, delay, reorder or  *)
(* deliver twice, within named bounds.                                     *)
(***************************************************************************)
EXTENDS Naturals, Sequences, FiniteSets

CONSTANTS Nonces, Series, ClaimLists, MaxSessions, Absent, NoSeries,
          Evaluate(_, _), FarApart(_, _, _), InRange(_, _),
          MaxSends,    \* bound: nonces the caller sends, retries included
          MaxFaults    \* bound: messages dropped or delivered once more

VARIABLES samples, drawn, revealed,                 \* the prover
          open, session, opened, issued, outcomes,  \* the verifier
          due,      \* nonces whose round1_recv awaits its round2_send
          net,      \* messages in flight
          tries,    \* tries[n]: times nonce n was sent
          losses, dups

P == INSTANCE MultiRoundProver
V == INSTANCE MultiRoundVerifier

prover == <<samples, drawn, revealed>>

verifier == <<open, session, opened, issued, outcomes>>

vars == <<prover, verifier, due, net, tries, losses, dups>>

ASSUME BoundsAssumption ==
  MaxSessions \in Nat /\ MaxSends \in Nat /\ MaxFaults \in Nat

(* Neither dictionary holds its own mark for a missing key. *)
ASSUME AbsentAssumption == Absent \notin V!Entries /\ NoSeries \notin Series

(* What the prover computes for a series is among the lists that can be    *)
(* sent, and no aggregate is out of tolerance of itself: abs(a - a) > eps  *)
(* is false of every float, NaN and infinities included.                   *)
ASSUME AggregatesAssumption ==
  /\ \A t \in ClaimLists : Len(t) \in Nat
  /\ \A S \in Series, n \in Nonces :
       LET cons == V!DeriveConstraints(n)
           t    == [k \in 1..V!NumConstraints |-> Evaluate(S, cons[k])]
       IN  /\ t \in ClaimLists
           /\ \A k \in 1..V!NumConstraints : ~FarApart(cons[k].name, t[k], t[k])

Messages ==
  [type : {"nonce"}, nonce : Nonces]
    \cup [type : {"r1"}, nonce : Nonces, commit : V!Commits]
    \cup [type : {"r2"}, nonce : Nonces, cons : {V!DeriveConstraints(n) : n \in Nonces}]
    \cup [type : {"r3"}, nonce : Nonces, series : Series, claims : ClaimLists]

Init == /\ P!Init /\ V!Init
        /\ due = {} /\ net = {}
        /\ tries = [n \in Nonces |-> 0]
        /\ losses = 0 /\ dups = 0

(* m arrives, perhaps not for the last time, and `sent' goes out. *)
Deliver(m, sent) ==
  /\ m \in net
  /\ \/ net' = (net \ {m}) \cup sent /\ UNCHANGED dups
     \/ losses + dups < MaxFaults /\ net' = net \cup sent /\ dups' = dups + 1
  /\ UNCHANGED losses

Sent == {s \in Nonces \X (1..MaxSends) : s[2] <= tries[s[1]]}

(* The verifier's caller sends a nonce, again after a timeout of its own. *)
SendNonce(n) ==
  /\ Cardinality(Sent) < MaxSends
  /\ tries' = [tries EXCEPT ![n] = @ + 1]
  /\ net' = net \cup {[type |-> "nonce", nonce |-> n]}
  /\ UNCHANGED <<prover, verifier, due, losses, dups>>

ProverRound1(n) ==
  \E S \in Series :
    /\ Deliver([type |-> "nonce", nonce |-> n],
               {[type |-> "r1", nonce |-> n, commit |-> V!CommitSamples(n, S)]})
    /\ P!Round1(n, S)
    /\ UNCHANGED <<verifier, due, tries>>

VerifierRound1(n) ==
  \E c \in V!Commits :
    /\ Deliver([type |-> "r1", nonce |-> n, commit |-> c], {})
    /\ V!Round1Recv(n, c)
    /\ due' = due \cup {n}
    /\ UNCHANGED <<prover, tries>>

(* The caller follows round1_recv with round2_send, which raises KeyError   *)
(* when the session was closed in between.                                  *)
VerifierRound2(n) ==
  /\ n \in due
  /\ due' = due \ {n}
  /\ \/ /\ V!Round2Send(n)
        /\ net' = net \cup {[type |-> "r2", nonce |-> n,
                             cons |-> V!DeriveConstraints(n)]}
     \/ open[n] = Absent /\ UNCHANGED <<verifier, net>>
  /\ UNCHANGED <<prover, tries, losses, dups>>

ProverRound3(n) ==
  LET cons == V!DeriveConstraints(n)
      r2   == [type |-> "r2", nonce |-> n, cons |-> cons]
      r3   == [type |-> "r3", nonce |-> n, series |-> samples[n],
               claims |-> P!Answers(n, cons)]
  IN  /\ \/ Deliver(r2, {r3}) /\ P!Round3(n, cons)
         \/ Deliver(r2, {}) /\ P!Round3Raise(n, cons)
         \/ Deliver(r2, {}) /\ samples[n] = NoSeries /\ UNCHANGED prover \* KeyError
      /\ UNCHANGED <<verifier, due, tries>>

VerifierRound3(n) ==
  \E m \in net :
    /\ m.type = "r3" /\ m.nonce = n
    /\ Deliver(m, {})
    /\ \/ V!Round3Verify(n, m.series, m.claims)
       \/ open[n] = Absent /\ UNCHANGED verifier                         \* KeyError
    /\ UNCHANGED <<prover, due, tries>>

Lose == /\ losses + dups < MaxFaults
        /\ \E m \in net : net' = net \ {m}
        /\ losses' = losses + 1
        /\ UNCHANGED <<prover, verifier, due, tries, dups>>

Handle(n) == \/ ProverRound1(n) \/ VerifierRound1(n) \/ VerifierRound2(n)
             \/ ProverRound3(n) \/ VerifierRound3(n)

Next == Lose \/ \E n \in Nonces : SendNonce(n) \/ Handle(n)

Spec == Init /\ [][Next]_vars

(* A message in flight is delivered and handled, and the caller goes on.   *)
Fairness == \A n \in Nonces : WF_vars(Handle(n))

FairSpec == Spec /\ Fairness

-----------------------------------------------------------------------------
(* Type invariant. *)
TypeOK == /\ V!TypeOK
          /\ samples \in [Nonces -> Series \cup {NoSeries}]
          /\ drawn \in [Nonces -> Nat] /\ revealed \in [Nonces -> Nat]
          /\ due \subseteq Nonces /\ net \subseteq Messages
          /\ tries \in [Nonces -> 0..MaxSends]
          /\ losses \in 0..MaxFaults /\ dups \in 0..MaxFaults

(* The honest prover is turned down only through repetition: a commitment  *)
(* mismatch means that round1 ran more than once under that nonce (line    *)
(* 147 overwrites the series), a closed session without constraints that a *)
(* message came twice, and no aggregate it computed is ever out of         *)
(* tolerance, whatever other sessions are under way.                       *)
HonestRejections ==
  \A o \in outcomes :
    \/ o.result = "accepted"
    \/ o.result = "commit_mismatch" /\ drawn[o.nonce] > 1
    \/ o.result = "KeyError" /\ (drawn[o.nonce] > 1 \/ dups > 0)

(* No series leaves the prover twice: each reveal, and the series still    *)
(* held, accounts for a reading of the chip of its own (the pop at line    *)
(* 151), however often R2 is delivered.                                    *)
RevealedAtMostOnce ==
  \A n \in Nonces :
    revealed[n] + (IF samples[n] = NoSeries THEN 0 ELSE 1) <= drawn[n]

(* So far the transport has neither lost nor repeated a message, and the   *)
(* caller has sent nonce n once.                                           *)
Faultless(n) == losses = 0 /\ dups = 0 /\ tries[n] = 1

(* The commitment on record is to a series too short for a constraint,     *)
(* which the prover has lost to the IndexError.                            *)
Starved(n) ==
  /\ samples[n] = NoSeries
  /\ \E S \in Series :
       /\ open[n] # Absent /\ open[n].commit = V!CommitSamples(n, S)
       /\ \E k \in 1..V!NumConstraints : ~InRange(V!DeriveConstraints(n)[k], S)

(* Without such faults a finished exchange leaves nothing behind in either *)
(* dictionary (neither side ever evicts), whatever the other nonces do; a  *)
(* series too short leaves the verifier's session open for good.           *)
NothingLeftBehind ==
  \A n \in Nonces :
    Faultless(n) /\ n \notin due /\ (\A m \in net : m.nonce # n)
      => samples[n] = NoSeries /\ (open[n] = Absent \/ Starved(n))

(* Without such faults every nonce sent gets the acceptance due to an      *)
(* honest prover, unless its series is too short.                          *)
EveryExchangeAccepted ==
  \A n \in Nonces :
    tries[n] > 0 ~> \/ ~Faultless(n) \/ Starved(n)
                    \/ \E o \in outcomes : o.nonce = n /\ o.result = "accepted"
=============================================================================
