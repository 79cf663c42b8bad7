-------------------------- MODULE MultiRoundProofs --------------------------
(***************************************************************************)
(* Proofs about MultiRound, the whole protocol over a network that may     *)
(* lose and repeat messages, for any nonces, series, aggregates and        *)
(* tolerances and any bounds on sends, sessions and faults.                *)
(***************************************************************************)
EXTENDS MultiRound, FiniteSetTheorems, TLAPS

(* The four kinds of message.  An honest prover's claims are the           *)
(* aggregates of the series it sends.                                      *)
Cons(n) == V!DeriveConstraints(n)

HonestClaims(n, S) == [k \in 1..V!NumConstraints |-> Evaluate(S, Cons(n)[k])]

Indexed(n, S) == \A k \in 1..V!NumConstraints : InRange(Cons(n)[k], S)

NonceMsg(n) == [type |-> "nonce", nonce |-> n]

R1(n, S) == [type |-> "r1", nonce |-> n, commit |-> V!CommitSamples(n, S)]

R2(n) == [type |-> "r2", nonce |-> n, cons |-> Cons(n)]

R3(n, S) == [type |-> "r3", nonce |-> n, series |-> S, claims |-> HonestClaims(n, S)]

Entry(n, S, cons) == [commit |-> V!CommitSamples(n, S), cons |-> cons]

About(n) == {m \in net : m.nonce = n}

(* The network carries what the two sides send, and a reveal only of a     *)
(* series long enough for its aggregates.                                  *)
NetIsHonest ==
  \A m \in net : \E n \in Nonces :
    \/ m = NonceMsg(n) \/ m = R2(n)
    \/ \E S \in Series : m = R1(n, S) \/ (m = R3(n, S) /\ Indexed(n, S))

(* An open session holds a commitment made under its own nonce. *)
OpenIsHonest ==
  \A n \in Nonces :
    open[n] # Absent =>
      \E S \in Series : open[n] \in {Entry(n, S, <<>>), Entry(n, S, Cons(n))}

(* Series S plays a part in the exchange of nonce n. *)
Bound(n, S) == \/ samples[n] = S
               \/ R1(n, S) \in net \/ R3(n, S) \in net
               \/ open[n] \in {Entry(n, S, <<>>), Entry(n, S, Cons(n))}

(* Before round1 nothing but the nonce has been sent. *)
Fresh(n) ==
  drawn[n] = 0 =>
    open[n] = Absent /\ n \notin due /\ R2(n) \notin net
      /\ \A S \in Series : ~Bound(n, S)

(* After one round1 there is one series. *)
OneSeries(n) ==
  drawn[n] <= 1 => \A S, T \in Series : Bound(n, S) /\ Bound(n, T) => S = T

(* After one round1 and no repetition, the commitment arrives before any   *)
(* constraint is sent, and constraints stay on record until the reveal.    *)
InOrder(n) ==
  drawn[n] <= 1 /\ dups = 0 =>
    /\ (\E S \in Series : R1(n, S) \in net)
         => /\ open[n] = Absent /\ n \notin due /\ R2(n) \notin net
            /\ \A S \in Series : R3(n, S) \notin net
    /\ R2(n) \in net \/ (\E S \in Series : R3(n, S) \in net)
         => \A S \in Series : open[n] # Entry(n, S, <<>>)

Placed(n, msgs, held, entry, isDue) ==
  About(n) = msgs /\ samples[n] = held /\ open[n] = entry /\ (n \in due <=> isDue)

(* The states of an exchange whose nonce was sent once, without loss or    *)
(* repetition.                                                             *)
UnderWay(n) ==
  \/ Placed(n, {NonceMsg(n)}, NoSeries, Absent, FALSE)
  \/ \E S \in Series :
       \/ Placed(n, {R1(n, S)}, S, Absent, FALSE)
       \/ Placed(n, {}, S, Entry(n, S, <<>>), TRUE)
       \/ Placed(n, {R2(n)}, S, Entry(n, S, Cons(n)), FALSE)
       \/ Placed(n, {R3(n, S)}, NoSeries, Entry(n, S, Cons(n)), FALSE)
       \/ ~Indexed(n, S) /\ Placed(n, {}, NoSeries, Entry(n, S, Cons(n)), FALSE)
  \/ Placed(n, {}, NoSeries, Absent, FALSE)

Tidy(n) ==
  losses = 0 /\ dups = 0 =>
    /\ tries[n] = 0 => Placed(n, {}, NoSeries, Absent, FALSE)
    /\ tries[n] = 1 => UnderWay(n)

Local(n) == Fresh(n) /\ OneSeries(n) /\ InOrder(n) /\ Tidy(n)

IInv == /\ TypeOK /\ IsFiniteSet(Sent) /\ NetIsHonest /\ OpenIsHonest
        /\ RevealedAtMostOnce /\ HonestRejections
        /\ \A n \in Nonces : Local(n)

-----------------------------------------------------------------------------
(* What tells the messages apart. *)
LEMMA MessagesAre ==
  ASSUME NEW n \in Nonces, NEW S \in Series
  PROVE  /\ NonceMsg(n).type = "nonce" /\ NonceMsg(n).nonce = n
         /\ R1(n, S).type = "r1" /\ R1(n, S).nonce = n
         /\ R1(n, S).commit = V!CommitSamples(n, S)
         /\ R2(n).type = "r2" /\ R2(n).nonce = n
         /\ R3(n, S).type = "r3" /\ R3(n, S).nonce = n
         /\ R3(n, S).series = S /\ R3(n, S).claims = HonestClaims(n, S)
BY DEF NonceMsg, R1, R2, R3

LEMMA MessagesDiffer ==
  ASSUME NEW n \in Nonces, NEW k \in Nonces, NEW S \in Series, NEW T \in Series
  PROVE  /\ NonceMsg(n) # R1(k, S) /\ NonceMsg(n) # R2(k) /\ NonceMsg(n) # R3(k, S)
         /\ R1(n, S) # R2(k) /\ R1(n, S) # R3(k, T) /\ R2(n) # R3(k, S)
         /\ R1(n, S) = R1(k, T) => n = k /\ S = T
         /\ R3(n, S) = R3(k, T) => n = k /\ S = T
         /\ R2(n) = R2(k) => n = k
<1>1. V!CommitSamples(n, S) = V!CommitSamples(k, T) => n = k /\ S = T
  BY DEF V!CommitSamples
<1> QED BY <1>1, MessagesAre

LEMMA MessagesTyped ==
  ASSUME NEW n \in Nonces, NEW S \in Series
  PROVE  {NonceMsg(n), R1(n, S), R2(n), R3(n, S)} \subseteq Messages
<1>1. HonestClaims(n, S) \in ClaimLists
  BY AggregatesAssumption DEF HonestClaims, Cons
<1>2. R3(n, S) \in Messages
  BY <1>1 DEF R3, Messages
<1>3. R1(n, S) \in Messages
  BY DEF R1, Messages, V!Commits, V!CommitSamples
<1>4. R2(n) \in Messages /\ NonceMsg(n) \in Messages
  BY DEF R2, NonceMsg, Messages, Cons
<1> QED BY <1>2, <1>3, <1>4

(* The constraints of a nonce, and the entries of a session. *)
LEMMA ConsAre ==
  ASSUME NEW n \in Nonces
  PROVE  DOMAIN Cons(n) = 1..V!NumConstraints /\ Cons(n) # <<>>
<1>1. DOMAIN Cons(n) = 1..5 /\ V!NumConstraints = 5
  BY DEF Cons, V!DeriveConstraints, V!NumConstraints
<1>2. 1 \in 1..5 /\ 1 \notin DOMAIN <<>>
  OBVIOUS
<1> QED BY <1>1, <1>2

LEMMA EntriesAre ==
  ASSUME NEW n \in Nonces, NEW S \in Series, NEW cons \in {<<>>, Cons(n)}
  PROVE  /\ Entry(n, S, cons) \in V!Entries /\ Entry(n, S, cons) # Absent
         /\ Entry(n, S, cons).cons = cons
         /\ Entry(n, S, cons).commit = V!CommitSamples(n, S)
<1>1. Entry(n, S, cons) \in V!Entries
  BY DEF Entry, V!Entries, V!Commits, V!CommitSamples, Cons
<1> QED BY <1>1, AbsentAssumption DEF Entry

LEMMA EntriesDiffer ==
  ASSUME NEW n \in Nonces, NEW S \in Series, NEW T \in Series,
         NEW c \in {<<>>, Cons(n)}, NEW d \in {<<>>, Cons(n)},
         Entry(n, S, c) = Entry(n, T, d)
  PROVE  S = T /\ c = d
<1>1. V!CommitSamples(n, S) = V!CommitSamples(n, T) /\ c = d
  BY EntriesAre
<1> QED BY <1>1 DEF V!CommitSamples

-----------------------------------------------------------------------------
(* A delivery takes out at most the message delivered and puts in what it  *)
(* gives rise to; other nonces see nothing of it.                          *)
LEMMA Delivery ==
  ASSUME dups \in Nat, NEW n \in Nonces, NEW m, m.nonce = n, NEW new,
         \A x \in new : x.nonce = n, Deliver(m, new)
  PROVE  /\ m \in net /\ losses' = losses
         /\ dups' \in Nat /\ dups' >= dups
         /\ net' \subseteq net \cup new /\ new \subseteq net'
         /\ net \subseteq net' \cup {m}
         /\ \A k \in Nonces \ {n} : About(k)' = About(k)
         /\ dups' = 0 => About(n)' = (About(n) \ {m}) \cup new
<1>1. /\ m \in net /\ losses' = losses
      /\ \/ net' = (net \ {m}) \cup new /\ dups' = dups
         \/ net' = net \cup new /\ dups' = dups + 1
  BY DEF Deliver
<1>2. \A k \in Nonces \ {n} : About(k)' = About(k)
  BY <1>1 DEF About
<1>3. dups' = 0 => About(n)' = (About(n) \ {m}) \cup new
  <2>1. ASSUME dups' = 0 PROVE net' = (net \ {m}) \cup new
    BY <1>1, <2>1
  <2> QED BY <2>1 DEF About
<1> QED BY <1>1, <1>2, <1>3

(* What a step does to nonce k when it is about another one. *)
Same(k) ==
  /\ About(k)' = About(k) /\ samples'[k] = samples[k] /\ drawn'[k] = drawn[k]
  /\ open'[k] = open[k] /\ tries'[k] = tries[k] /\ (k \in due' <=> k \in due)

Onward == /\ losses \in Nat /\ dups \in Nat
          /\ losses' \in Nat /\ losses' >= losses
          /\ dups' \in Nat /\ dups' >= dups

LEMMA InNet ==
  ASSUME NEW n \in Nonces
  PROVE  /\ R2(n) \in net <=> R2(n) \in About(n)
         /\ \A S \in Series : /\ R1(n, S) \in net <=> R1(n, S) \in About(n)
                              /\ R3(n, S) \in net <=> R3(n, S) \in About(n)
<1>1. R2(n).nonce = n /\ \A S \in Series : R1(n, S).nonce = n /\ R3(n, S).nonce = n
  BY DEF R1, R2, R3
<1> QED BY <1>1 DEF About

LEMMA InNetAfter ==
  ASSUME NEW n \in Nonces
  PROVE  /\ R2(n) \in net' <=> R2(n) \in About(n)'
         /\ \A S \in Series : /\ R1(n, S) \in net' <=> R1(n, S) \in About(n)'
                              /\ R3(n, S) \in net' <=> R3(n, S) \in About(n)'
<1>1. R2(n).nonce = n /\ \A S \in Series : R1(n, S).nonce = n /\ R3(n, S).nonce = n
  BY DEF R1, R2, R3
<1> QED BY <1>1 DEF About

LEMMA SameKept ==
  ASSUME NEW k \in Nonces, Local(k), Same(k), Onward
  PROVE  Local(k)'
<1>1. /\ R2(k) \in net' <=> R2(k) \in net
      /\ \A S \in Series : /\ R1(k, S) \in net' <=> R1(k, S) \in net
                           /\ R3(k, S) \in net' <=> R3(k, S) \in net
  BY InNet, InNetAfter DEF Same
<1>2. \A S \in Series : Bound(k, S)' <=> Bound(k, S)
  BY <1>1 DEF Bound, Same
<1>3. Fresh(k)'
  BY <1>1, <1>2 DEF Local, Fresh, Same
<1>4. OneSeries(k)'
  BY <1>2 DEF Local, OneSeries, Same
<1>5. InOrder(k)'
  <2>1. dups' = 0 => dups = 0
    BY DEF Onward
  <2> QED BY <1>1, <2>1 DEF Local, InOrder, Same
<1>6. Tidy(k)'
  <2>1. dups' = 0 /\ losses' = 0 => dups = 0 /\ losses = 0
    BY DEF Onward
  <2>2. UnderWay(k) => UnderWay(k)'
    BY DEF UnderWay, Placed, Same
  <2>3. Placed(k, {}, NoSeries, Absent, FALSE) => Placed(k, {}, NoSeries, Absent, FALSE)'
    BY DEF Placed, Same
  <2> QED BY <2>1, <2>2, <2>3 DEF Local, Tidy, Same
<1> QED BY <1>3, <1>4, <1>5, <1>6 DEF Local

(* What goes out is honest, and what was on the network was. *)
LEMMA NetKept ==
  ASSUME NetIsHonest, NEW new, net' \subseteq net \cup new,
         \A m \in new : \E n \in Nonces :
           \/ m = NonceMsg(n) \/ m = R2(n)
           \/ \E S \in Series : m = R1(n, S) \/ (m = R3(n, S) /\ Indexed(n, S))
  PROVE  NetIsHonest' /\ net' \subseteq Messages
<1>1. NetIsHonest'
  BY DEF NetIsHonest
<1>2. net' \subseteq Messages
  <2> SUFFICES ASSUME NEW m \in net' PROVE m \in Messages
    OBVIOUS
  <2>1. PICK n \in Nonces :
          \/ m = NonceMsg(n) \/ m = R2(n)
          \/ \E S \in Series : m = R1(n, S) \/ (m = R3(n, S) /\ Indexed(n, S))
    BY <1>1 DEF NetIsHonest
  <2>2. CASE m = NonceMsg(n)
    BY <2>2 DEF NonceMsg, Messages
  <2>3. CASE m = R2(n)
    BY <2>3 DEF R2, Messages, Cons
  <2>4. CASE \E S \in Series : m = R1(n, S) \/ m = R3(n, S)
    BY <2>4, MessagesTyped
  <2> QED BY <2>1, <2>2, <2>3, <2>4
<1> QED BY <1>1, <1>2

(* The records of past outcomes stay true as draws and repetitions add up. *)
LEMMA OutcomesKept ==
  ASSUME HonestRejections, outcomes' = outcomes, Onward,
         \A o \in outcomes : o.nonce \in Nonces,
         \A n \in Nonces : drawn[n] \in Nat /\ drawn'[n] \in Nat /\ drawn'[n] >= drawn[n]
  PROVE  HonestRejections'
<1> SUFFICES ASSUME NEW o \in outcomes
             PROVE  \/ o.result = "accepted"
                    \/ o.result = "commit_mismatch" /\ drawn'[o.nonce] > 1
                    \/ o.result = "KeyError" /\ (drawn'[o.nonce] > 1 \/ dups' > 0)
  BY DEF HonestRejections
<1>1. drawn[o.nonce] > 1 => drawn'[o.nonce] > 1
  OBVIOUS
<1>2. dups > 0 => dups' > 0
  BY DEF Onward
<1> QED BY <1>1, <1>2 DEF HonestRejections

-----------------------------------------------------------------------------
(* The nonces sent are finitely many, and the bound on them leaves room.   *)
LEMMA Sending ==
  ASSUME TypeOK, IsFiniteSet(Sent), NEW n \in Nonces, SendNonce(n)
  PROVE  tries' \in [Nonces -> 0..MaxSends] /\ IsFiniteSet(Sent)'
<1>1. /\ tries' = [tries EXCEPT ![n] = tries[n] + 1]
      /\ tries \in [Nonces -> 0..MaxSends] /\ Cardinality(Sent) < MaxSends
  BY DEF SendNonce, TypeOK
<1>2. MaxSends \in Nat
  BY BoundsAssumption
<1>3. tries[n] # MaxSends
  <2> SUFFICES ASSUME tries[n] = MaxSends PROVE FALSE
    OBVIOUS
  <2> DEFINE f == [i \in 1..MaxSends |-> <<n, i>>]
  <2>1. f \in Injection(1..MaxSends, Sent)
    BY <1>1 DEF Sent, Injection, IsInjective
  <2>2. Cardinality(1..MaxSends) <= Cardinality(Sent)
    BY <2>1, FS_Injection
  <2>3. IsFiniteSet(1..MaxSends) /\ Cardinality(1..MaxSends)
          = IF 1 > MaxSends THEN 0 ELSE MaxSends - 1 + 1
    BY <1>2, FS_Interval
  <2>4. Cardinality(1..MaxSends) = MaxSends
    BY <1>2, <2>3
  <2>5. Cardinality(Sent) \in Nat
    BY FS_CardinalityType
  <2> QED BY <1>1, <1>2, <2>2, <2>4, <2>5
<1>4. tries[n] + 1 \in 0..MaxSends
  BY <1>1, <1>2, <1>3
<1>5. Sent' \subseteq Sent \cup {<<n, tries[n] + 1>>}
  BY <1>1, <1>2 DEF Sent
<1>6. IsFiniteSet(Sent \cup {<<n, tries[n] + 1>>})
  BY FS_AddElement
<1> QED BY <1>1, <1>4, <1>5, <1>6, FS_Subset

LEMMA SentKept ==
  ASSUME IsFiniteSet(Sent), tries' = tries
  PROVE  IsFiniteSet(Sent)'
BY DEF Sent

(* Everything but what the step does to its own nonce. *)
LEMMA Together ==
  ASSUME IInv, NEW n \in Nonces, TypeOK', IsFiniteSet(Sent)', NetIsHonest',
         OpenIsHonest', RevealedAtMostOnce', HonestRejections',
         Local(n)', \A k \in Nonces \ {n} : Same(k), Onward
  PROVE  IInv'
<1>1. \A k \in Nonces \ {n} : Local(k)'
  BY SameKept DEF IInv
<1>2. \A k \in Nonces : Local(k)'
  BY <1>1
<1> QED BY <1>2 DEF IInv

LEMMA LosingKeeps ==
  ASSUME IInv, Lose
  PROVE  IInv'
<1> USE DEF IInv
<1>1. PICK m \in net : net' = net \ {m}
  BY DEF Lose
<1>2. /\ losses' = losses + 1 /\ losses + dups < MaxFaults /\ dups' = dups
      /\ samples' = samples /\ drawn' = drawn /\ revealed' = revealed
      /\ open' = open /\ session' = session /\ opened' = opened
      /\ issued' = issued /\ outcomes' = outcomes /\ due' = due /\ tries' = tries
  BY DEF Lose, prover, verifier
<1>3. /\ losses \in Nat /\ dups \in Nat /\ losses' \in 0..MaxFaults /\ losses' > 0
  BY <1>2, BoundsAssumption DEF TypeOK
<1>4. TypeOK'
  BY <1>1, <1>2, <1>3 DEF TypeOK, V!TypeOK
<1>5. NetIsHonest' /\ OpenIsHonest' /\ RevealedAtMostOnce' /\ IsFiniteSet(Sent)'
  BY <1>1, <1>2, SentKept DEF NetIsHonest, OpenIsHonest, RevealedAtMostOnce
<1>6. HonestRejections'
  BY <1>2 DEF HonestRejections
<1>7. ASSUME NEW n \in Nonces PROVE Local(n)'
  <2>1. \A S \in Series : Bound(n, S)' => Bound(n, S)
    BY <1>1, <1>2 DEF Bound
  <2>2. Fresh(n)' /\ OneSeries(n)'
    BY <1>1, <1>2, <2>1 DEF Local, Fresh, OneSeries
  <2>3. InOrder(n)'
    BY <1>1, <1>2 DEF Local, InOrder
  <2>4. Tidy(n)'
    <3>1. ~(losses' = 0)
      BY <1>2, <1>3
    <3> QED BY <3>1 DEF Tidy
  <2> QED BY <2>2, <2>3, <2>4 DEF Local
<1> QED BY <1>4, <1>5, <1>6, <1>7

LEMMA SendingKeeps ==
  ASSUME IInv, NEW n \in Nonces, SendNonce(n)
  PROVE  IInv'
<1> USE DEF IInv
<1>1. /\ tries' = [tries EXCEPT ![n] = tries[n] + 1]
      /\ net' = net \cup {NonceMsg(n)}
      /\ losses' = losses /\ dups' = dups
      /\ samples' = samples /\ drawn' = drawn /\ revealed' = revealed
      /\ open' = open /\ session' = session /\ opened' = opened
      /\ issued' = issued /\ outcomes' = outcomes /\ due' = due
  BY DEF SendNonce, prover, verifier, NonceMsg
<1>2. Onward /\ tries[n] \in Nat
  BY <1>1, BoundsAssumption DEF Onward, TypeOK
<1>3. tries' \in [Nonces -> 0..MaxSends] /\ IsFiniteSet(Sent)'
  BY Sending
<1>4. NetIsHonest' /\ net' \subseteq Messages
  BY <1>1, NetKept
<1>5. TypeOK'
  BY <1>1, <1>3, <1>4 DEF TypeOK, V!TypeOK
<1>6. OpenIsHonest' /\ RevealedAtMostOnce' /\ HonestRejections'
  BY <1>1 DEF OpenIsHonest, RevealedAtMostOnce, HonestRejections
<1>7. NonceMsg(n).nonce = n /\ NonceMsg(n).type = "nonce"
  BY DEF NonceMsg
<1>8. \A k \in Nonces \ {n} : Same(k)
  <2> SUFFICES ASSUME NEW k \in Nonces \ {n} PROVE Same(k)
    OBVIOUS
  <2>1. About(k)' = About(k)
    BY <1>1, <1>7 DEF About
  <2>2. tries'[k] = tries[k]
    BY <1>1 DEF TypeOK
  <2> QED BY <1>1, <2>1, <2>2 DEF Same
<1>9. Local(n)'
  <2>1. /\ R2(n) \in net' <=> R2(n) \in net
        /\ \A S \in Series : /\ R1(n, S) \in net' <=> R1(n, S) \in net
                             /\ R3(n, S) \in net' <=> R3(n, S) \in net
    BY <1>1, <1>7 DEF R1, R2, R3
  <2>2. \A S \in Series : Bound(n, S)' <=> Bound(n, S)
    BY <1>1, <2>1 DEF Bound
  <2>3. Fresh(n)' /\ OneSeries(n)'
    BY <1>1, <2>1, <2>2 DEF Local, Fresh, OneSeries
  <2>4. InOrder(n)'
    BY <1>1, <2>1 DEF Local, InOrder
  <2>5. Tidy(n)'
    <3>1. tries'[n] = tries[n] + 1
      BY <1>1 DEF TypeOK
    <3>2. ~(tries'[n] = 0) /\ (tries'[n] = 1 => tries[n] = 0)
      BY <1>2, <3>1
    <3> SUFFICES ASSUME losses = 0, dups = 0, tries'[n] = 1, tries[n] = 0
                 PROVE  UnderWay(n)'
      BY <1>1, <3>2 DEF Tidy
    <3>3. Placed(n, {}, NoSeries, Absent, FALSE)
      BY DEF Local, Tidy
    <3>4. About(n)' = About(n) \cup {NonceMsg(n)}
      BY <1>1, <1>7 DEF About
    <3>5. Placed(n, {NonceMsg(n)}, NoSeries, Absent, FALSE)'
      BY <1>1, <3>3, <3>4 DEF Placed
    <3> QED BY <3>5 DEF UnderWay
  <2> QED BY <2>3, <2>4, <2>5 DEF Local
<1> QED BY <1>2, <1>3, <1>4, <1>5, <1>6, <1>8, <1>9, Together

(* A reading of the chip under n: the commitment to it goes out. *)
LEMMA ProverRound1Keeps ==
  ASSUME IInv, NEW n \in Nonces, NEW S \in Series,
         Deliver(NonceMsg(n), {R1(n, S)}), P!Round1(n, S),
         UNCHANGED <<verifier, due, tries>>
  PROVE  IInv'
<1> USE DEF IInv
<1>0. NonceMsg(n).nonce = n /\ R1(n, S).nonce = n
  BY MessagesAre
<1>1. /\ samples' = [samples EXCEPT ![n] = S]
      /\ drawn' = [drawn EXCEPT ![n] = drawn[n] + 1] /\ revealed' = revealed
      /\ open' = open /\ session' = session /\ opened' = opened
      /\ issued' = issued /\ outcomes' = outcomes /\ due' = due /\ tries' = tries
  BY DEF P!Round1, verifier
<1>2. dups \in Nat /\ losses \in Nat /\ drawn[n] \in Nat
  BY BoundsAssumption DEF TypeOK
<1>3. /\ NonceMsg(n) \in net /\ losses' = losses
      /\ dups' \in Nat /\ dups' >= dups
      /\ net' \subseteq net \cup {R1(n, S)} /\ R1(n, S) \in net'
      /\ \A k \in Nonces \ {n} : About(k)' = About(k)
      /\ dups' = 0 => About(n)' = (About(n) \ {NonceMsg(n)}) \cup {R1(n, S)}
  <2> HIDE DEF IInv
  <2> QED BY <1>0, <1>2, Delivery
<1>4. Onward
  BY <1>2, <1>3 DEF Onward
<1>5. NetIsHonest' /\ net' \subseteq Messages
  BY <1>3, NetKept
<1>6. TypeOK'
  <2>1. dups' \in 0..MaxFaults
    BY BoundsAssumption DEF Deliver, TypeOK
  <2>2. samples' \in [Nonces -> Series \cup {NoSeries}] /\ drawn' \in [Nonces -> Nat]
    BY <1>1 DEF TypeOK
  <2> QED BY <1>1, <1>3, <1>5, <2>1, <2>2 DEF TypeOK, V!TypeOK
<1>7. OpenIsHonest' /\ IsFiniteSet(Sent)'
  BY <1>1, SentKept DEF OpenIsHonest
<1>8. RevealedAtMostOnce'
  BY <1>1 DEF RevealedAtMostOnce, TypeOK
<1>9. HonestRejections'
  <2>1. \A k \in Nonces : drawn[k] \in Nat /\ drawn'[k] \in Nat /\ drawn'[k] >= drawn[k]
    BY <1>1 DEF TypeOK
  <2>2. \A o \in outcomes : o.nonce \in Nonces
    BY DEF TypeOK, V!TypeOK
  <2> QED BY <1>1, <1>4, <2>1, <2>2, OutcomesKept
<1>10. \A k \in Nonces \ {n} : Same(k)
  BY <1>1, <1>3 DEF Same, TypeOK
<1>11. samples'[n] = S /\ drawn'[n] = drawn[n] + 1
  BY <1>1 DEF TypeOK
<1>12. ~(drawn'[n] = 0) /\ (drawn'[n] <= 1 => drawn[n] = 0)
  BY <1>2, <1>11
<1>13. ASSUME drawn[n] = 0
       PROVE  /\ open[n] = Absent /\ n \notin due /\ R2(n) \notin net'
              /\ \A T \in Series : /\ R3(n, T) \notin net'
                                   /\ Bound(n, T)' => T = S
  <2>1. /\ open[n] = Absent /\ n \notin due /\ R2(n) \notin net
        /\ \A T \in Series : ~Bound(n, T)
    BY <1>13 DEF Local, Fresh
  <2>2. R2(n) \notin net'
    BY <1>3, <2>1, MessagesDiffer
  <2>3. \A T \in Series : R3(n, T) \notin net'
    BY <1>3, <2>1, MessagesDiffer DEF Bound
  <2>4. ASSUME NEW T \in Series, Bound(n, T)' PROVE T = S
    <3>1. R1(n, T) \in net' => T = S
      BY <1>3, <2>1, MessagesDiffer DEF Bound
    <3>2. ~(open'[n] \in {Entry(n, T, <<>>), Entry(n, T, Cons(n))})
      BY <1>1, <2>1 DEF Bound
    <3> QED BY <1>11, <2>3, <2>4, <3>1, <3>2 DEF Bound
  <2> QED BY <2>1, <2>2, <2>3, <2>4
<1>14. Fresh(n)' /\ OneSeries(n)' /\ InOrder(n)'
  <2>1. Fresh(n)'
    BY <1>12 DEF Fresh
  <2>2. OneSeries(n)'
    BY <1>12, <1>13 DEF OneSeries
  <2>3. InOrder(n)'
    BY <1>1, <1>12, <1>13 DEF InOrder
  <2> QED BY <2>1, <2>2, <2>3
<1>15. Tidy(n)'
  <2>1. ASSUME losses = 0, dups = 0, dups' = 0
        PROVE  (tries[n] = 0 => FALSE) /\ (tries[n] = 1 => UnderWay(n)')
    <3>1. NonceMsg(n) \in About(n)
      BY <1>0, <1>3 DEF About
    <3>2. tries[n] # 0
      BY <2>1, <3>1 DEF Local, Tidy, Placed
    <3>3. ASSUME UnderWay(n) PROVE UnderWay(n)'
      <4>1. Placed(n, {NonceMsg(n)}, NoSeries, Absent, FALSE)
        BY <3>1, <3>3, MessagesDiffer DEF UnderWay, Placed
      <4>2. Placed(n, {R1(n, S)}, S, Absent, FALSE)'
        BY <1>1, <1>3, <1>11, <2>1, <4>1 DEF Placed
      <4> QED BY <4>2 DEF UnderWay
    <3> QED BY <2>1, <3>2, <3>3 DEF Local, Tidy
  <2>2. dups' = 0 => dups = 0
    BY <1>2, <1>3
  <2> QED BY <1>1, <1>3, <2>1, <2>2 DEF Tidy
<1> HIDE DEF IInv
<1> QED BY <1>4, <1>5, <1>6, <1>7, <1>8, <1>9, <1>10, <1>14, <1>15, Together DEF Local

(* A commitment or a reveal that arrives under n is an honest one. *)
LEMMA Arrives ==
  ASSUME NetIsHonest, NEW n \in Nonces, NEW m \in net, m.nonce = n
  PROVE  /\ m.type = "r1" => \E S \in Series : m = R1(n, S)
         /\ m.type = "r3" => \E S \in Series : m = R3(n, S) /\ Indexed(n, S)
<1>1. PICK k \in Nonces :
        \/ m = NonceMsg(k) \/ m = R2(k)
        \/ \E S \in Series : m = R1(k, S) \/ (m = R3(k, S) /\ Indexed(k, S))
  BY DEF NetIsHonest
<1>2. CASE m = NonceMsg(k) \/ m = R2(k)
  BY <1>2 DEF NonceMsg, R2
<1>3. CASE \E S \in Series : m = R1(k, S)
  BY <1>3, MessagesAre
<1>4. CASE \E S \in Series : m = R3(k, S) /\ Indexed(k, S)
  BY <1>4, MessagesAre
<1> QED BY <1>1, <1>2, <1>3, <1>4

(* The commitment arrives and opens a session under n. *)
LEMMA VerifierRound1Keeps ==
  ASSUME IInv, NEW n \in Nonces, NEW S \in Series,
         Deliver(R1(n, S), {}), V!Round1Recv(n, V!CommitSamples(n, S)),
         due' = due \cup {n}, UNCHANGED <<prover, tries>>
  PROVE  IInv'
<1> USE DEF IInv
<1>0. R1(n, S).nonce = n
  BY MessagesAre
<1>1. /\ open' = [open EXCEPT ![n] = Entry(n, S, <<>>)]
      /\ session' = [session EXCEPT ![n] = opened + 1] /\ opened' = opened + 1
      /\ issued' = issued /\ outcomes' = outcomes
      /\ samples' = samples /\ drawn' = drawn /\ revealed' = revealed
      /\ tries' = tries
  BY DEF V!Round1Recv, prover, Entry
<1>2. dups \in Nat /\ losses \in Nat
  BY BoundsAssumption DEF TypeOK
<1>3. /\ R1(n, S) \in net /\ losses' = losses
      /\ dups' \in Nat /\ dups' >= dups
      /\ net' \subseteq net
      /\ \A k \in Nonces \ {n} : About(k)' = About(k)
      /\ dups' = 0 => About(n)' = About(n) \ {R1(n, S)}
  <2> HIDE DEF IInv
  <2>1. \A x \in {} : x.nonce = n
    OBVIOUS
  <2> QED BY <1>0, <1>2, <2>1, Delivery
<1>4. Onward
  BY <1>2, <1>3 DEF Onward
<1>5. NetIsHonest' /\ net' \subseteq Messages
  BY <1>3, NetKept
<1>6. TypeOK'
  <2>1. dups' \in 0..MaxFaults
    BY BoundsAssumption DEF Deliver, TypeOK
  <2>2. open' \in [Nonces -> V!Entries \cup {Absent}]
    BY <1>1, EntriesAre DEF TypeOK, V!TypeOK
  <2>3. session' \in [Nonces -> Nat] /\ opened' \in Nat
    BY <1>1 DEF TypeOK, V!TypeOK
  <2> QED BY <1>1, <1>3, <1>5, <2>1, <2>2, <2>3 DEF TypeOK, V!TypeOK
<1>7. /\ open'[n] = Entry(n, S, <<>>)
      /\ \A k \in Nonces \ {n} : open'[k] = open[k]
  BY <1>1 DEF TypeOK, V!TypeOK
<1>8. OpenIsHonest' /\ IsFiniteSet(Sent)' /\ RevealedAtMostOnce'
  <2>1. OpenIsHonest'
    BY <1>7 DEF OpenIsHonest
  <2> QED BY <1>1, <2>1, SentKept DEF RevealedAtMostOnce
<1>9. HonestRejections'
  <2>1. \A k \in Nonces : drawn[k] \in Nat /\ drawn'[k] \in Nat /\ drawn'[k] >= drawn[k]
    BY <1>1 DEF TypeOK
  <2>2. \A o \in outcomes : o.nonce \in Nonces
    BY DEF TypeOK, V!TypeOK
  <2> QED BY <1>1, <1>4, <2>1, <2>2, OutcomesKept
<1>10. \A k \in Nonces \ {n} : Same(k)
  BY <1>1, <1>3, <1>7 DEF Same
<1>11. Bound(n, S) /\ ~(drawn[n] = 0)
  BY <1>3 DEF Bound, Local, Fresh
<1>12. \A T \in Series : Bound(n, T)' => Bound(n, T)
  <2> SUFFICES ASSUME NEW T \in Series, Bound(n, T)', T # S PROVE Bound(n, T)
    BY <1>11
  <2>1. ~(open'[n] \in {Entry(n, T, <<>>), Entry(n, T, Cons(n))})
    BY <1>7, EntriesDiffer
  <2> QED BY <1>1, <1>3, <2>1 DEF Bound
<1>13. Fresh(n)'
  BY <1>1, <1>11 DEF Fresh
<1>14. OneSeries(n)'
  BY <1>1, <1>12 DEF Local, OneSeries
<1>15. InOrder(n)'
  <2> SUFFICES ASSUME drawn[n] <= 1, dups' = 0
               PROVE  /\ \A T \in Series : R1(n, T) \notin net' /\ R3(n, T) \notin net'
                      /\ R2(n) \notin net'
    BY <1>1 DEF InOrder
  <2>1. dups = 0
    BY <1>2, <1>3
  <2>2. R2(n) \notin net /\ \A T \in Series : R3(n, T) \notin net
    BY <1>3, <2>1 DEF Local, InOrder
  <2>3. ASSUME NEW T \in Series, R1(n, T) \in net' PROVE FALSE
    <3>1. Bound(n, T)
      BY <1>12, <2>3 DEF Bound
    <3>2. T = S
      BY <1>11, <3>1 DEF Local, OneSeries
    <3>3. R1(n, S) \in About(n)'
      BY <2>3, <3>2, InNetAfter
    <3> QED BY <1>3, <3>3
  <2> QED BY <1>3, <2>2, <2>3
<1>16. Tidy(n)'
  <2>1. ASSUME losses = 0, dups = 0, dups' = 0
        PROVE  ~(tries[n] = 0) /\ (tries[n] = 1 => UnderWay(n)')
    <3>1. R1(n, S) \in About(n)
      BY <1>0, <1>3 DEF About
    <3>2. tries[n] # 0
      BY <2>1, <3>1 DEF Local, Tidy, Placed
    <3>3. ASSUME UnderWay(n) PROVE UnderWay(n)'
      <4>1. Placed(n, {R1(n, S)}, S, Absent, FALSE)
        BY <3>1, <3>3, MessagesDiffer DEF UnderWay, Placed
      <4>2. Placed(n, {}, S, Entry(n, S, <<>>), TRUE)'
        BY <1>1, <1>3, <1>7, <2>1, <4>1 DEF Placed
      <4> QED BY <4>2 DEF UnderWay
    <3> QED BY <2>1, <3>2, <3>3 DEF Local, Tidy
  <2>2. dups' = 0 => dups = 0
    BY <1>2, <1>3
  <2> QED BY <1>1, <1>3, <2>1, <2>2 DEF Tidy
<1> HIDE DEF IInv
<1> QED BY <1>4, <1>5, <1>6, <1>8, <1>9, <1>10, <1>13, <1>14, <1>15, <1>16, Together DEF Local

(* The constraints go out, and on record, for whatever session is open. *)
LEMMA VerifierRound2Keeps ==
  ASSUME IInv, NEW n \in Nonces, n \in due, due' = due \ {n},
         V!Round2Send(n), net' = net \cup {R2(n)},
         UNCHANGED <<prover, tries, losses, dups>>
  PROVE  IInv'
<1> USE DEF IInv
<1>1. PICK S \in Series, c \in {<<>>, Cons(n)} : open[n] = Entry(n, S, c)
  BY DEF V!Round2Send, OpenIsHonest
<1>2. [open[n] EXCEPT !.cons = Cons(n)] = Entry(n, S, Cons(n))
  BY <1>1 DEF Entry
<1>3. /\ open' = [open EXCEPT ![n] = Entry(n, S, Cons(n))]
      /\ issued' = issued \cup {<<session[n], V!CommitSamples(n, S)>>}
      /\ session' = session /\ opened' = opened /\ outcomes' = outcomes
      /\ samples' = samples /\ drawn' = drawn /\ revealed' = revealed
      /\ tries' = tries /\ losses' = losses /\ dups' = dups
  BY <1>1, <1>2, EntriesAre DEF V!Round2Send, prover, Cons
<1>4. Onward
  BY <1>3, BoundsAssumption DEF TypeOK, Onward
<1>5. NetIsHonest' /\ net' \subseteq Messages
  BY NetKept
<1>6. TypeOK'
  <2>1. open' \in [Nonces -> V!Entries \cup {Absent}]
    BY <1>3, EntriesAre DEF TypeOK, V!TypeOK
  <2>2. <<session[n], V!CommitSamples(n, S)>> \in Nat \X V!Commits
    BY DEF TypeOK, V!TypeOK, V!Commits, V!CommitSamples
  <2> QED BY <1>3, <1>5, <2>1, <2>2 DEF TypeOK, V!TypeOK
<1>7. /\ open'[n] = Entry(n, S, Cons(n))
      /\ \A k \in Nonces \ {n} : open'[k] = open[k]
  BY <1>3 DEF TypeOK, V!TypeOK
<1>8. OpenIsHonest' /\ IsFiniteSet(Sent)' /\ RevealedAtMostOnce'
  <2>1. OpenIsHonest'
    BY <1>7 DEF OpenIsHonest
  <2> QED BY <1>3, <2>1, SentKept DEF RevealedAtMostOnce
<1>9. HonestRejections'
  BY <1>3 DEF HonestRejections
<1>10. R2(n).nonce = n
  BY DEF R2
<1>11. About(n)' = About(n) \cup {R2(n)}
  BY <1>10 DEF About
<1>12. \A k \in Nonces \ {n} : Same(k)
  <2> SUFFICES ASSUME NEW k \in Nonces \ {n} PROVE Same(k)
    OBVIOUS
  <2>1. About(k)' = About(k)
    BY <1>10 DEF About
  <2> QED BY <1>3, <1>7, <2>1 DEF Same
<1>13. \A T \in Series : /\ R1(n, T) \in net' <=> R1(n, T) \in net
                         /\ R3(n, T) \in net' <=> R3(n, T) \in net
  BY MessagesDiffer
<1>14. Bound(n, S) /\ ~(drawn[n] = 0)
  BY <1>1 DEF Bound, Local, Fresh
<1>15. \A T \in Series : Bound(n, T)' => Bound(n, T)
  <2> SUFFICES ASSUME NEW T \in Series, Bound(n, T)', T # S PROVE Bound(n, T)
    BY <1>14
  <2>1. ~(open'[n] \in {Entry(n, T, <<>>), Entry(n, T, Cons(n))})
    BY <1>7, EntriesDiffer
  <2> QED BY <1>3, <1>13, <2>1 DEF Bound
<1>16. Fresh(n)' /\ OneSeries(n)'
  BY <1>3, <1>14, <1>15 DEF Local, Fresh, OneSeries
<1>17. InOrder(n)'
  <2> SUFFICES ASSUME drawn[n] <= 1, dups = 0
               PROVE  \A T \in Series : /\ R1(n, T) \notin net'
                                        /\ open'[n] # Entry(n, T, <<>>)
    BY <1>3 DEF InOrder
  <2>1. \A T \in Series : R1(n, T) \notin net
    BY DEF Local, InOrder
  <2>2. \A T \in Series : open'[n] # Entry(n, T, <<>>)
    BY <1>7, EntriesDiffer, ConsAre
  <2> QED BY <1>13, <2>1, <2>2
<1>18. Tidy(n)'
  <2>1. ASSUME losses = 0, dups = 0
        PROVE  ~(tries[n] = 0) /\ (tries[n] = 1 => UnderWay(n)')
    <3>1. tries[n] # 0
      BY <2>1 DEF Local, Tidy, Placed
    <3>2. ASSUME UnderWay(n) PROVE UnderWay(n)'
      <4>1. PICK T \in Series : Placed(n, {}, T, Entry(n, T, <<>>), TRUE)
        BY <3>2 DEF UnderWay, Placed
      <4>2. T = S
        BY <1>1, <4>1, EntriesDiffer DEF Placed
      <4>3. Placed(n, {R2(n)}, S, Entry(n, S, Cons(n)), FALSE)'
        BY <1>3, <1>7, <1>11, <4>1, <4>2 DEF Placed
      <4> QED BY <4>3 DEF UnderWay
    <3> QED BY <2>1, <3>1, <3>2 DEF Local, Tidy
  <2> QED BY <1>3, <2>1 DEF Tidy
<1> HIDE DEF IInv
<1> QED BY <1>4, <1>5, <1>6, <1>8, <1>9, <1>12, <1>16, <1>17, <1>18, Together DEF Local

(* The session was closed before its constraints were asked for. *)
LEMMA VerifierRound2RaisesKeeps ==
  ASSUME IInv, NEW n \in Nonces, n \in due, due' = due \ {n}, open[n] = Absent,
         UNCHANGED <<verifier, net, prover, tries, losses, dups>>
  PROVE  IInv'
<1> USE DEF IInv
<1>1. /\ samples' = samples /\ drawn' = drawn /\ revealed' = revealed
      /\ open' = open /\ session' = session /\ opened' = opened
      /\ issued' = issued /\ outcomes' = outcomes /\ net' = net
      /\ tries' = tries /\ losses' = losses /\ dups' = dups
  BY DEF prover, verifier
<1>2. Onward
  BY <1>1, BoundsAssumption DEF TypeOK, Onward
<1>3. TypeOK'
  BY <1>1 DEF TypeOK, V!TypeOK
<1>4. /\ NetIsHonest' /\ OpenIsHonest' /\ RevealedAtMostOnce' /\ HonestRejections'
      /\ IsFiniteSet(Sent)'
  BY <1>1, SentKept DEF NetIsHonest, OpenIsHonest, RevealedAtMostOnce, HonestRejections
<1>5. \A k \in Nonces \ {n} : Same(k)
  BY <1>1 DEF Same, About
<1>6. \A S \in Series : Bound(n, S)' <=> Bound(n, S)
  BY <1>1 DEF Bound
<1>7. Fresh(n)' /\ OneSeries(n)' /\ InOrder(n)'
  <2>1. Fresh(n)' /\ OneSeries(n)'
    BY <1>1, <1>6 DEF Local, Fresh, OneSeries
  <2>2. InOrder(n)'
    BY <1>1 DEF Local, InOrder
  <2> QED BY <2>1, <2>2
<1>8. Tidy(n)'
  <2>1. ASSUME losses = 0, dups = 0 PROVE ~(tries[n] = 0) /\ ~(tries[n] = 1)
    <3>1. \A S \in Series : Entry(n, S, <<>>) # Absent
      BY EntriesAre
    <3> QED BY <2>1, <3>1 DEF Local, Tidy, UnderWay, Placed
  <2> QED BY <1>1, <2>1 DEF Tidy
<1> HIDE DEF IInv
<1> QED BY <1>2, <1>3, <1>4, <1>5, <1>7, <1>8, Together DEF Local

(* What the prover answers is honest. *)
LEMMA AnswersAre ==
  ASSUME NEW n \in Nonces
  PROVE  /\ P!Answers(n, Cons(n)) = HonestClaims(n, samples[n])
         /\ P!Answerable(n, Cons(n)) <=> Indexed(n, samples[n])
BY ConsAre DEF P!Answers, P!Answerable, HonestClaims, Indexed

(* The reveal: the series leaves the dictionary and goes out. *)
LEMMA ProverRound3Keeps ==
  ASSUME IInv, NEW n \in Nonces, NEW S \in Series, samples[n] = S, Indexed(n, S),
         Deliver(R2(n), {R3(n, S)}), P!Round3(n, Cons(n)),
         UNCHANGED <<verifier, due, tries>>
  PROVE  IInv'
<1> USE DEF IInv
<1>0. R2(n).nonce = n /\ R3(n, S).nonce = n
  BY MessagesAre
<1>1. /\ samples' = [samples EXCEPT ![n] = NoSeries]
      /\ revealed' = [revealed EXCEPT ![n] = revealed[n] + 1] /\ drawn' = drawn
      /\ open' = open /\ session' = session /\ opened' = opened
      /\ issued' = issued /\ outcomes' = outcomes /\ due' = due /\ tries' = tries
  BY DEF P!Round3, P!Forget, verifier
<1>2. dups \in Nat /\ losses \in Nat /\ S # NoSeries
  BY BoundsAssumption, AbsentAssumption DEF TypeOK
<1>3. /\ R2(n) \in net /\ losses' = losses
      /\ dups' \in Nat /\ dups' >= dups
      /\ net' \subseteq net \cup {R3(n, S)}
      /\ \A k \in Nonces \ {n} : About(k)' = About(k)
      /\ dups' = 0 => About(n)' = (About(n) \ {R2(n)}) \cup {R3(n, S)}
  <2> HIDE DEF IInv
  <2> QED BY <1>0, <1>2, Delivery
<1>4. Onward
  BY <1>2, <1>3 DEF Onward
<1>5. NetIsHonest' /\ net' \subseteq Messages
  BY <1>3, NetKept
<1>6. TypeOK'
  <2>1. dups' \in 0..MaxFaults
    BY BoundsAssumption DEF Deliver, TypeOK
  <2>2. samples' \in [Nonces -> Series \cup {NoSeries}] /\ revealed' \in [Nonces -> Nat]
    BY <1>1 DEF TypeOK
  <2> QED BY <1>1, <1>3, <1>5, <2>1, <2>2 DEF TypeOK, V!TypeOK
<1>7. OpenIsHonest' /\ IsFiniteSet(Sent)'
  BY <1>1, SentKept DEF OpenIsHonest
<1>8. RevealedAtMostOnce'
  <2> SUFFICES ASSUME NEW k \in Nonces
               PROVE  revealed'[k] + (IF samples'[k] = NoSeries THEN 0 ELSE 1) <= drawn'[k]
    BY DEF RevealedAtMostOnce
  <2>1. revealed[k] + (IF samples[k] = NoSeries THEN 0 ELSE 1) <= drawn[k]
    BY DEF RevealedAtMostOnce
  <2>2. revealed[k] \in Nat /\ drawn[k] \in Nat
    BY DEF TypeOK
  <2>3. CASE k = n
    BY <1>1, <1>2, <2>1, <2>2, <2>3 DEF TypeOK
  <2>4. CASE k # n
    BY <1>1, <2>1, <2>4 DEF TypeOK
  <2> QED BY <2>3, <2>4
<1>9. HonestRejections'
  <2>1. \A k \in Nonces : drawn[k] \in Nat /\ drawn'[k] \in Nat /\ drawn'[k] >= drawn[k]
    BY <1>1 DEF TypeOK
  <2>2. \A o \in outcomes : o.nonce \in Nonces
    BY DEF TypeOK, V!TypeOK
  <2> QED BY <1>1, <1>4, <2>1, <2>2, OutcomesKept
<1>10. \A k \in Nonces \ {n} : Same(k)
  BY <1>1, <1>3 DEF Same, TypeOK
<1>11. Bound(n, S) /\ ~(drawn[n] = 0) /\ samples'[n] = NoSeries
  BY <1>1, <1>3 DEF Bound, Local, Fresh, TypeOK
<1>12. \A T \in Series : Bound(n, T)' => Bound(n, T)
  <2> SUFFICES ASSUME NEW T \in Series, Bound(n, T)', T # S PROVE Bound(n, T)
    BY <1>11
  <2>1. R1(n, T) \in net' => R1(n, T) \in net
    BY <1>3, MessagesDiffer
  <2>2. R3(n, T) \in net' => R3(n, T) \in net
    BY <1>3, MessagesDiffer
  <2>3. samples'[n] # T
    BY <1>11, AbsentAssumption
  <2> QED BY <1>1, <2>1, <2>2, <2>3 DEF Bound
<1>13. Fresh(n)' /\ OneSeries(n)'
  BY <1>1, <1>11, <1>12 DEF Local, Fresh, OneSeries
<1>14. InOrder(n)'
  <2> SUFFICES ASSUME drawn[n] <= 1, dups' = 0
               PROVE  \A T \in Series : /\ R1(n, T) \notin net'
                                        /\ open[n] # Entry(n, T, <<>>)
    BY <1>1 DEF InOrder
  <2>1. dups = 0
    BY <1>2, <1>3
  <2>2. \A T \in Series : R1(n, T) \notin net /\ open[n] # Entry(n, T, <<>>)
    BY <1>3, <2>1 DEF Local, InOrder
  <2> QED BY <1>3, <2>2, MessagesDiffer
<1>15. Tidy(n)'
  <2>1. ASSUME losses = 0, dups = 0, dups' = 0
        PROVE  ~(tries[n] = 0) /\ (tries[n] = 1 => UnderWay(n)')
    <3>1. tries[n] # 0
      BY <1>2, <2>1 DEF Local, Tidy, Placed
    <3>2. ASSUME UnderWay(n) PROVE UnderWay(n)'
      <4>0. R2(n) \in About(n)
        BY <1>0, <1>3 DEF About
      <4>1. Placed(n, {R2(n)}, S, Entry(n, S, Cons(n)), FALSE)
        BY <3>2, <4>0, MessagesDiffer DEF UnderWay, Placed
      <4>2. Placed(n, {R3(n, S)}, NoSeries, Entry(n, S, Cons(n)), FALSE)'
        BY <1>1, <1>3, <1>11, <2>1, <4>1 DEF Placed
      <4> QED BY <4>2 DEF UnderWay
    <3> QED BY <2>1, <3>1, <3>2 DEF Local, Tidy
  <2>2. dups' = 0 => dups = 0
    BY <1>2, <1>3
  <2> QED BY <1>1, <1>3, <2>1, <2>2 DEF Tidy
<1> HIDE DEF IInv
<1> QED BY <1>4, <1>5, <1>6, <1>7, <1>8, <1>9, <1>10, <1>13, <1>14, <1>15, Together DEF Local

(* No reveal: the series is too short, or was revealed before. *)
LEMMA ProverRound3RaisesKeeps ==
  ASSUME IInv, NEW n \in Nonces, Deliver(R2(n), {}),
         samples' = [samples EXCEPT ![n] = NoSeries], UNCHANGED <<drawn, revealed>>,
         samples[n] # NoSeries => ~Indexed(n, samples[n]),
         UNCHANGED <<verifier, due, tries>>
  PROVE  IInv'
<1> USE DEF IInv
<1>0. R2(n).nonce = n
  BY DEF R2
<1>1. /\ samples' = [samples EXCEPT ![n] = NoSeries]
      /\ revealed' = revealed /\ drawn' = drawn
      /\ open' = open /\ session' = session /\ opened' = opened
      /\ issued' = issued /\ outcomes' = outcomes /\ due' = due /\ tries' = tries
  BY DEF verifier
<1>2. dups \in Nat /\ losses \in Nat
  BY BoundsAssumption DEF TypeOK
<1>3. /\ R2(n) \in net /\ losses' = losses
      /\ dups' \in Nat /\ dups' >= dups
      /\ net' \subseteq net
      /\ \A k \in Nonces \ {n} : About(k)' = About(k)
      /\ dups' = 0 => About(n)' = About(n) \ {R2(n)}
  <2> HIDE DEF IInv
  <2>1. \A x \in {} : x.nonce = n
    OBVIOUS
  <2> QED BY <1>0, <1>2, <2>1, Delivery
<1>4. Onward
  BY <1>2, <1>3 DEF Onward
<1>5. NetIsHonest' /\ net' \subseteq Messages
  BY <1>3, NetKept
<1>6. TypeOK'
  <2>1. dups' \in 0..MaxFaults
    BY BoundsAssumption DEF Deliver, TypeOK
  <2>2. samples' \in [Nonces -> Series \cup {NoSeries}]
    BY <1>1 DEF TypeOK
  <2> QED BY <1>1, <1>3, <1>5, <2>1, <2>2 DEF TypeOK, V!TypeOK
<1>7. OpenIsHonest' /\ IsFiniteSet(Sent)'
  BY <1>1, SentKept DEF OpenIsHonest
<1>8. RevealedAtMostOnce'
  <2> SUFFICES ASSUME NEW k \in Nonces
               PROVE  revealed[k] + (IF samples'[k] = NoSeries THEN 0 ELSE 1) <= drawn[k]
    BY <1>1 DEF RevealedAtMostOnce
  <2>1. revealed[k] + (IF samples[k] = NoSeries THEN 0 ELSE 1) <= drawn[k]
    BY DEF RevealedAtMostOnce
  <2>2. revealed[k] \in Nat /\ drawn[k] \in Nat
    BY DEF TypeOK
  <2> QED BY <1>1, <2>1, <2>2 DEF TypeOK
<1>9. HonestRejections'
  <2>1. \A k \in Nonces : drawn[k] \in Nat /\ drawn'[k] \in Nat /\ drawn'[k] >= drawn[k]
    BY <1>1 DEF TypeOK
  <2>2. \A o \in outcomes : o.nonce \in Nonces
    BY DEF TypeOK, V!TypeOK
  <2> QED BY <1>1, <1>4, <2>1, <2>2, OutcomesKept
<1>10. \A k \in Nonces \ {n} : Same(k)
  BY <1>1, <1>3 DEF Same, TypeOK
<1>11. ~(drawn[n] = 0) /\ samples'[n] = NoSeries
  BY <1>1, <1>3 DEF Local, Fresh, TypeOK
<1>12. \A T \in Series : Bound(n, T)' => Bound(n, T)
  BY <1>1, <1>3, <1>11, AbsentAssumption DEF Bound
<1>13. Fresh(n)' /\ OneSeries(n)'
  BY <1>1, <1>11, <1>12 DEF Local, Fresh, OneSeries
<1>14. InOrder(n)'
  <2>1. dups' = 0 => dups = 0
    BY <1>2, <1>3
  <2> QED BY <1>1, <1>3, <2>1 DEF Local, InOrder
<1>15. Tidy(n)'
  <2>1. ASSUME losses = 0, dups = 0, dups' = 0
        PROVE  ~(tries[n] = 0) /\ (tries[n] = 1 => UnderWay(n)')
    <3>0. R2(n) \in About(n)
      BY <1>0, <1>3 DEF About
    <3>1. tries[n] # 0
      BY <2>1, <3>0 DEF Local, Tidy, Placed
    <3>2. ASSUME UnderWay(n) PROVE UnderWay(n)'
      <4>1. PICK S \in Series : Placed(n, {R2(n)}, S, Entry(n, S, Cons(n)), FALSE)
        <5>1. R2(n).type = "r2" /\ NonceMsg(n).type = "nonce"
          BY DEF R2, NonceMsg
        <5> QED BY <3>2, <3>0, <5>1, MessagesDiffer DEF UnderWay, Placed
      <4>2. samples[n] = S /\ ~Indexed(n, S)
        BY <4>1, AbsentAssumption DEF Placed
      <4>3. Placed(n, {}, NoSeries, Entry(n, S, Cons(n)), FALSE)'
        BY <1>1, <1>3, <1>11, <2>1, <4>1 DEF Placed
      <4> QED BY <4>2, <4>3 DEF UnderWay
    <3> QED BY <2>1, <3>1, <3>2 DEF Local, Tidy
  <2>2. dups' = 0 => dups = 0
    BY <1>2, <1>3
  <2> QED BY <1>1, <1>3, <2>1, <2>2 DEF Tidy
<1> HIDE DEF IInv
<1> QED BY <1>4, <1>5, <1>6, <1>7, <1>8, <1>9, <1>10, <1>13, <1>14, <1>15, Together DEF Local

(* An honest reveal is turned down for its commitment or for want of       *)
(* constraints, never for an aggregate.                                    *)
LEMMA HonestVerdict ==
  ASSUME OpenIsHonest, NEW n \in Nonces, NEW S \in Series, Indexed(n, S),
         V!Round3Verify(n, S, HonestClaims(n, S))
  PROVE  \E r \in V!Results :
           /\ V!Close(n, S, HonestClaims(n, S), r)
           /\ \/ r = "accepted"
              \/ /\ r = "commit_mismatch"
                 /\ \E T \in Series : T # S /\ open[n] = Entry(n, T, Cons(n))
              \/ /\ r = "KeyError"
                 /\ \E T \in Series : open[n] = Entry(n, T, <<>>)
<1> DEFINE t == HonestClaims(n, S)
<1>1. open[n] # Absent
  BY DEF V!Round3Verify, V!Round3Unchallenged, V!Round3Mismatch, V!Round3Raise,
         V!Round3Violation, V!Round3Accept, V!Challenged
<1>2. PICK T \in Series, c \in {<<>>, Cons(n)} : open[n] = Entry(n, T, c)
  BY <1>1 DEF OpenIsHonest
<1>3. open[n].cons = c /\ open[n].commit = V!CommitSamples(n, T)
  BY <1>2, EntriesAre
<1>4. CASE V!Round3Unchallenged(n, S, t)
  <2>1. c = <<>>
    BY <1>3, <1>4 DEF V!Round3Unchallenged
  <2> QED BY <1>2, <1>4, <2>1 DEF V!Round3Unchallenged, V!Results
<1>5. CASE V!Round3Mismatch(n, S, t)
  <2>1. c = Cons(n) /\ T # S
    BY <1>3, <1>5 DEF V!Round3Mismatch, V!Challenged, V!Opened
  <2> QED BY <1>2, <1>5, <2>1 DEF V!Round3Mismatch, V!Results
<1>6. CASE V!Challenged(n)
  <2>1. open[n].cons = Cons(n)
    BY <1>3, <1>6 DEF V!Challenged
  <2>2. \A k \in V!Compared(n, t) : k \in 1..V!NumConstraints
    BY <2>1, ConsAre DEF V!Compared
  <2>3. ~V!Raises(n, S, t)
    BY <2>1, <2>2 DEF V!Raises, Indexed
  <2>4. ~V!Violates(n, S, t)
    <3> SUFFICES ASSUME NEW k \in V!Compared(n, t)
                 PROVE  ~FarApart(Cons(n)[k].name, t[k], Evaluate(S, Cons(n)[k]))
      BY <2>1 DEF V!Violates
    <3>1. t[k] = Evaluate(S, Cons(n)[k])
      BY <2>2 DEF HonestClaims
    <3>2. ~FarApart(Cons(n)[k].name, t[k], t[k])
      BY <2>2, <3>1, AggregatesAssumption DEF HonestClaims, Cons
    <3> QED BY <3>1, <3>2
  <2>5. ~V!Round3Raise(n, S, t) /\ ~V!Round3Violation(n, S, t)
    BY <2>3, <2>4 DEF V!Round3Raise, V!Round3Violation
  <2>6. ASSUME V!Round3Accept(n, S, t) PROVE V!Close(n, S, t, "accepted")
    BY <2>6 DEF V!Round3Accept
  <2>7. V!Round3Unchallenged(n, S, t) \/ V!Round3Mismatch(n, S, t)
          \/ V!Round3Accept(n, S, t)
    BY <2>5 DEF V!Round3Verify
  <2> QED BY <1>4, <1>5, <2>6, <2>7 DEF V!Results
<1>7. V!Round3Unchallenged(n, S, t) \/ V!Challenged(n)
  BY DEF V!Round3Verify, V!Round3Mismatch, V!Round3Raise, V!Round3Violation,
         V!Round3Accept
<1> QED BY <1>4, <1>6, <1>7

(* The verdict: the session is over, and the outcome honest. *)
LEMMA VerifierRound3Keeps ==
  ASSUME IInv, NEW n \in Nonces, NEW S \in Series, Indexed(n, S),
         Deliver(R3(n, S), {}), V!Round3Verify(n, S, HonestClaims(n, S)),
         UNCHANGED <<prover, due, tries>>
  PROVE  IInv'
<1> USE DEF IInv
<1>0. R3(n, S).nonce = n /\ HonestClaims(n, S) \in ClaimLists
  BY MessagesAre, AggregatesAssumption DEF HonestClaims, Cons
<1>1. PICK r \in V!Results :
        /\ V!Close(n, S, HonestClaims(n, S), r)
        /\ \/ r = "accepted"
           \/ /\ r = "commit_mismatch"
              /\ \E T \in Series : T # S /\ open[n] = Entry(n, T, Cons(n))
           \/ r = "KeyError" /\ \E T \in Series : open[n] = Entry(n, T, <<>>)
  BY HonestVerdict
<1>2. PICK o : /\ o = [nonce |-> n, session |-> session[n], result |-> r,
                       series |-> S, answers |-> Len(HonestClaims(n, S))]
               /\ outcomes' = outcomes \cup {o}
  BY <1>1 DEF V!Close
<1>3. o.nonce = n /\ o.result = r
  BY <1>2
<1>4. /\ open' = [open EXCEPT ![n] = Absent]
      /\ session' = session /\ opened' = opened /\ issued' = issued
      /\ samples' = samples /\ drawn' = drawn /\ revealed' = revealed
      /\ due' = due /\ tries' = tries
  BY <1>1 DEF V!Close, prover
<1>5. dups \in Nat /\ losses \in Nat
  BY BoundsAssumption DEF TypeOK
<1>6. /\ R3(n, S) \in net /\ losses' = losses
      /\ dups' \in Nat /\ dups' >= dups
      /\ net' \subseteq net
      /\ \A k \in Nonces \ {n} : About(k)' = About(k)
      /\ dups' = 0 => About(n)' = About(n) \ {R3(n, S)}
  <2> HIDE DEF IInv
  <2>1. \A x \in {} : x.nonce = n
    OBVIOUS
  <2> QED BY <1>0, <1>5, <2>1, Delivery
<1>7. Onward
  BY <1>5, <1>6 DEF Onward
<1>8. NetIsHonest' /\ net' \subseteq Messages
  BY <1>6, NetKept
<1>9. TypeOK'
  <2>1. dups' \in 0..MaxFaults
    BY BoundsAssumption DEF Deliver, TypeOK
  <2>2. open' \in [Nonces -> V!Entries \cup {Absent}]
    BY <1>4 DEF TypeOK, V!TypeOK
  <2>3. Len(HonestClaims(n, S)) \in Nat
    BY <1>0, AggregatesAssumption
  <2>4. session[n] \in Nat
    BY DEF TypeOK, V!TypeOK
  <2>5. o \in [nonce : Nonces, session : Nat, result : V!Results,
               series : Series, answers : Nat]
    BY <1>2, <2>3, <2>4
  <2>6. V!TypeOK'
    BY <1>2, <1>4, <2>2, <2>5 DEF TypeOK, V!TypeOK
  <2> QED BY <1>4, <1>6, <1>8, <2>1, <2>6 DEF TypeOK
<1>10. open'[n] = Absent /\ \A k \in Nonces \ {n} : open'[k] = open[k]
  BY <1>4 DEF TypeOK, V!TypeOK
<1>11. OpenIsHonest' /\ IsFiniteSet(Sent)' /\ RevealedAtMostOnce'
  <2>1. OpenIsHonest'
    BY <1>10 DEF OpenIsHonest
  <2> QED BY <1>4, <2>1, SentKept DEF RevealedAtMostOnce
<1>12. Bound(n, S) /\ ~(drawn[n] = 0) /\ drawn[n] \in Nat
  BY <1>6 DEF Bound, Local, Fresh, TypeOK
<1>13. HonestRejections'
  <2>1. r = "commit_mismatch" => drawn[n] > 1
    <3> SUFFICES ASSUME r = "commit_mismatch", drawn[n] <= 1 PROVE FALSE
      BY <1>12
    <3>1. PICK T \in Series : T # S /\ open[n] = Entry(n, T, Cons(n))
      BY <1>1
    <3>2. Bound(n, T)
      BY <3>1 DEF Bound
    <3> QED BY <1>12, <3>1, <3>2 DEF Local, OneSeries
  <2>2. r = "KeyError" => drawn[n] > 1 \/ dups > 0
    <3> SUFFICES ASSUME r = "KeyError", drawn[n] <= 1, dups = 0 PROVE FALSE
      BY <1>5, <1>12
    <3>1. PICK T \in Series : open[n] = Entry(n, T, <<>>)
      BY <1>1
    <3> QED BY <1>6, <3>1 DEF Local, InOrder
  <2>3. dups > 0 => dups' > 0
    BY <1>5, <1>6
  <2>4. r = "accepted" \/ r = "commit_mismatch" \/ r = "KeyError"
    BY <1>1
  <2> SUFFICES ASSUME NEW x \in outcomes \cup {o}
               PROVE  \/ x.result = "accepted"
                      \/ x.result = "commit_mismatch" /\ drawn[x.nonce] > 1
                      \/ x.result = "KeyError" /\ (drawn[x.nonce] > 1 \/ dups' > 0)
    BY <1>2, <1>4 DEF HonestRejections
  <2>5. CASE x \in outcomes
    BY <2>3, <2>5 DEF HonestRejections
  <2>6. CASE x = o
    BY <1>3, <2>1, <2>2, <2>3, <2>4, <2>6
  <2> QED BY <2>5, <2>6
<1>14. \A k \in Nonces \ {n} : Same(k)
  BY <1>4, <1>6, <1>10 DEF Same
<1>15. \A T \in Series : Absent \notin {Entry(n, T, <<>>), Entry(n, T, Cons(n))}
  BY EntriesAre
<1>16. \A T \in Series : Bound(n, T)' => Bound(n, T)
  BY <1>4, <1>6, <1>10, <1>15 DEF Bound
<1>17. Fresh(n)' /\ OneSeries(n)'
  BY <1>4, <1>12, <1>16 DEF Local, Fresh, OneSeries
<1>18. InOrder(n)'
  <2>1. dups' = 0 => dups = 0
    BY <1>5, <1>6
  <2> QED BY <1>4, <1>6, <1>10, <1>15, <2>1 DEF Local, InOrder
<1>19. Tidy(n)'
  <2>1. ASSUME losses = 0, dups = 0, dups' = 0
        PROVE  ~(tries[n] = 0) /\ (tries[n] = 1 => UnderWay(n)')
    <3>0. R3(n, S) \in About(n)
      BY <1>0, <1>6 DEF About
    <3>1. tries[n] # 0
      BY <2>1, <3>0 DEF Local, Tidy, Placed
    <3>2. ASSUME UnderWay(n) PROVE UnderWay(n)'
      <4>1. Placed(n, {R3(n, S)}, NoSeries, Entry(n, S, Cons(n)), FALSE)
        BY <3>2, <3>0, MessagesDiffer DEF UnderWay, Placed
      <4>2. Placed(n, {}, NoSeries, Absent, FALSE)'
        BY <1>4, <1>6, <1>10, <2>1, <4>1 DEF Placed
      <4> QED BY <4>2 DEF UnderWay
    <3> QED BY <2>1, <3>1, <3>2 DEF Local, Tidy
  <2>2. dups' = 0 => dups = 0
    BY <1>5, <1>6
  <2> QED BY <1>4, <1>6, <2>1, <2>2 DEF Tidy
<1> HIDE DEF IInv
<1> QED BY <1>7, <1>8, <1>9, <1>11, <1>13, <1>14, <1>17, <1>18, <1>19, Together DEF Local

-----------------------------------------------------------------------------
(* The steps of the protocol, with honest messages. *)
LEMMA Steps ==
  ASSUME TypeOK, NetIsHonest, Next
  PROVE  \/ Lose
         \/ \E n \in Nonces : SendNonce(n)
         \/ \E n \in Nonces, S \in Series :
              /\ Deliver(NonceMsg(n), {R1(n, S)}) /\ P!Round1(n, S)
              /\ UNCHANGED <<verifier, due, tries>>
         \/ \E n \in Nonces, S \in Series :
              /\ Deliver(R1(n, S), {}) /\ V!Round1Recv(n, V!CommitSamples(n, S))
              /\ due' = due \cup {n} /\ UNCHANGED <<prover, tries>>
         \/ \E n \in Nonces :
              /\ n \in due /\ due' = due \ {n} /\ V!Round2Send(n)
              /\ net' = net \cup {R2(n)} /\ UNCHANGED <<prover, tries, losses, dups>>
         \/ \E n \in Nonces :
              /\ n \in due /\ due' = due \ {n} /\ open[n] = Absent
              /\ UNCHANGED <<verifier, net, prover, tries, losses, dups>>
         \/ \E n \in Nonces, S \in Series :
              /\ samples[n] = S /\ Indexed(n, S)
              /\ Deliver(R2(n), {R3(n, S)}) /\ P!Round3(n, Cons(n))
              /\ UNCHANGED <<verifier, due, tries>>
         \/ \E n \in Nonces :
              /\ Deliver(R2(n), {})
              /\ samples' = [samples EXCEPT ![n] = NoSeries]
              /\ UNCHANGED <<drawn, revealed>>
              /\ samples[n] # NoSeries => ~Indexed(n, samples[n])
              /\ UNCHANGED <<verifier, due, tries>>
         \/ \E n \in Nonces, S \in Series :
              /\ Indexed(n, S) /\ Deliver(R3(n, S), {})
              /\ \/ V!Round3Verify(n, S, HonestClaims(n, S))
                 \/ open[n] = Absent /\ UNCHANGED verifier
              /\ UNCHANGED <<prover, due, tries>>
<1>1. ASSUME NEW n \in Nonces, ProverRound1(n)
      PROVE  \E S \in Series :
               /\ Deliver(NonceMsg(n), {R1(n, S)}) /\ P!Round1(n, S)
               /\ UNCHANGED <<verifier, due, tries>>
  BY <1>1 DEF ProverRound1, NonceMsg, R1
<1>2. ASSUME NEW n \in Nonces, VerifierRound1(n)
      PROVE  \E S \in Series :
               /\ Deliver(R1(n, S), {}) /\ V!Round1Recv(n, V!CommitSamples(n, S))
               /\ due' = due \cup {n} /\ UNCHANGED <<prover, tries>>
  <2>1. PICK c \in V!Commits :
          /\ Deliver([type |-> "r1", nonce |-> n, commit |-> c], {})
          /\ V!Round1Recv(n, c) /\ due' = due \cup {n} /\ UNCHANGED <<prover, tries>>
    BY <1>2 DEF VerifierRound1
  <2> DEFINE m == [type |-> "r1", nonce |-> n, commit |-> c]
  <2>2. m \in net /\ m.nonce = n /\ m.type = "r1" /\ m.commit = c
    BY <2>1 DEF Deliver
  <2>3. Deliver(m, {})
    BY <2>1
  <2> HIDE DEF m
  <2>4. PICK S \in Series : m = R1(n, S)
    BY <2>2, Arrives
  <2>5. c = V!CommitSamples(n, S)
    BY <2>2, <2>4, MessagesAre
  <2> QED BY <2>1, <2>3, <2>4, <2>5
<1>3. ASSUME NEW n \in Nonces, VerifierRound2(n)
      PROVE  \/ /\ n \in due /\ due' = due \ {n} /\ V!Round2Send(n)
                /\ net' = net \cup {R2(n)} /\ UNCHANGED <<prover, tries, losses, dups>>
             \/ /\ n \in due /\ due' = due \ {n} /\ open[n] = Absent
                /\ UNCHANGED <<verifier, net, prover, tries, losses, dups>>
  BY <1>3 DEF VerifierRound2, R2, Cons
<1>4. ASSUME NEW n \in Nonces, ProverRound3(n)
      PROVE  \/ \E S \in Series :
                  /\ samples[n] = S /\ Indexed(n, S)
                  /\ Deliver(R2(n), {R3(n, S)}) /\ P!Round3(n, Cons(n))
                  /\ UNCHANGED <<verifier, due, tries>>
             \/ /\ Deliver(R2(n), {})
                /\ samples' = [samples EXCEPT ![n] = NoSeries]
                /\ UNCHANGED <<drawn, revealed>>
                /\ samples[n] # NoSeries => ~Indexed(n, samples[n])
                /\ UNCHANGED <<verifier, due, tries>>
  <2>1. /\ UNCHANGED <<verifier, due, tries>>
        /\ \/ /\ Deliver(R2(n), {[type |-> "r3", nonce |-> n, series |-> samples[n],
                                  claims |-> P!Answers(n, Cons(n))]})
              /\ P!Round3(n, Cons(n))
           \/ Deliver(R2(n), {}) /\ P!Round3Raise(n, Cons(n))
           \/ Deliver(R2(n), {}) /\ samples[n] = NoSeries /\ UNCHANGED prover
    BY <1>4 DEF ProverRound3, R2, Cons
  <2>2. samples[n] \in Series \cup {NoSeries} /\ samples = [samples EXCEPT ![n] = samples[n]]
    BY DEF TypeOK
  <2>3. CASE /\ Deliver(R2(n), {[type |-> "r3", nonce |-> n, series |-> samples[n],
                                 claims |-> P!Answers(n, Cons(n))]})
             /\ P!Round3(n, Cons(n))
    <3>1. samples[n] \in Series /\ Indexed(n, samples[n])
      BY <2>2, <2>3, AnswersAre DEF P!Round3
    <3>2. [type |-> "r3", nonce |-> n, series |-> samples[n],
           claims |-> P!Answers(n, Cons(n))] = R3(n, samples[n])
      BY AnswersAre DEF R3
    <3> QED BY <2>1, <2>3, <3>1, <3>2
  <2>4. CASE Deliver(R2(n), {}) /\ P!Round3Raise(n, Cons(n))
    BY <2>1, <2>4, AnswersAre DEF P!Round3Raise, P!Forget
  <2>5. CASE Deliver(R2(n), {}) /\ samples[n] = NoSeries /\ UNCHANGED prover
    BY <2>1, <2>2, <2>5 DEF prover
  <2> QED BY <2>1, <2>3, <2>4, <2>5
<1>5. ASSUME NEW n \in Nonces, VerifierRound3(n)
      PROVE  \E S \in Series :
               /\ Indexed(n, S) /\ Deliver(R3(n, S), {})
               /\ \/ V!Round3Verify(n, S, HonestClaims(n, S))
                  \/ open[n] = Absent /\ UNCHANGED verifier
               /\ UNCHANGED <<prover, due, tries>>
  <2>1. PICK m \in net :
          /\ m.type = "r3" /\ m.nonce = n /\ Deliver(m, {})
          /\ \/ V!Round3Verify(n, m.series, m.claims)
             \/ open[n] = Absent /\ UNCHANGED verifier
          /\ UNCHANGED <<prover, due, tries>>
    BY <1>5 DEF VerifierRound3
  <2>2. PICK S \in Series : m = R3(n, S) /\ Indexed(n, S)
    BY <2>1, Arrives
  <2>3. m.series = S /\ m.claims = HonestClaims(n, S)
    BY <2>2, MessagesAre
  <2> QED BY <2>1, <2>2, <2>3
<1> QED BY <1>1, <1>2, <1>3, <1>4, <1>5 DEF Next, Handle

(* A reveal whose session is gone changes nothing but the network. *)
LEMMA LateRevealKeeps ==
  ASSUME IInv, NEW n \in Nonces, NEW S \in Series, Deliver(R3(n, S), {}),
         open[n] = Absent, UNCHANGED verifier, UNCHANGED <<prover, due, tries>>
  PROVE  IInv'
<1> USE DEF IInv
<1>0. R3(n, S).nonce = n
  BY MessagesAre
<1>1. /\ samples' = samples /\ revealed' = revealed /\ drawn' = drawn
      /\ open' = open /\ session' = session /\ opened' = opened
      /\ issued' = issued /\ outcomes' = outcomes /\ due' = due /\ tries' = tries
  BY DEF verifier, prover
<1>2. dups \in Nat /\ losses \in Nat
  BY BoundsAssumption DEF TypeOK
<1>3. /\ R3(n, S) \in net /\ losses' = losses
      /\ dups' \in Nat /\ dups' >= dups
      /\ net' \subseteq net
      /\ \A k \in Nonces \ {n} : About(k)' = About(k)
  <2> HIDE DEF IInv
  <2>1. \A x \in {} : x.nonce = n
    OBVIOUS
  <2> QED BY <1>0, <1>2, <2>1, Delivery
<1>4. Onward
  BY <1>2, <1>3 DEF Onward
<1>5. NetIsHonest' /\ net' \subseteq Messages
  BY <1>3, NetKept
<1>6. TypeOK'
  <2>1. dups' \in 0..MaxFaults
    BY BoundsAssumption DEF Deliver, TypeOK
  <2> QED BY <1>1, <1>3, <1>5, <2>1 DEF TypeOK, V!TypeOK
<1>7. OpenIsHonest' /\ IsFiniteSet(Sent)' /\ RevealedAtMostOnce'
  BY <1>1, SentKept DEF OpenIsHonest, RevealedAtMostOnce
<1>8. HonestRejections'
  <2>1. \A k \in Nonces : drawn[k] \in Nat /\ drawn'[k] \in Nat /\ drawn'[k] >= drawn[k]
    BY <1>1 DEF TypeOK
  <2>2. \A o \in outcomes : o.nonce \in Nonces
    BY DEF TypeOK, V!TypeOK
  <2> QED BY <1>1, <1>4, <2>1, <2>2, OutcomesKept
<1>9. \A k \in Nonces \ {n} : Same(k)
  BY <1>1, <1>3 DEF Same
<1>10. \A T \in Series : Bound(n, T)' => Bound(n, T)
  BY <1>1, <1>3 DEF Bound
<1>11. Fresh(n)' /\ OneSeries(n)'
  BY <1>1, <1>3, <1>10 DEF Local, Fresh, OneSeries
<1>12. dups' = 0 => dups = 0
  BY <1>2, <1>3
<1>13. InOrder(n)'
  BY <1>1, <1>3, <1>12 DEF Local, InOrder
<1>14. Tidy(n)'
  <2>1. ASSUME losses = 0, dups = 0
        PROVE  ~(tries[n] = 0) /\ ~(tries[n] = 1)
    <3>0. R3(n, S) \in About(n)
      BY <1>0, <1>3 DEF About
    <3>1. \A T \in Series : Entry(n, T, Cons(n)) # Absent
      BY EntriesAre
    <3> QED BY <2>1, <3>0, <3>1, MessagesDiffer DEF Local, Tidy, UnderWay, Placed
  <2> QED BY <1>1, <1>3, <1>12, <2>1 DEF Tidy
<1> HIDE DEF IInv
<1> QED BY <1>4, <1>5, <1>6, <1>7, <1>8, <1>9, <1>11, <1>13, <1>14, Together DEF Local

LEMMA Starting ==
  ASSUME Init
  PROVE  IInv
<1>1. /\ samples = [n \in Nonces |-> NoSeries]
      /\ drawn = [n \in Nonces |-> 0] /\ revealed = [n \in Nonces |-> 0]
      /\ open = [n \in Nonces |-> Absent] /\ session = [n \in Nonces |-> 0]
      /\ opened = 0 /\ issued = {} /\ outcomes = {}
      /\ due = {} /\ net = {} /\ tries = [n \in Nonces |-> 0]
      /\ losses = 0 /\ dups = 0
  BY DEF Init, P!Init, V!Init
<1>2. TypeOK
  BY <1>1, BoundsAssumption DEF TypeOK, V!TypeOK
<1>3. IsFiniteSet(Sent)
  <2>1. Sent = {}
    BY <1>1, BoundsAssumption DEF Sent
  <2> QED BY <2>1, FS_EmptySet
<1>4. NetIsHonest /\ OpenIsHonest /\ RevealedAtMostOnce /\ HonestRejections
  BY <1>1 DEF NetIsHonest, OpenIsHonest, RevealedAtMostOnce, HonestRejections
<1>5. ASSUME NEW n \in Nonces PROVE Local(n)
  <2>1. \A S \in Series : ~Bound(n, S)
    BY <1>1, AbsentAssumption, EntriesAre DEF Bound
  <2>2. Placed(n, {}, NoSeries, Absent, FALSE)
    BY <1>1 DEF Placed, About
  <2>3. Fresh(n) /\ OneSeries(n)
    BY <1>1, <2>1 DEF Fresh, OneSeries
  <2>4. InOrder(n)
    BY <1>1 DEF InOrder
  <2>5. Tidy(n)
    <3>1. tries[n] = 0 /\ ~(tries[n] = 1)
      BY <1>1
    <3> QED BY <2>2, <3>1 DEF Tidy
  <2> QED BY <2>3, <2>4, <2>5 DEF Local
<1> QED BY <1>2, <1>3, <1>4, <1>5 DEF IInv

LEMMA StepKeeps ==
  ASSUME IInv, [Next]_vars
  PROVE  IInv'
<1>0. TypeOK /\ NetIsHonest
  BY DEF IInv
<1>1. CASE Next
  <2>1. ASSUME NEW n \in Nonces, NEW S \in Series,
               Indexed(n, S), Deliver(R3(n, S), {}),
               V!Round3Verify(n, S, HonestClaims(n, S))
                 \/ (open[n] = Absent /\ UNCHANGED verifier),
               UNCHANGED <<prover, due, tries>>
        PROVE  IInv'
    BY <2>1, VerifierRound3Keeps, LateRevealKeeps
  <2> QED BY <1>0, <1>1, <2>1, Steps, LosingKeeps, SendingKeeps, ProverRound1Keeps,
             VerifierRound1Keeps, VerifierRound2Keeps, VerifierRound2RaisesKeeps,
             ProverRound3Keeps, ProverRound3RaisesKeeps
<1>2. CASE UNCHANGED vars
  <2>1. /\ samples' = samples /\ drawn' = drawn /\ revealed' = revealed
        /\ open' = open /\ session' = session /\ opened' = opened
        /\ issued' = issued /\ outcomes' = outcomes /\ due' = due /\ net' = net
        /\ tries' = tries /\ losses' = losses /\ dups' = dups
    BY <1>2 DEF vars, prover, verifier
  <2>2. TypeOK' /\ IsFiniteSet(Sent)'
    BY <2>1, SentKept DEF IInv, TypeOK, V!TypeOK
  <2>3. NetIsHonest' /\ OpenIsHonest' /\ RevealedAtMostOnce' /\ HonestRejections'
    BY <2>1 DEF IInv, NetIsHonest, OpenIsHonest, RevealedAtMostOnce, HonestRejections
  <2>4. Onward /\ \A n \in Nonces : Same(n)
    BY <1>0, <2>1, BoundsAssumption DEF Onward, Same, About, TypeOK
  <2>5. \A n \in Nonces : Local(n)'
    BY <2>4, SameKept DEF IInv
  <2> QED BY <2>2, <2>3, <2>5 DEF IInv
<1> QED BY <1>1, <1>2

(* The inductive invariant holds in every reachable state. *)
THEOREM Invariance == Spec => []IInv
BY Starting, StepKeeps, PTL DEF Spec

(* Both dictionaries, the network and the counts keep their types. *)
THEOREM TypeCorrect == Spec => []TypeOK
<1>1. IInv => TypeOK
  BY DEF IInv
<1> QED BY <1>1, Invariance, PTL

(* An honest prover is turned down only after a repetition: a second       *)
(* round1 under the nonce, or a message that came twice.                   *)
THEOREM OnlyRepetitionRejects == Spec => []HonestRejections
<1>1. IInv => HonestRejections
  BY DEF IInv
<1> QED BY <1>1, Invariance, PTL

(* Every reveal, and the series still held, has a reading of its own. *)
THEOREM EachReadingIsRevealedOnce == Spec => []RevealedAtMostOnce
<1>1. IInv => RevealedAtMostOnce
  BY DEF IInv
<1> QED BY <1>1, Invariance, PTL

(* Without loss, repetition or retry a finished exchange leaves nothing in *)
(* the dictionaries, but for a session whose series was too short.         *)
THEOREM FinishedIsTidy == Spec => []NothingLeftBehind
<1>1. IInv => NothingLeftBehind
  <2> SUFFICES ASSUME IInv, NEW n \in Nonces, Faultless(n), n \notin due,
                      \A m \in net : m.nonce # n
               PROVE  samples[n] = NoSeries /\ (open[n] = Absent \/ Starved(n))
    BY DEF NothingLeftBehind
  <2>1. About(n) = {}
    BY DEF About
  <2>2. UnderWay(n)
    BY DEF IInv, Local, Tidy, Faultless
  <2>3. \/ samples[n] = NoSeries /\ open[n] = Absent
        \/ \E S \in Series : /\ samples[n] = NoSeries /\ ~Indexed(n, S)
                             /\ open[n] = Entry(n, S, Cons(n))
    BY <2>1, <2>2 DEF UnderWay, Placed
  <2>4. ASSUME NEW S \in Series, samples[n] = NoSeries, ~Indexed(n, S),
               open[n] = Entry(n, S, Cons(n))
        PROVE  Starved(n)
    <3>1. open[n] # Absent /\ open[n].commit = V!CommitSamples(n, S)
      BY <2>4, EntriesAre
    <3>2. \E k \in 1..V!NumConstraints : ~InRange(V!DeriveConstraints(n)[k], S)
      BY <2>4 DEF Indexed, Cons
    <3> QED BY <2>4, <3>1, <3>2 DEF Starved
  <2> QED BY <2>3, <2>4
<1> QED BY <1>1, Invariance, PTL

(* Whatever the network does, the verifier sees only calls it was modelled *)
(* and proved for: every step of the whole is one of its own or leaves its *)
(* dictionary alone, so its theorems hold of the whole protocol.           *)
THEOREM VerifierInContext == Spec => V!Spec
<1>1. Init => V!Init
  BY DEF Init
<1>2. IInv /\ [Next]_vars => [V!Next]_(V!vars)
  <2> SUFFICES ASSUME IInv, [Next]_vars PROVE V!Next \/ UNCHANGED V!vars
    OBVIOUS
  <2>0. TypeOK /\ NetIsHonest
    BY DEF IInv
  <2>1. verifier = V!vars
    BY DEF verifier, V!vars
  <2>2. ASSUME NEW n \in Nonces, NEW S \in Series, V!Round1Recv(n, V!CommitSamples(n, S))
        PROVE  V!Next
    <3>1. V!CommitSamples(n, S) \in V!Commits
      BY DEF V!CommitSamples, V!Commits
    <3> QED BY <2>2, <3>1 DEF V!Next
  <2>3. ASSUME NEW n \in Nonces, V!Round2Send(n) PROVE V!Next
    BY <2>3 DEF V!Next
  <2>4. ASSUME NEW n \in Nonces, NEW S \in Series,
               V!Round3Verify(n, S, HonestClaims(n, S))
        PROVE  V!Next
    <3>1. HonestClaims(n, S) \in ClaimLists
      BY AggregatesAssumption DEF HonestClaims, Cons
    <3> QED BY <2>4, <3>1 DEF V!Next
  <2>5. CASE UNCHANGED vars
    BY <2>5 DEF vars, verifier, V!vars
  <2>6. CASE Lose
    BY <2>6 DEF Lose, verifier, V!vars
  <2>7. ASSUME NEW n \in Nonces, SendNonce(n) PROVE UNCHANGED V!vars
    BY <2>7 DEF SendNonce, verifier, V!vars
  <2>8. UNCHANGED verifier => UNCHANGED V!vars
    BY <2>1 DEF verifier, V!vars
  <2> QED BY <2>0, <2>2, <2>3, <2>4, <2>5, <2>6, <2>7, <2>8, Steps
<1> QED BY <1>1, <1>2, Invariance, PTL DEF Spec, V!Spec
=============================================================================
