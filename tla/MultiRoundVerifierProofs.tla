---------------------- MODULE MultiRoundVerifierProofs ----------------------
(***************************************************************************)
(* Proofs about MultiRoundVerifier, for any nonces, series, claim lists,   *)
(* aggregates, tolerances and number of sessions.                          *)
(***************************************************************************)
EXTENDS MultiRoundVerifier, TLAPS

(* What is on record for the open sessions: constraints were handed out    *)
(* under the commitment now on record.                                     *)
ChallengeIssued ==
  \A n \in Nonces :
     Challenged(n) => <<session[n], open[n].commit>> \in issued

(* Session numbers are used up in order, belong to one nonce each, and an  *)
(* open session has no outcome yet.                                        *)
SessionsInOrder ==
  /\ \A n \in Nonces : session[n] <= opened
  /\ \A n \in Nonces : open[n] # Absent => session[n] > 0
  /\ \A n, m \in Nonces : n # m /\ session[n] = session[m] => session[n] = 0
  /\ \A o \in outcomes : o.session <= opened
  /\ \A n \in Nonces, o \in outcomes : open[n] # Absent => o.session # session[n]

IInv == /\ TypeOK
        /\ ChallengeIssued
        /\ AcceptedSeriesWasBound
        /\ SessionsInOrder
        /\ OneOutcomePerSession

-----------------------------------------------------------------------------
(* An entry never equals Absent, and constraints handed out are never <<>>. *)
LEMMA ConstraintsNonEmpty == \A n \in Nonces : DeriveConstraints(n) # <<>>
<1> SUFFICES ASSUME NEW n \in Nonces PROVE DeriveConstraints(n) # <<>>
  OBVIOUS
<1>1. DOMAIN DeriveConstraints(n) = 1..5
  BY DEF DeriveConstraints, NumConstraints
<1>2. 1 \in 1..5 /\ 1 \notin DOMAIN <<>>
  OBVIOUS
<1> QED BY <1>1, <1>2

(* Every step is one of the three handlers, round3 with one of its results. *)
LEMMA NextCases ==
  ASSUME Next
  PROVE  \/ \E n \in Nonces, c \in Commits : Round1Recv(n, c)
         \/ \E n \in Nonces : Round2Send(n)
         \/ \E n \in Nonces, S \in Series, t \in ClaimLists :
              \/ /\ open[n] # Absent
                 /\ \E r \in Results \ {"accepted"} : Close(n, S, t, r)
              \/ Round3Accept(n, S, t)
BY DEF Next, Round3Verify, Round3Unchallenged, Round3Mismatch, Round3Raise,
       Round3Violation, Challenged, Results

(* The dictionary only ever holds entries the handlers build. *)
THEOREM TypeCorrect == Spec => []TypeOK
<1>1. Init => TypeOK
  BY DEF Init, TypeOK
<1>2. TypeOK /\ [Next]_vars => TypeOK'
  <2> SUFFICES ASSUME TypeOK, [Next]_vars PROVE TypeOK'
    OBVIOUS
  <2> USE DEF TypeOK
  <2>1. ASSUME NEW n \in Nonces, NEW c \in Commits, Round1Recv(n, c) PROVE TypeOK'
    <3>1. [commit |-> c, cons |-> <<>>] \in Entries
      BY DEF Entries
    <3> QED BY <2>1, <3>1 DEF Round1Recv
  <2>2. ASSUME NEW n \in Nonces, Round2Send(n) PROVE TypeOK'
    <3>1. open[n] \in Entries
      BY <2>2 DEF Round2Send
    <3>2. [open[n] EXCEPT !.cons = DeriveConstraints(n)] \in Entries
      BY <3>1 DEF Entries
    <3>3. open[n].commit \in Commits
      BY <3>1 DEF Entries
    <3> QED BY <2>2, <3>2, <3>3 DEF Round2Send
  <2>3. ASSUME NEW n \in Nonces, NEW S \in Series, NEW t \in ClaimLists,
               NEW r \in Results, Close(n, S, t, r)
        PROVE  TypeOK'
    <3>1. Len(t) \in Nat
      BY ClaimListsAssumption
    <3> QED BY <2>3, <3>1 DEF Close
  <2>4. CASE UNCHANGED vars
    BY <2>4 DEF vars
  <2> QED BY <2>1, <2>2, <2>3, <2>4, NextCases DEF Round3Accept, Results
<1> QED BY <1>1, <1>2, PTL DEF Spec

-----------------------------------------------------------------------------
(* A new session: its number is fresh and its entry has no constraints. *)
LEMMA Round1RecvKeeps ==
  ASSUME IInv, TypeOK', NEW n \in Nonces, NEW c \in Commits, Round1Recv(n, c)
  PROVE  IInv'
<1> USE DEF IInv, TypeOK
<1>1. /\ open' = [open EXCEPT ![n] = [commit |-> c, cons |-> <<>>]]
      /\ session' = [session EXCEPT ![n] = opened + 1]
      /\ opened' = opened + 1 /\ opened \in Nat
      /\ issued' = issued /\ outcomes' = outcomes
  BY DEF Round1Recv
<1>2. ChallengeIssued'
  <2>1. \A m \in Nonces : m # n => open'[m] = open[m] /\ session'[m] = session[m]
    BY <1>1
  <2>2. open'[n].cons = <<>>
    BY <1>1
  <2> QED BY <1>1, <2>1, <2>2 DEF ChallengeIssued, Challenged
<1>3. AcceptedSeriesWasBound'
  BY <1>1 DEF AcceptedSeriesWasBound
<1>4. SessionsInOrder'
  BY <1>1 DEF SessionsInOrder
<1>5. OneOutcomePerSession'
  BY <1>1 DEF OneOutcomePerSession
<1> QED BY <1>2, <1>3, <1>4, <1>5

(* Handing out the constraints records the commitment they go out under. *)
LEMMA Round2SendKeeps ==
  ASSUME IInv, TypeOK', NEW n \in Nonces, Round2Send(n)
  PROVE  IInv'
<1> USE DEF IInv, TypeOK
<1>1. /\ open[n] # Absent
      /\ open' = [open EXCEPT ![n] = [open[n] EXCEPT !.cons = DeriveConstraints(n)]]
      /\ issued' = issued \cup {<<session[n], open[n].commit>>}
      /\ session' = session /\ opened' = opened /\ outcomes' = outcomes
  BY DEF Round2Send
<1>2. \A m \in Nonces : m # n => open'[m] = open[m]
  BY <1>1
<1>3. open'[n].commit = open[n].commit
  BY <1>1 DEF Entries
<1>4. ChallengeIssued'
  BY <1>1, <1>2, <1>3 DEF ChallengeIssued, Challenged
<1>5. AcceptedSeriesWasBound'
  BY <1>1 DEF AcceptedSeriesWasBound
<1>6. SessionsInOrder'
  BY <1>1, <1>2 DEF SessionsInOrder
<1>7. OneOutcomePerSession'
  BY <1>1 DEF OneOutcomePerSession
<1> QED BY <1>4, <1>5, <1>6, <1>7

(* Closing a session records its one outcome and takes the entry out. *)
LEMMA CloseKeeps ==
  ASSUME IInv, TypeOK', NEW n \in Nonces, NEW S \in Series,
         NEW t \in ClaimLists, NEW r \in Results, open[n] # Absent,
         r = "accepted" => <<session[n], CommitSamples(n, S)>> \in issued,
         Close(n, S, t, r)
  PROVE  IInv'
<1> USE DEF IInv, TypeOK
<1> DEFINE o == [nonce |-> n, session |-> session[n], result |-> r,
                 series |-> S, answers |-> Len(t)]
<1>1. /\ open' = [open EXCEPT ![n] = Absent]
      /\ outcomes' = outcomes \cup {o}
      /\ session' = session /\ opened' = opened /\ issued' = issued
  BY DEF Close
<1>2. o.nonce = n /\ o.session = session[n] /\ o.result = r /\ o.series = S
  OBVIOUS
<1> HIDE DEF o
<1>3. \A m \in Nonces : open'[m] # Absent => m # n /\ open'[m] = open[m]
  BY <1>1
<1>4. ChallengeIssued'
  BY <1>1, <1>3 DEF ChallengeIssued, Challenged
<1>5. AcceptedSeriesWasBound'
  BY <1>1, <1>2 DEF AcceptedSeriesWasBound
<1>6. SessionsInOrder'
  <2>1. \A m \in Nonces : open'[m] # Absent => session[m] # session[n]
    BY <1>3 DEF SessionsInOrder
  <2> QED BY <1>1, <1>2, <1>3, <2>1 DEF SessionsInOrder
<1>7. OneOutcomePerSession'
  <2>1. \A x \in outcomes : x.session # o.session
    BY <1>2 DEF SessionsInOrder
  <2> QED BY <1>1, <2>1 DEF OneOutcomePerSession
<1> QED BY <1>4, <1>5, <1>6, <1>7

(* An accepted series opens the commitment on record, which was issued. *)
LEMMA AcceptIssued ==
  ASSUME IInv, NEW n \in Nonces, NEW S \in Series, NEW t \in ClaimLists,
         Round3Accept(n, S, t)
  PROVE  <<session[n], CommitSamples(n, S)>> \in issued
BY DEF IInv, ChallengeIssued, Round3Accept, Opened

(* The inductive invariant holds in every reachable state. *)
THEOREM Invariance == Spec => []IInv
<1>1. Init => IInv
  <2> SUFFICES ASSUME Init PROVE IInv
    OBVIOUS
  <2>1. TypeOK
    BY DEF Init, TypeOK
  <2>2. ChallengeIssued /\ AcceptedSeriesWasBound /\ OneOutcomePerSession
    BY DEF Init, ChallengeIssued, Challenged, AcceptedSeriesWasBound,
           OneOutcomePerSession
  <2>3. SessionsInOrder
    BY DEF Init, SessionsInOrder
  <2> QED BY <2>1, <2>2, <2>3 DEF IInv
<1>2. IInv /\ TypeOK' /\ [Next]_vars => IInv'
  <2> SUFFICES ASSUME IInv, TypeOK', [Next]_vars PROVE IInv'
    OBVIOUS
  <2>1. ASSUME NEW n \in Nonces, NEW c \in Commits, Round1Recv(n, c) PROVE IInv'
    BY <2>1, Round1RecvKeeps
  <2>2. ASSUME NEW n \in Nonces, Round2Send(n) PROVE IInv'
    BY <2>2, Round2SendKeeps
  <2>3. ASSUME NEW n \in Nonces, NEW S \in Series, NEW t \in ClaimLists,
               NEW r \in Results \ {"accepted"}, open[n] # Absent,
               Close(n, S, t, r)
        PROVE  IInv'
    BY <2>3, CloseKeeps
  <2>4. ASSUME NEW n \in Nonces, NEW S \in Series, NEW t \in ClaimLists,
               Round3Accept(n, S, t)
        PROVE  IInv'
    <3>1. /\ open[n] # Absent /\ Close(n, S, t, "accepted")
          /\ "accepted" \in Results
      BY <2>4 DEF Round3Accept, Challenged, Results
    <3> QED BY <2>4, <3>1, AcceptIssued, CloseKeeps
  <2>5. CASE UNCHANGED vars
    BY <2>5 DEF vars, IInv, TypeOK, ChallengeIssued, Challenged,
                AcceptedSeriesWasBound, SessionsInOrder, OneOutcomePerSession
  <2> QED BY <2>1, <2>2, <2>3, <2>4, <2>5, NextCases
<1> QED BY <1>1, <1>2, TypeCorrect, PTL DEF Spec

(* Whatever arrives in whatever order, an accepted series was committed to *)
(* in its own session before that session's constraints were handed out.   *)
THEOREM AcceptanceBinds == Spec => []AcceptedSeriesWasBound
<1>1. IInv => AcceptedSeriesWasBound
  BY DEF IInv
<1> QED BY <1>1, Invariance, PTL

(* No session is reported on twice. *)
THEOREM SessionEndsOnce == Spec => []OneOutcomePerSession
<1>1. IInv => OneOutcomePerSession
  BY DEF IInv
<1> QED BY <1>1, Invariance, PTL

-----------------------------------------------------------------------------
(* The abstract variables, nonce by nonce. *)
LEMMA BarValues ==
  ASSUME TypeOK, NEW n \in Nonces
  PROVE  /\ stageBar[n] = IF open[n] = Absent THEN "idle"
                          ELSE IF open[n].cons = <<>> THEN "committed"
                          ELSE "challenged"
         /\ boundBar[n] = IF open[n] = Absent THEN Absent ELSE open[n].commit
BY DEF stageBar, boundBar

(* A step that replaces the entry of n alone changes the abstract session  *)
(* of n alone.                                                              *)
LEMMA BarUpdate ==
  ASSUME TypeOK, NEW n \in Nonces, NEW e, open' = [open EXCEPT ![n] = e]
  PROVE  /\ stageBar' = [stageBar EXCEPT ![n] =
                           IF e = Absent THEN "idle"
                           ELSE IF e.cons = <<>> THEN "committed" ELSE "challenged"]
         /\ boundBar' = [boundBar EXCEPT ![n] =
                           IF e = Absent THEN Absent ELSE e.commit]
<1>1. \A m \in Nonces : open'[m] = IF m = n THEN e ELSE open[m]
  BY DEF TypeOK
<1> DEFINE st == IF e = Absent THEN "idle"
                 ELSE IF e.cons = <<>> THEN "committed" ELSE "challenged"
           b == IF e = Absent THEN Absent ELSE e.commit
<1>2. stageBar' = [m \in Nonces |-> IF m = n THEN st ELSE stageBar[m]]
  <2>1. \A m \in Nonces :
          (IF open'[m] = Absent THEN "idle"
           ELSE IF open'[m].cons = <<>> THEN "committed" ELSE "challenged")
          = IF m = n THEN st ELSE stageBar[m]
    BY <1>1, BarValues
  <2> QED BY <2>1 DEF stageBar
<1>3. boundBar' = [m \in Nonces |-> IF m = n THEN b ELSE boundBar[m]]
  <2>1. \A m \in Nonces :
          (IF open'[m] = Absent THEN Absent ELSE open'[m].commit)
          = IF m = n THEN b ELSE boundBar[m]
    BY <1>1, BarValues
  <2> QED BY <2>1 DEF boundBar
<1>4. DOMAIN stageBar = Nonces /\ DOMAIN boundBar = Nonces
  BY DEF stageBar, boundBar
<1> HIDE DEF st, b
<1>5. /\ stageBar' = [stageBar EXCEPT ![n] = st]
      /\ boundBar' = [boundBar EXCEPT ![n] = b]
  BY <1>2, <1>3, <1>4
<1> QED BY <1>5 DEF st, b

(* The verifier's dictionary implements the commit-challenge-reveal session. *)
THEOREM Refinement == Spec => RefinesCommitReveal
<1>1. Init => CR!Init
  <2> SUFFICES ASSUME Init PROVE CR!Init
    OBVIOUS
  <2>1. stageBar = [n \in Nonces |-> "idle"] /\ boundBar = [n \in Nonces |-> Absent]
    BY DEF Init, stageBar, boundBar
  <2>2. acceptedBar = {}
    BY DEF Init, acceptedBar
  <2> QED BY <2>1, <2>2 DEF Init, CR!Init
<1>2. IInv /\ [Next]_vars => [CR!Next]_(CR!vars)
  <2> SUFFICES ASSUME IInv, [Next]_vars PROVE CR!Next \/ UNCHANGED CR!vars
    OBVIOUS
  <2>0. TypeOK
    BY DEF IInv
  <2>1. ASSUME NEW n \in Nonces, NEW c \in Commits, Round1Recv(n, c) PROVE CR!Next
    <3> DEFINE e == [commit |-> c, cons |-> <<>>]
    <3>1. e \in Entries /\ e.cons = <<>> /\ e.commit = c /\ e # Absent
      BY AbsentAssumption DEF Entries
    <3>0. open' = [open EXCEPT ![n] = e]
      BY <2>1 DEF Round1Recv
    <3> HIDE DEF e
    <3>2. /\ stageBar' = [stageBar EXCEPT ![n] = "committed"]
          /\ boundBar' = [boundBar EXCEPT ![n] = c]
      BY <2>0, <3>0, <3>1, BarUpdate
    <3>3. /\ session' = [session EXCEPT ![n] = session'[n]]
          /\ session'[n] > session[n]
      BY <2>1 DEF Round1Recv, IInv, TypeOK, SessionsInOrder
    <3>4. acceptedBar' = acceptedBar
      BY <2>1 DEF Round1Recv, acceptedBar
    <3> QED BY <3>2, <3>3, <3>4 DEF CR!Commit, CR!Next
  <2>2. ASSUME NEW n \in Nonces, Round2Send(n) PROVE CR!Next
    <3>0. PICK e : e = [open[n] EXCEPT !.cons = DeriveConstraints(n)]
      OBVIOUS
    <3>1. /\ open[n] \in Entries /\ e \in Entries
          /\ e.cons = DeriveConstraints(n) /\ e.commit = open[n].commit
      BY <2>0, <2>2, <3>0 DEF Round2Send, Entries, TypeOK
    <3>2. e # Absent /\ e.cons # <<>>
      BY <3>1, AbsentAssumption, ConstraintsNonEmpty
    <3>3. open' = [open EXCEPT ![n] = e]
      BY <2>2, <3>0 DEF Round2Send
    <3>4. /\ stageBar' = [stageBar EXCEPT ![n] = "challenged"]
          /\ boundBar' = [boundBar EXCEPT ![n] = open[n].commit]
      <4>1. /\ stageBar' = [stageBar EXCEPT ![n] =
                              IF e = Absent THEN "idle"
                              ELSE IF e.cons = <<>> THEN "committed" ELSE "challenged"]
            /\ boundBar' = [boundBar EXCEPT ![n] =
                              IF e = Absent THEN Absent ELSE e.commit]
        BY <2>0, <3>3, BarUpdate
      <4>2. e # Absent /\ ~(e.cons = <<>>) /\ e.commit = open[n].commit
        BY <3>1, <3>2
      <4> QED BY <4>1, <4>2
    <3>5. boundBar' = boundBar /\ stageBar[n] # "idle"
      BY <2>0, <2>2, <3>4, BarValues DEF Round2Send, boundBar
    <3>6. acceptedBar' = acceptedBar /\ session' = session
      BY <2>2 DEF Round2Send, acceptedBar
    <3> QED BY <3>4, <3>5, <3>6 DEF CR!Challenge, CR!Next
  <2>3. ASSUME NEW n \in Nonces, NEW S \in Series, NEW t \in ClaimLists,
               NEW r \in Results, open[n] # Absent, Close(n, S, t, r)
        PROVE  /\ CR!Close(n)
               /\ acceptedBar' = IF r = "accepted"
                                 THEN acceptedBar \cup {<<n, session[n], S>>}
                                 ELSE acceptedBar
    <3>1. CR!Close(n)
      BY <2>0, <2>3, BarUpdate DEF Close, CR!Close
    <3>2. outcomes' = outcomes \cup
            {[nonce |-> n, session |-> session[n], result |-> r, series |-> S,
              answers |-> Len(t)]}
      BY <2>3 DEF Close
    <3> DEFINE o == [nonce |-> n, session |-> session[n], result |-> r,
                     series |-> S, answers |-> Len(t)]
    <3>3. /\ o.nonce = n /\ o.session = session[n]
          /\ o.result = r /\ o.series = S
      OBVIOUS
    <3>4. outcomes' = outcomes \cup {o}
      BY <3>2
    <3> HIDE DEF o
    <3>5. acceptedBar' = {<<x.nonce, x.session, x.series>> :
                             x \in {y \in outcomes \cup {o} : y.result = "accepted"}}
      BY <3>4 DEF acceptedBar
    <3>6. CASE r = "accepted"
      <4>1. {y \in outcomes \cup {o} : y.result = "accepted"}
              = {y \in outcomes : y.result = "accepted"} \cup {o}
        BY <3>3, <3>6
      <4> QED BY <3>1, <3>3, <3>5, <3>6, <4>1 DEF acceptedBar
    <3>7. CASE r # "accepted"
      <4>1. {y \in outcomes \cup {o} : y.result = "accepted"}
              = {y \in outcomes : y.result = "accepted"}
        BY <3>3, <3>7
      <4> QED BY <3>1, <3>5, <3>7, <4>1 DEF acceptedBar
    <3> QED BY <3>6, <3>7
  <2>4. ASSUME NEW n \in Nonces, NEW S \in Series, NEW t \in ClaimLists,
               NEW r \in Results \ {"accepted"}, open[n] # Absent,
               Close(n, S, t, r)
        PROVE  CR!Next
    <3>1. stageBar[n] # "idle"
      BY <2>0, <2>4, BarValues
    <3> QED BY <2>3, <2>4, <3>1 DEF CR!End, CR!Next
  <2>5. ASSUME NEW n \in Nonces, NEW S \in Series, NEW t \in ClaimLists,
               Round3Accept(n, S, t)
        PROVE  CR!Next
    <3>1. /\ open[n] # Absent /\ open[n].cons # <<>>
          /\ open[n].commit = CommitSamples(n, S)
          /\ Close(n, S, t, "accepted") /\ "accepted" \in Results
      BY <2>5 DEF Round3Accept, Challenged, Opened, Results
    <3>2. stageBar[n] = "challenged" /\ OpensBar(boundBar[n], n, S)
      BY <2>0, <3>1, BarValues DEF OpensBar
    <3> QED BY <2>3, <3>1, <3>2 DEF CR!Accept, CR!Next
  <2>6. CASE UNCHANGED vars
    BY <2>6 DEF vars, CR!vars, stageBar, boundBar, acceptedBar
  <2> QED BY <2>1, <2>2, <2>4, <2>5, <2>6, NextCases
<1> QED BY <1>1, <1>2, Invariance, PTL DEF Spec, RefinesCommitReveal, CR!Spec
=============================================================================
