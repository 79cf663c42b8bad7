----------------------------- MODULE DemoProofs -----------------------------
(***************************************************************************)
(* Proofs about Demo, for any number of clicks and of failures: the types, *)
(* the affinity, that a stale replay presents the signature of another     *)
(* nonce, and that the signature shown is the one asked for last.          *)
(***************************************************************************)
EXTENDS Demo, FiniteSetTheorems, WellFoundedInduction, TLAPS

\* A click whose challenge has drawn its nonce.
Drew(i) == \/ clicks[i].url = "challenge" /\ clicks[i].stage # "asked"
           \/ clicks[i].url = "verify" /\ clicks[i].button = "staleReplay"

\* No nonce is drawn but by a click, and no click draws two.
Counted == /\ Len(clicks) <= MaxClicks
           /\ issued <= Cardinality({i \in DOMAIN clicks : Drew(i)})

\* Nonces in use have been drawn, and a signature is of the nonce asked for.
DrawnBefore ==
  \A i \in DOMAIN clicks :
    /\ clicks[i].nonce <= issued /\ clicks[i].answer <= issued
    /\ clicks[i].url = "sign" =>
         /\ clicks[i].button = "signNonce" /\ clicks[i].nonce > 0
         /\ clicks[i].stage = "answered" => clicks[i].answer = clicks[i].nonce
    /\ clicks[i].stage = "resumed" =>
         clicks[i].url = "challenge" /\ clicks[i].button = "staleReplay"

\* A thread that has the affinity in its hands is in one of its pairs.
PairsLeft == \A i \in DOMAIN clicks : clicks[i].stage = "pinned" =>
                                        clicks[i].url = "sign" /\ clicks[i].pairs > 0

TInv == TypeOK /\ Counted /\ DrawnBefore /\ PairsLeft /\ AffinityRestored

\* A response of /challenge that the page does not know yet.
Coming(i) == clicks[i].url = "challenge" /\ clicks[i].stage = "answered"

(* The nonce in it is new to the page, which has neither shown it, nor     *)
(* stashed it, nor sent it anywhere; nor does another response bring it.   *)
ComingIsNew ==
  \A i \in DOMAIN clicks : Coming(i) =>
    /\ clicks[i].answer > 0
    /\ clicks[i].answer # lastNonce /\ clicks[i].answer # stashedSig
    /\ \A j \in DOMAIN clicks : /\ clicks[j].nonce # clicks[i].answer
                                /\ j # i /\ Coming(j) => clicks[j].answer # clicks[i].answer

(* A stale replay has a stash to replay, and once its own challenge is     *)
(* there, the nonce shown is not the stashed one.                          *)
StaleHasMovedOn ==
  \A i \in DOMAIN clicks : clicks[i].button = "staleReplay" =>
    /\ stashedSig # 0
    /\ clicks[i].stage = "resumed" => lastNonce # stashedSig

NInv == ComingIsNew /\ StaleHasMovedOn /\ StaleIsUnderAnotherNonce

\* As long as nothing has failed or overtaken, one /sign at a time is under way.
SignsInTurn ==
  failures = 0 /\ ~together =>
    \A i, j \in DOMAIN clicks :
      clicks[i].url = "sign" /\ clicks[j].url = "sign" /\ i < j => ~UnderWay(clicks[i])

\* The last /sign, once answered, is what is shown.
LastIsShown ==
  failures = 0 /\ ~together =>
    \A i \in DOMAIN clicks :
      clicks[i].url = "sign" /\ ~UnderWay(clicks[i])
        /\ (\A j \in DOMAIN clicks : clicks[j].url = "sign" => j <= i)
        => lastSig = clicks[i].nonce

JInv == SignsInTurn /\ LastIsShown

USE DemoBounds
-----------------------------------------------------------------------------
\* What a step does to the clicks: one of them changes, or one is added.

Changes(i, c) == /\ DOMAIN clicks' = DOMAIN clicks /\ Len(clicks') = Len(clicks)
                 /\ clicks' \in Seq(Click)
                 /\ clicks'[i] = c
                 /\ \A j \in DOMAIN clicks : j # i => clicks'[j] = clicks[j]

\* c is d but for its stage, answer, pairs and verdict.
Same(c, d) == /\ c.button = d.button /\ c.url = d.url
              /\ c.nonce = d.nonce /\ c.sig = d.sig

LEMMA Changed ==
  ASSUME clicks \in Seq(Click), NEW i \in DOMAIN clicks, NEW c \in Click,
         clicks' = [clicks EXCEPT ![i] = c]
  PROVE  Changes(i, c)
BY DEF Changes

LEMMA SetStage ==
  ASSUME clicks \in Seq(Click), NEW i \in DOMAIN clicks, NEW s \in Stages,
         clicks' = [clicks EXCEPT ![i].stage = s]
  PROVE  \E c \in Click : /\ Changes(i, c) /\ Same(c, clicks[i]) /\ c.stage = s
                          /\ c.answer = clicks[i].answer /\ c.pairs = clicks[i].pairs
<1> DEFINE c == [clicks[i] EXCEPT !.stage = s]
<1>1. clicks[i] \in Click
  OBVIOUS
<1>2. /\ c \in Click /\ Same(c, clicks[i]) /\ c.stage = s
      /\ c.answer = clicks[i].answer /\ c.pairs = clicks[i].pairs
  BY <1>1 DEF Click, Same
<1>3. clicks' = [clicks EXCEPT ![i] = c]
  OBVIOUS
<1> HIDE DEF c
<1> QED BY <1>2, <1>3, Changed

LEMMA SetAnswer ==
  ASSUME clicks \in Seq(Click), NEW i \in DOMAIN clicks, NEW a \in 0 .. MaxClicks,
         Answer(i, a)
  PROVE  \E c \in Click : /\ Changes(i, c) /\ Same(c, clicks[i]) /\ c.stage = "answered"
                          /\ c.answer = a /\ c.pairs = clicks[i].pairs
<1> DEFINE c == [clicks[i] EXCEPT !.stage = "answered", !.answer = a]
<1>1. clicks[i] \in Click
  OBVIOUS
<1>2. /\ c \in Click /\ Same(c, clicks[i]) /\ c.stage = "answered"
      /\ c.answer = a /\ c.pairs = clicks[i].pairs
  BY <1>1 DEF Click, Same, Stages
<1>3. clicks' = [clicks EXCEPT ![i] = c]
  BY DEF Answer
<1> HIDE DEF c
<1> QED BY <1>2, <1>3, Changed

LEMMA EndPair ==
  ASSUME clicks \in Seq(Click), NEW i \in DOMAIN clicks, clicks[i].pairs > 0,
         clicks' = [clicks EXCEPT ![i].stage = "reading", ![i].pairs = @ - 1]
  PROVE  \E c \in Click : /\ Changes(i, c) /\ Same(c, clicks[i]) /\ c.stage = "reading"
                          /\ c.answer = clicks[i].answer /\ c.pairs = clicks[i].pairs - 1
<1> DEFINE c == [clicks[i] EXCEPT !.stage = "reading", !.pairs = @ - 1]
<1>1. clicks[i] \in Click
  OBVIOUS
<1>2. clicks[i].pairs - 1 \in 0 .. 2
  BY <1>1 DEF Click
<1>3. /\ c \in Click /\ Same(c, clicks[i]) /\ c.stage = "reading"
      /\ c.answer = clicks[i].answer /\ c.pairs = clicks[i].pairs - 1
  BY <1>1, <1>2 DEF Click, Same, Stages
<1>4. clicks' = [clicks EXCEPT ![i] = c]
  OBVIOUS
<1> HIDE DEF c
<1> QED BY <1>3, <1>4, Changed

LEMMA SetVerdict ==
  ASSUME clicks \in Seq(Click), NEW i \in DOMAIN clicks, NEW a \in BOOLEAN,
         clicks' = [clicks EXCEPT ![i].stage = "answered", ![i].accept = a]
  PROVE  \E c \in Click : /\ Changes(i, c) /\ Same(c, clicks[i]) /\ c.stage = "answered"
                          /\ c.answer = clicks[i].answer /\ c.pairs = clicks[i].pairs
<1> DEFINE c == [clicks[i] EXCEPT !.stage = "answered", !.accept = a]
<1>1. clicks[i] \in Click
  OBVIOUS
<1>2. c \in Click
  BY <1>1 DEF Click, Stages
<1>3. /\ Same(c, clicks[i]) /\ c.stage = "answered"
      /\ c.answer = clicks[i].answer /\ c.pairs = clicks[i].pairs
  BY <1>1 DEF Click, Same
<1>4. clicks' = [clicks EXCEPT ![i] = c]
  OBVIOUS
<1> HIDE DEF c
<1> QED BY <1>2, <1>3, <1>4, Changed

LEMMA Asked ==
  ASSUME NEW b \in Buttons, NEW url \in {"challenge", "sign", "verify"},
         NEW n \in 0 .. MaxClicks, NEW s \in 0 .. MaxClicks
  PROVE  /\ Request(b, url, n, s) \in Click
         /\ Request(b, url, n, s).button = b /\ Request(b, url, n, s).url = url
         /\ Request(b, url, n, s).nonce = n /\ Request(b, url, n, s).sig = s
         /\ Request(b, url, n, s).stage = "asked" /\ Request(b, url, n, s).answer = 0
BY DEF Request, Click, Stages

Adds(c) == /\ DOMAIN clicks' = DOMAIN clicks \cup {Len(clicks) + 1}
           /\ Len(clicks) + 1 \notin DOMAIN clicks
           /\ Len(clicks') = Len(clicks) + 1
           /\ clicks' \in Seq(Click)
           /\ clicks'[Len(clicks) + 1] = c
           /\ \A j \in DOMAIN clicks : clicks'[j] = clicks[j]

\* The request a button starts with.
Starts(b, c) == /\ c.button = b /\ c.stage = "asked" /\ c.answer = 0
                /\ \/ b = "issueChallenge" /\ c.url = "challenge" /\ c.nonce = 0
                   \/ b = "signNonce" /\ c.url = "sign" /\ c.nonce = lastNonce /\ lastNonce # 0
                   \/ b = "verifySig" /\ c.url = "verify" /\ c.nonce = lastNonce
                   \/ b = "staleReplay" /\ c.url = "challenge" /\ c.nonce = 0 /\ stashedSig # 0

LEMMA Pressed ==
  ASSUME TypeOK, NEW b \in Buttons, Press(b)
  PROVE  \E c \in Click : Adds(c) /\ Starts(b, c)
<1>1. clicks \in Seq(Click) /\ 0 \in 0 .. MaxClicks
      /\ lastNonce \in 0 .. MaxClicks /\ lastSig \in 0 .. MaxClicks
  BY DEF TypeOK
<1>2. \E c \in Click : clicks' = Append(clicks, c) /\ Starts(b, c)
  BY <1>1, Asked DEF Press, StaleRequest, Starts, Buttons
<1>3. PICK c \in Click : clicks' = Append(clicks, c) /\ Starts(b, c)
  BY <1>2
<1>4. Adds(c)
  BY <1>1, <1>3 DEF Adds
<1> QED BY <1>3, <1>4

-----------------------------------------------------------------------------
\* The types and the affinity.

Drawers == {i \in DOMAIN clicks : Drew(i)}

LEMMA DrawersAreClicks ==
  ASSUME clicks \in Seq(Click), NEW S \in SUBSET (DOMAIN clicks)
  PROVE  IsFiniteSet(S) /\ Cardinality(S) \in Nat /\ Cardinality(S) <= Len(clicks)
<1>1. DOMAIN clicks = 1 .. Len(clicks) /\ Len(clicks) \in Nat
  OBVIOUS
<1>2. IsFiniteSet(DOMAIN clicks) /\ Cardinality(DOMAIN clicks) = Len(clicks)
  <2>1. IsFiniteSet(1 .. Len(clicks))
    BY <1>1, FS_Interval
  <2>2. Cardinality(1 .. Len(clicks)) = IF 1 > Len(clicks) THEN 0 ELSE Len(clicks) - 1 + 1
    BY <1>1, FS_Interval
  <2>3. Cardinality(1 .. Len(clicks)) = Len(clicks)
    BY <1>1, <2>2
  <2> QED BY <1>1, <2>1, <2>3
<1> QED BY <1>1, <1>2, FS_Subset, FS_CardinalityType

\* What the server and a failure do to a click, but for the answers.
Quietly(i, c) ==
  /\ Changes(i, c) /\ Same(c, clicks[i]) /\ c.answer = clicks[i].answer
  /\ c.stage \notin {"asked", "resumed"} /\ clicks[i].stage # "resumed"
  /\ c.stage = "answered" => c.url = "verify"
  /\ c.stage = "pinned" => c.url = "sign" /\ c.pairs > 0
  /\ c.stage = "done" => failures' > 0
  /\ clicks[i].stage = "done" => c.stage = "done"
  /\ \/ c.stage = "pinned" /\ affinity' \in {affinity, "one"}
     \/ affinity' = "all"
     \/ clicks[i].stage # "pinned" /\ affinity' = affinity
  /\ UNCHANGED <<page, issued, together>>
  /\ failures' \in 0 .. MaxFailures /\ failures' >= failures

LEMMA Quiet ==
  ASSUME TypeOK, PairsLeft, NEW i \in DOMAIN clicks,
         Sign(i) \/ Pin(i) \/ Restore(i) \/ Verify(i) \/ Fail(i)
  PROVE  \E c \in Click : Quietly(i, c)
<1>1. clicks \in Seq(Click) /\ failures \in 0 .. MaxFailures
  BY DEF TypeOK
<1>2. CASE Sign(i)
  <2>1. PICK c \in Click : /\ Changes(i, c) /\ Same(c, clicks[i]) /\ c.stage = "reading"
                           /\ c.answer = clicks[i].answer
    BY <1>1, <1>2, SetStage DEF Sign, Stages
  <2> QED BY <1>1, <1>2, <2>1 DEF Quietly, Sign, Step, server, history
<1>3. CASE Pin(i)
  <2>1. PICK c \in Click : /\ Changes(i, c) /\ Same(c, clicks[i]) /\ c.stage = "pinned"
                           /\ c.answer = clicks[i].answer /\ c.pairs = clicks[i].pairs
    BY <1>1, <1>3, SetStage DEF Pin, Stages
  <2>2. clicks[i].url = "sign" /\ clicks[i].pairs > 0 /\ clicks[i].stage \in {"reading", "pinned"}
    BY <1>3 DEF Pin, Step, PairsLeft
  <2>3. c.url = "sign" /\ c.pairs > 0
    BY <2>1, <2>2 DEF Same
  <2>4. affinity' \in {affinity, "one"} /\ UNCHANGED <<page, issued, together, failures>>
    BY <1>3 DEF Pin, history
  <2>5. failures' \in 0 .. MaxFailures /\ failures' >= failures
    BY <1>1, <2>4
  <2>6. c.stage \notin {"asked", "resumed", "answered", "done"} /\ clicks[i].stage \notin {"resumed", "done"}
    BY <2>1, <2>2
  <2> QED BY <2>1, <2>3, <2>4, <2>5, <2>6 DEF Quietly
<1>4. CASE Restore(i)
  <2>1. clicks[i].pairs > 0 /\ clicks[i].stage = "pinned"
    BY <1>4 DEF Restore, Step, PairsLeft
  <2>2. PICK c \in Click : /\ Changes(i, c) /\ Same(c, clicks[i]) /\ c.stage = "reading"
                           /\ c.answer = clicks[i].answer
    BY <1>1, <1>4, <2>1, EndPair DEF Restore
  <2> QED BY <1>1, <1>4, <2>1, <2>2 DEF Quietly, Restore, history
<1>5. CASE Verify(i)
  <2>1. PICK c \in Click : /\ Changes(i, c) /\ Same(c, clicks[i]) /\ c.stage = "answered"
                           /\ c.answer = clicks[i].answer
    BY <1>1, <1>5, SetVerdict DEF Verify
  <2>2. /\ clicks[i].stage = "asked" /\ clicks[i].url = "verify"
        /\ UNCHANGED <<page, server, history>>
    BY <1>5 DEF Verify, Step
  <2> QED BY <1>1, <2>1, <2>2 DEF Quietly, Same, server, history
<1>6. CASE Fail(i)
  <2>1. PICK c \in Click : /\ Changes(i, c) /\ Same(c, clicks[i]) /\ c.stage = "done"
                           /\ c.answer = clicks[i].answer
    BY <1>1, <1>6, SetStage DEF Fail, Stages
  <2>2. failures' \in 0 .. MaxFailures /\ failures' > failures
    BY <1>1, <1>6 DEF Fail
  <2> QED BY <1>1, <1>6, <2>1, <2>2 DEF Quietly, Fail, server
<1> QED BY <1>2, <1>3, <1>4, <1>5, <1>6

LEMMA NonceIsLeft ==
  ASSUME TypeOK, Counted, NEW i \in DOMAIN clicks,
         clicks[i].url = "challenge", clicks[i].stage = "asked"
  PROVE  /\ issued + 1 \in 1 .. MaxClicks
         /\ \A S \in SUBSET (DOMAIN clicks) : Drawers \cup {i} \subseteq S => issued + 1 <= Cardinality(S)
<1>1. clicks \in Seq(Click) /\ issued \in Nat /\ Len(clicks) \in Nat
  BY DEF TypeOK
<1>2. Drawers \in SUBSET (DOMAIN clicks) /\ i \notin Drawers
  BY DEF Drawers, Drew
<1>3. IsFiniteSet(Drawers) /\ Cardinality(Drawers) \in Nat
  BY <1>1, <1>2, DrawersAreClicks
<1>4. Cardinality(Drawers \cup {i}) = Cardinality(Drawers) + 1
  BY <1>2, <1>3, FS_AddElement
<1>5. ASSUME NEW S \in SUBSET (DOMAIN clicks), Drawers \cup {i} \subseteq S
      PROVE  issued + 1 <= Cardinality(S)
  <2>1. IsFiniteSet(S) /\ Cardinality(S) \in Nat
    BY <1>1, DrawersAreClicks
  <2>2. Cardinality(Drawers \cup {i}) <= Cardinality(S)
    BY <1>5, <2>1, FS_Subset
  <2>3. issued <= Cardinality(Drawers)
    BY DEF Counted, Drawers
  <2> QED BY <1>1, <1>3, <1>4, <2>1, <2>2, <2>3
<1>6. issued + 1 <= Cardinality(DOMAIN clicks) /\ Cardinality(DOMAIN clicks) <= Len(clicks)
      /\ Cardinality(DOMAIN clicks) \in Nat
  BY <1>1, <1>2, <1>5, DrawersAreClicks
<1>7. Len(clicks) <= MaxClicks
  BY DEF Counted
<1> QED BY <1>1, <1>5, <1>6, <1>7

\* The other steps, each with what it leaves of the click.
Pressing(b, c) ==
  /\ Len(clicks) < MaxClicks /\ Adds(c) /\ Starts(b, c)
  /\ together' \in BOOLEAN
  /\ ~together' => /\ ~together
                   /\ b = "signNonce" => \A j \in DOMAIN clicks : clicks[j].url = "sign" => ~UnderWay(clicks[j])
  /\ UNCHANGED <<page, server, failures>>

Drawn(i, c) ==
  /\ Changes(i, c) /\ Same(c, clicks[i])
  /\ c.url = "challenge" /\ clicks[i].stage = "asked"
  /\ c.stage = "answered" /\ c.answer = issued'
  /\ issued' = issued + 1
  /\ UNCHANGED <<page, affinity, history>>

SignedAs(i, c) ==
  /\ Changes(i, c) /\ Same(c, clicks[i])
  /\ c.url = "sign" /\ clicks[i].stage = "reading"
  /\ c.stage = "answered" /\ c.answer = c.nonce
  /\ UNCHANGED <<page, server, history>>

Received(i, c) ==
  /\ Changes(i, c) /\ Same(c, clicks[i]) /\ c.answer = clicks[i].answer
  /\ clicks[i].stage = "answered"
  /\ \/ c.stage = "resumed" /\ c.button = "staleReplay" /\ c.url = "challenge"
     \/ c.stage = "done"
  /\ lastNonce' = IF c.url = "challenge" THEN c.answer ELSE lastNonce
  /\ lastSig' = IF c.url = "sign" THEN c.answer ELSE lastSig
  /\ stashedSig' = IF c.url = "sign" /\ stashedSig = 0 THEN c.answer ELSE stashedSig
  /\ UNCHANGED <<server, history>>

Resumed(i, c) ==
  /\ Changes(i, c)
  /\ clicks[i].stage = "resumed"
  /\ c.button = "staleReplay" /\ c.url = "verify" /\ c.stage = "asked"
  /\ c.answer = 0 /\ c.nonce = lastNonce /\ c.sig = stashedSig
  /\ UNCHANGED <<page, server, history>>

\* Every step is one of these.
LEMMA Steps ==
  ASSUME TInv, Next
  PROVE  \/ \E b \in Buttons, c \in Click : Pressing(b, c)
         \/ \E i \in DOMAIN clicks, c \in Click :
              Quietly(i, c) \/ Drawn(i, c) \/ SignedAs(i, c) \/ Received(i, c) \/ Resumed(i, c)
<1>1. TypeOK /\ Counted /\ PairsLeft /\ clicks \in Seq(Click) /\ issued \in Nat /\ 0 \in 0 .. MaxClicks
  BY DEF TInv, TypeOK
<1>2. CASE \E b \in Buttons : Press(b)
  <2>1. PICK b \in Buttons : Press(b)
    BY <1>2
  <2>2. PICK c \in Click : Adds(c) /\ Starts(b, c)
    BY <1>1, <2>1, Pressed
  <2>3. Len(clicks) < MaxClicks /\ UNCHANGED <<page, server, failures>>
    BY <2>1 DEF Press
  <2>4. together' \in BOOLEAN
    BY <2>1 DEF Press
  <2>5. ASSUME ~together'
        PROVE  /\ ~together
               /\ b = "signNonce" => \A j \in DOMAIN clicks : clicks[j].url = "sign" => ~UnderWay(clicks[j])
    BY <2>1, <2>5 DEF Press
  <2> QED BY <2>2, <2>3, <2>4, <2>5 DEF Pressing
<1>3. CASE \E i \in DOMAIN clicks : Sign(i) \/ Pin(i) \/ Restore(i) \/ Verify(i) \/ Fail(i)
  BY <1>1, <1>3, Quiet
<1>4. CASE \E i \in DOMAIN clicks : Challenge(i)
  <2>1. PICK i \in DOMAIN clicks : Challenge(i)
    BY <1>4
  <2>2. issued + 1 \in 1 .. MaxClicks
    BY <1>1, <2>1, NonceIsLeft DEF Challenge, Step
  <2>3. issued + 1 \in 0 .. MaxClicks
    BY <2>2
  <2>4. PICK c \in Click : /\ Changes(i, c) /\ Same(c, clicks[i]) /\ c.stage = "answered"
                           /\ c.answer = issued + 1
    BY <1>1, <2>1, <2>3, SetAnswer DEF Challenge
  <2> QED BY <2>1, <2>4 DEF Challenge, Step, Drawn, Same
<1>5. CASE \E i \in DOMAIN clicks : Signed(i)
  <2>1. PICK i \in DOMAIN clicks : Signed(i)
    BY <1>5
  <2>2. clicks[i].nonce \in 0 .. MaxClicks
    <3>1. clicks[i] \in Click
      BY <1>1
    <3> QED BY <3>1 DEF Click
  <2>3. PICK c \in Click : /\ Changes(i, c) /\ Same(c, clicks[i]) /\ c.stage = "answered"
                           /\ c.answer = clicks[i].nonce
    BY <1>1, <2>1, <2>2, SetAnswer DEF Signed
  <2> QED BY <2>1, <2>3 DEF Signed, Step, SignedAs, Same
<1>6. CASE \E i \in DOMAIN clicks : Receive(i)
  <2>1. PICK i \in DOMAIN clicks : Receive(i)
    BY <1>6
  <2> DEFINE s == IF clicks[i].button = "staleReplay" /\ clicks[i].url = "challenge"
                  THEN "resumed" ELSE "done"
  <2>2. s \in Stages
    BY DEF Stages
  <2>3. clicks' = [clicks EXCEPT ![i].stage = s]
    BY <2>1 DEF Receive
  <2>4. \/ s = "resumed" /\ clicks[i].button = "staleReplay" /\ clicks[i].url = "challenge"
        \/ s = "done"
    OBVIOUS
  <2> HIDE DEF s
  <2>5. PICK c \in Click : /\ Changes(i, c) /\ Same(c, clicks[i]) /\ c.stage = s
                           /\ c.answer = clicks[i].answer
    BY <1>1, <2>2, <2>3, SetStage
  <2>6. /\ clicks[i].stage = "answered"
        /\ lastNonce' = IF clicks[i].url = "challenge" THEN clicks[i].answer ELSE lastNonce
        /\ lastSig' = IF clicks[i].url = "sign" THEN clicks[i].answer ELSE lastSig
        /\ stashedSig' = IF clicks[i].url = "sign" /\ stashedSig = 0 THEN clicks[i].answer ELSE stashedSig
        /\ UNCHANGED <<server, history>>
    BY <2>1 DEF Receive
  <2>7. Received(i, c)
    BY <2>4, <2>5, <2>6 DEF Received, Same
  <2> QED BY <2>7
<1>7. CASE \E i \in DOMAIN clicks : Resume(i)
  <2>1. PICK i \in DOMAIN clicks : Resume(i)
    BY <1>7
  <2> DEFINE c == Request("staleReplay", "verify", lastNonce, stashedSig)
  <2>2. lastNonce \in 0 .. MaxClicks /\ stashedSig \in 0 .. MaxClicks
    BY <1>1 DEF TypeOK
  <2>3. /\ c \in Click /\ c.button = "staleReplay" /\ c.url = "verify" /\ c.stage = "asked"
        /\ c.nonce = lastNonce /\ c.sig = stashedSig /\ c.answer = 0
    BY <2>2, Asked DEF Buttons
  <2>4. clicks' = [clicks EXCEPT ![i] = c]
    BY <2>1 DEF Resume
  <2> HIDE DEF c
  <2>5. Changes(i, c)
    BY <1>1, <2>3, <2>4, Changed
  <2>6. Resumed(i, c)
    BY <2>1, <2>3, <2>5 DEF Resume, Resumed
  <2> QED BY <2>3, <2>6
<1> QED BY <1>2, <1>3, <1>4, <1>5, <1>6, <1>7 DEF Next, Serve

LEMMA NoClicks ==
  ASSUME Init
  PROVE  DOMAIN clicks = {} /\ Len(clicks) = 0 /\ clicks \in Seq(Click)
BY DEF Init

LEMMA TInit == Init => TInv
<1> SUFFICES ASSUME Init PROVE TInv
  OBVIOUS
<1>1. TypeOK
  <2>1. together \in BOOLEAN
    BY Zenon DEF Init
  <2> QED BY <2>1, NoClicks DEF Init, TypeOK
<1>2. AffinityRestored
  BY DEF Init, AffinityRestored
<1>3. {i \in DOMAIN clicks : Drew(i)} = {}
  BY NoClicks
<1>4. Counted
  BY <1>3, NoClicks, FS_EmptySet DEF Counted, Init
<1> QED BY <1>1, <1>2, <1>4, NoClicks DEF TInv, DrawnBefore, PairsLeft

\* A click that changes has drawn at least what it had.
LEMMA CountedKept ==
  ASSUME clicks \in Seq(Click), clicks' \in Seq(Click), Counted, issued \in Nat, issued' = issued,
         Len(clicks') <= MaxClicks,
         \A j \in Drawers : j \in DOMAIN clicks' /\ Drew(j)'
  PROVE  Counted'
<1>1. Drawers \subseteq Drawers'
  BY DEF Drawers
<1>2. IsFiniteSet(Drawers') /\ Cardinality(Drawers') \in Nat
  <2>1. Drawers' \in SUBSET (DOMAIN clicks')
    BY DEF Drawers
  <2>2. DOMAIN clicks' = 1 .. Len(clicks') /\ Len(clicks') \in Nat
    OBVIOUS
  <2>3. IsFiniteSet(DOMAIN clicks')
    BY <2>2, FS_Interval
  <2> QED BY <2>1, <2>3, FS_Subset, FS_CardinalityType
<1>3. IsFiniteSet(Drawers) /\ Cardinality(Drawers) \in Nat /\ Cardinality(Drawers) <= Cardinality(Drawers')
  BY <1>1, <1>2, FS_Subset, FS_CardinalityType
<1>4. issued <= Cardinality(Drawers)
  BY DEF Counted, Drawers
<1>5. issued' <= Cardinality(Drawers')
  BY <1>2, <1>3, <1>4
<1> QED BY <1>5 DEF Counted, Drawers

LEMMA TNext == TInv /\ [Next]_vars => TInv'
<1> SUFFICES ASSUME TInv, [Next]_vars
             PROVE  TInv'
  OBVIOUS
<1>1. /\ TypeOK /\ Counted /\ DrawnBefore /\ PairsLeft /\ AffinityRestored
      /\ clicks \in Seq(Click) /\ issued \in Nat /\ Len(clicks) \in Nat
      /\ lastNonce \in 0 .. issued /\ lastSig \in 0 .. issued /\ stashedSig \in 0 .. issued
  BY DEF TInv, TypeOK
<1>2. ASSUME NEW b \in Buttons, NEW c \in Click, Pressing(b, c)
      PROVE  TInv'
  <2>1. TypeOK'
    BY <1>1, <1>2 DEF TypeOK, Pressing, Adds, page, server
  <2>2. Counted'
    <3>1. \A j \in Drawers : j \in DOMAIN clicks' /\ Drew(j)'
      BY <1>1, <1>2 DEF Drawers, Drew, Pressing, Adds
    <3>2. clicks' \in Seq(Click) /\ issued' = issued /\ Len(clicks') <= MaxClicks
      BY <1>1, <1>2 DEF Pressing, Adds, server
    <3> QED BY <1>1, <3>1, <3>2, CountedKept
  <2>3. DrawnBefore'
    BY <1>1, <1>2 DEF DrawnBefore, Pressing, Adds, Starts, page, server
  <2>4. PairsLeft'
    BY <1>1, <1>2 DEF PairsLeft, Pressing, Adds, Starts
  <2>5. AffinityRestored'
    BY <1>1, <1>2 DEF AffinityRestored, Pressing, Adds, Starts, server
  <2> QED BY <2>1, <2>2, <2>3, <2>4, <2>5 DEF TInv
<1>3. ASSUME NEW i \in DOMAIN clicks, NEW c \in Click, Quietly(i, c)
      PROVE  TInv'
  <2>1. TypeOK'
    BY <1>1, <1>3 DEF TypeOK, Quietly, Changes, page
  <2>2. Counted'
    <3>1. \A j \in Drawers : j \in DOMAIN clicks' /\ Drew(j)'
      BY <1>3 DEF Drawers, Drew, Quietly, Changes, Same
    <3>2. clicks' \in Seq(Click) /\ issued' = issued /\ Len(clicks') <= MaxClicks
      BY <1>1, <1>3 DEF Quietly, Changes, Counted
    <3> QED BY <1>1, <3>1, <3>2, CountedKept
  <2>3. DrawnBefore'
    BY <1>1, <1>3 DEF DrawnBefore, Quietly, Changes, Same
  <2>4. PairsLeft'
    BY <1>1, <1>3 DEF PairsLeft, Quietly, Changes
  <2>5. AffinityRestored'
    BY <1>1, <1>3 DEF AffinityRestored, Quietly, Changes
  <2> QED BY <2>1, <2>2, <2>3, <2>4, <2>5 DEF TInv
<1>4. ASSUME NEW i \in DOMAIN clicks, NEW c \in Click, Drawn(i, c)
      PROVE  TInv'
  <2>1. TypeOK'
    <3>1. clicks[i].url = "challenge" /\ clicks[i].stage = "asked"
      BY <1>4 DEF Drawn, Same
    <3>2. issued + 1 \in 0 .. MaxClicks
      BY <1>1, <3>1, NonceIsLeft
    <3> QED BY <1>1, <1>4, <3>2 DEF TypeOK, Drawn, Changes, page, history
  <2>2. Counted'
    <3>1. clicks[i].url = "challenge" /\ clicks[i].stage = "asked"
      BY <1>4 DEF Drawn, Same
    <3>2. Drawers \cup {i} \subseteq Drawers' /\ Drawers' \in SUBSET (DOMAIN clicks)
      BY <1>4 DEF Drawers, Drew, Drawn, Changes, Same
    <3>3. issued + 1 <= Cardinality(Drawers')
      BY <1>1, <3>1, <3>2, NonceIsLeft
    <3> QED BY <1>1, <1>4, <3>3 DEF Counted, Drawers, Drawn, Changes
  <2>3. DrawnBefore'
    <3>1. issued' = issued + 1 /\ DOMAIN clicks' = DOMAIN clicks
      BY <1>4 DEF Drawn, Changes
    <3>2. \A j \in DOMAIN clicks : clicks[j].nonce \in Nat /\ clicks[j].answer \in Nat
      <4>1. \A j \in DOMAIN clicks : clicks[j] \in Click
        BY <1>1
      <4> QED BY <4>1 DEF Click
    <3>3. ASSUME NEW j \in DOMAIN clicks
          PROVE  /\ clicks'[j].nonce <= issued' /\ clicks'[j].answer <= issued'
                 /\ clicks'[j].url = "sign" =>
                      /\ clicks'[j].button = "signNonce" /\ clicks'[j].nonce > 0
                      /\ clicks'[j].stage = "answered" => clicks'[j].answer = clicks'[j].nonce
                 /\ clicks'[j].stage = "resumed" =>
                      clicks'[j].url = "challenge" /\ clicks'[j].button = "staleReplay"
      <4>1. CASE j = i
        BY <1>1, <1>4, <3>1, <3>2, <4>1 DEF DrawnBefore, Drawn, Changes, Same
      <4>2. CASE j # i
        BY <1>1, <1>4, <3>1, <3>2, <4>2 DEF DrawnBefore, Drawn, Changes
      <4> QED BY <4>1, <4>2
    <3> QED BY <3>1, <3>3 DEF DrawnBefore
  <2>4. PairsLeft'
    BY <1>1, <1>4 DEF PairsLeft, Drawn, Changes
  <2>5. AffinityRestored'
    BY <1>1, <1>4 DEF AffinityRestored, Drawn, Changes
  <2> QED BY <2>1, <2>2, <2>3, <2>4, <2>5 DEF TInv
<1>5. ASSUME NEW i \in DOMAIN clicks, NEW c \in Click, SignedAs(i, c)
      PROVE  TInv'
  <2>1. TypeOK'
    BY <1>1, <1>5 DEF TypeOK, SignedAs, Changes, page, server, history
  <2>2. Counted'
    <3>1. \A j \in Drawers : j \in DOMAIN clicks' /\ Drew(j)'
      BY <1>5 DEF Drawers, Drew, SignedAs, Changes, Same
    <3>2. clicks' \in Seq(Click) /\ issued' = issued /\ Len(clicks') <= MaxClicks
      BY <1>1, <1>5 DEF SignedAs, Changes, Counted, server
    <3> QED BY <1>1, <3>1, <3>2, CountedKept
  <2>3. DrawnBefore'
    <3>1. c.nonce <= issued /\ c.button = "signNonce" /\ c.nonce > 0
      BY <1>1, <1>5 DEF DrawnBefore, SignedAs, Same
    <3> QED BY <1>1, <1>5, <3>1 DEF DrawnBefore, SignedAs, Changes, server
  <2>4. PairsLeft'
    BY <1>1, <1>5 DEF PairsLeft, SignedAs, Changes
  <2>5. AffinityRestored'
    BY <1>1, <1>5 DEF AffinityRestored, SignedAs, Changes, server
  <2> QED BY <2>1, <2>2, <2>3, <2>4, <2>5 DEF TInv
<1>6. ASSUME NEW i \in DOMAIN clicks, NEW c \in Click, Received(i, c)
      PROVE  TInv'
  <2>1. TypeOK'
    <3>1. c.answer \in 0 .. issued
      BY <1>1, <1>6 DEF DrawnBefore, Received, Click
    <3> QED BY <1>1, <1>6, <3>1 DEF TypeOK, Received, Changes, server, history
  <2>2. Counted'
    <3>1. \A j \in Drawers : j \in DOMAIN clicks' /\ Drew(j)'
      BY <1>6 DEF Drawers, Drew, Received, Changes, Same
    <3>2. clicks' \in Seq(Click) /\ issued' = issued /\ Len(clicks') <= MaxClicks
      BY <1>1, <1>6 DEF Received, Changes, Counted, server
    <3> QED BY <1>1, <3>1, <3>2, CountedKept
  <2>3. DrawnBefore'
    BY <1>1, <1>6 DEF DrawnBefore, Received, Changes, Same, server
  <2>4. PairsLeft'
    BY <1>1, <1>6 DEF PairsLeft, Received, Changes
  <2>5. AffinityRestored'
    BY <1>1, <1>6 DEF AffinityRestored, Received, Changes, server
  <2> QED BY <2>1, <2>2, <2>3, <2>4, <2>5 DEF TInv
<1>7. ASSUME NEW i \in DOMAIN clicks, NEW c \in Click, Resumed(i, c)
      PROVE  TInv'
  <2>1. TypeOK'
    BY <1>1, <1>7 DEF TypeOK, Resumed, Changes, page, server, history
  <2>2. Counted'
    <3>1. \A j \in Drawers : j \in DOMAIN clicks' /\ Drew(j)'
      BY <1>1, <1>7 DEF Drawers, Drew, Resumed, Changes, DrawnBefore
    <3>2. clicks' \in Seq(Click) /\ issued' = issued /\ Len(clicks') <= MaxClicks
      BY <1>1, <1>7 DEF Resumed, Changes, Counted, server
    <3> QED BY <1>1, <3>1, <3>2, CountedKept
  <2>3. DrawnBefore'
    BY <1>1, <1>7 DEF DrawnBefore, Resumed, Changes, page, server
  <2>4. PairsLeft'
    BY <1>1, <1>7 DEF PairsLeft, Resumed, Changes
  <2>5. AffinityRestored'
    BY <1>1, <1>7 DEF AffinityRestored, Resumed, Changes, server
  <2> QED BY <2>1, <2>2, <2>3, <2>4, <2>5 DEF TInv
<1>8. CASE UNCHANGED vars
  BY <1>1, <1>8 DEF TInv, TypeOK, Counted, Drew, DrawnBefore, PairsLeft, AffinityRestored, vars
<1> QED BY <1>2, <1>3, <1>4, <1>5, <1>6, <1>7, <1>8, Steps

\* The page's variables hold 0 or a nonce that was drawn, and so on (TypeOK).
THEOREM TypeCorrect == Spec => []TypeOK
<1>1. TInv => TypeOK
  BY DEF TInv
<1> QED BY <1>1, TInit, TNext, PTL DEF Spec

(* Unless a thread is inside _c2c_pingpong, the process may run on every   *)
(* CPU, whatever threads sign at once and whatever fails.                  *)
THEOREM AffinityIsRestored == Spec => []AffinityRestored
<1>1. TInv => AffinityRestored
  BY DEF TInv
<1> QED BY <1>1, TInit, TNext, PTL DEF Spec

-----------------------------------------------------------------------------
\* A stale replay presents the signature of another nonce.

LEMMA NInit == Init => NInv
BY NoClicks DEF Init, NInv, ComingIsNew, StaleHasMovedOn, StaleIsUnderAnotherNonce

LEMMA NNext == TInv /\ NInv /\ [Next]_vars => NInv'
<1> SUFFICES ASSUME TInv, NInv, [Next]_vars
             PROVE  NInv'
  OBVIOUS
<1>1. /\ DrawnBefore /\ ComingIsNew /\ StaleHasMovedOn /\ StaleIsUnderAnotherNonce
      /\ clicks \in Seq(Click) /\ issued \in Nat
      /\ lastNonce \in 0 .. issued /\ lastSig \in 0 .. issued /\ stashedSig \in 0 .. issued
  BY DEF TInv, NInv, TypeOK
<1>2. ASSUME NEW b \in Buttons, NEW c \in Click, Pressing(b, c)
      PROVE  NInv'
  <2>1. ComingIsNew'
    BY <1>1, <1>2 DEF ComingIsNew, Coming, Pressing, Adds, Starts, page
  <2>2. StaleHasMovedOn'
    BY <1>1, <1>2 DEF StaleHasMovedOn, Pressing, Adds, Starts, page
  <2>3. StaleIsUnderAnotherNonce'
    BY <1>1, <1>2 DEF StaleIsUnderAnotherNonce, Pressing, Adds, Starts
  <2> QED BY <2>1, <2>2, <2>3 DEF NInv
<1>3. ASSUME NEW i \in DOMAIN clicks, NEW c \in Click, Quietly(i, c)
      PROVE  NInv'
  <2>1. ComingIsNew'
    BY <1>1, <1>3 DEF ComingIsNew, Coming, Quietly, Changes, Same, page
  <2>2. StaleHasMovedOn'
    BY <1>1, <1>3 DEF StaleHasMovedOn, Quietly, Changes, Same, page
  <2>3. StaleIsUnderAnotherNonce'
    BY <1>1, <1>3 DEF StaleIsUnderAnotherNonce, Quietly, Changes, Same
  <2> QED BY <2>1, <2>2, <2>3 DEF NInv
<1>4. ASSUME NEW i \in DOMAIN clicks, NEW c \in Click, Drawn(i, c)
      PROVE  NInv'
  <2>1. ComingIsNew'
    <3>1. \A j \in DOMAIN clicks : clicks[j].nonce < c.answer /\ clicks[j].answer < c.answer
      <4>1. \A j \in DOMAIN clicks : clicks[j] \in Click
        BY <1>1
      <4>2. \A j \in DOMAIN clicks : clicks[j].nonce \in Nat /\ clicks[j].answer \in Nat
        BY <4>1 DEF Click
      <4>3. c.answer = issued + 1
        BY <1>4 DEF Drawn
      <4>4. \A j \in DOMAIN clicks : clicks[j].nonce <= issued /\ clicks[j].answer <= issued
        BY <1>1 DEF DrawnBefore
      <4> QED BY <1>1, <4>2, <4>3, <4>4
    <3>2. c.answer > 0 /\ c.answer # lastNonce /\ c.answer # stashedSig
      BY <1>1, <1>4 DEF Drawn
    <3>3. c.nonce < c.answer
      BY <1>4, <3>1 DEF Drawn, Same
    <3>4. \A j \in DOMAIN clicks : clicks[j].nonce # c.answer /\ clicks[j].answer # c.answer
      <4>1. \A j \in DOMAIN clicks : clicks[j] \in Click
        BY <1>1
      <4> QED BY <3>1, <4>1 DEF Click
    <3>5. c.nonce # c.answer
      BY <3>3 DEF Click
    <3> QED BY <1>1, <1>4, <3>2, <3>4, <3>5 DEF ComingIsNew, Coming, Drawn, Changes, Same, page
  <2>2. StaleHasMovedOn'
    BY <1>1, <1>4 DEF StaleHasMovedOn, Drawn, Changes, Same, page
  <2>3. StaleIsUnderAnotherNonce'
    BY <1>1, <1>4 DEF StaleIsUnderAnotherNonce, Drawn, Changes, Same
  <2> QED BY <2>1, <2>2, <2>3 DEF NInv
<1>5. ASSUME NEW i \in DOMAIN clicks, NEW c \in Click, SignedAs(i, c)
      PROVE  NInv'
  <2>1. ComingIsNew'
    BY <1>1, <1>5 DEF ComingIsNew, Coming, SignedAs, Changes, Same, page
  <2>2. StaleHasMovedOn'
    BY <1>1, <1>5 DEF StaleHasMovedOn, SignedAs, Changes, Same, page
  <2>3. StaleIsUnderAnotherNonce'
    BY <1>1, <1>5 DEF StaleIsUnderAnotherNonce, SignedAs, Changes, Same
  <2> QED BY <2>1, <2>2, <2>3 DEF NInv
<1>6. ASSUME NEW i \in DOMAIN clicks, NEW c \in Click, Received(i, c)
      PROVE  NInv'
  <2>1. c.url = "sign" => c.answer = clicks[i].nonce /\ c.answer # 0
    <3>1. clicks[i] \in Click
      BY <1>1
    <3>2. clicks[i].nonce \in Nat
      BY <3>1 DEF Click
    <3>3. c.answer = clicks[i].answer /\ c.url = clicks[i].url /\ clicks[i].stage = "answered"
      BY <1>6 DEF Received, Same
    <3>4. c.url = "sign" => clicks[i].nonce > 0 /\ clicks[i].answer = clicks[i].nonce
      BY <1>1, <3>3 DEF DrawnBefore
    <3> QED BY <3>2, <3>3, <3>4
  <2>2. c.url = "challenge" => /\ Coming(i) /\ c.answer # stashedSig
                               /\ \A j \in DOMAIN clicks : j # i /\ Coming(j) => clicks[j].answer # c.answer
    BY <1>1, <1>6 DEF ComingIsNew, Coming, Received, Same
  <2>3. \A j \in DOMAIN clicks : Coming(j)' => j # i /\ Coming(j) /\ clicks'[j].answer = clicks[j].answer
    BY <1>6 DEF Coming, Received, Changes
  <2>4. \A j \in DOMAIN clicks : clicks'[j].nonce = clicks[j].nonce
    BY <1>6 DEF Received, Changes, Same
  <2>5. ComingIsNew'
    <3>1. \A j \in DOMAIN clicks : j # i /\ Coming(j) =>
             clicks[j].answer # lastNonce' /\ clicks[j].answer # stashedSig'
      BY <1>1, <1>6, <2>1, <2>2 DEF ComingIsNew, Received
    <3> QED BY <1>1, <1>6, <2>3, <2>4, <3>1 DEF ComingIsNew, Received, Changes
  <2>6. StaleHasMovedOn'
    BY <1>1, <1>6, <2>1, <2>2 DEF StaleHasMovedOn, Received, Changes, Same
  <2>7. StaleIsUnderAnotherNonce'
    BY <1>1, <1>6 DEF StaleIsUnderAnotherNonce, Received, Changes, Same
  <2> QED BY <2>5, <2>6, <2>7 DEF NInv
<1>7. ASSUME NEW i \in DOMAIN clicks, NEW c \in Click, Resumed(i, c)
      PROVE  NInv'
  <2>1. clicks[i].button = "staleReplay" /\ stashedSig # 0 /\ lastNonce # stashedSig
    BY <1>1, <1>7 DEF DrawnBefore, StaleHasMovedOn, Resumed
  <2>2. ComingIsNew'
    BY <1>1, <1>7 DEF ComingIsNew, Coming, Resumed, Changes, page
  <2>3. StaleHasMovedOn'
    BY <1>1, <1>7, <2>1 DEF StaleHasMovedOn, Resumed, Changes, page
  <2>4. StaleIsUnderAnotherNonce'
    BY <1>1, <1>7, <2>1 DEF StaleIsUnderAnotherNonce, Resumed, Changes
  <2> QED BY <2>2, <2>3, <2>4 DEF NInv
<1>8. CASE UNCHANGED vars
  BY <1>1, <1>8 DEF NInv, ComingIsNew, Coming, StaleHasMovedOn, StaleIsUnderAnotherNonce, vars
<1> QED BY <1>2, <1>3, <1>4, <1>5, <1>6, <1>7, <1>8, Steps

(* The signature a stale replay presents was made under another nonce than *)
(* the one it is presented for, in every order of clicks and responses.    *)
THEOREM StaleReplaysAreStale == Spec => []StaleIsUnderAnotherNonce
<1>1. NInv => StaleIsUnderAnotherNonce
  BY DEF NInv
<1> QED BY <1>1, TInit, TNext, NInit, NNext, PTL DEF Spec

-----------------------------------------------------------------------------
\* The signature shown is the one asked for last.

LEMMA JInit == Init => JInv
BY NoClicks DEF Init, JInv, SignsInTurn, LastIsShown

LEMMA JNext == TInv /\ JInv /\ [Next]_vars => JInv'
<1> SUFFICES ASSUME TInv, JInv, [Next]_vars, failures' = 0, ~together'
             PROVE  JInv'
  BY DEF JInv, SignsInTurn, LastIsShown
<1>1. /\ DrawnBefore /\ SignsInTurn /\ LastIsShown
      /\ clicks \in Seq(Click) /\ failures \in Nat
  BY DEF TInv, JInv, TypeOK
<1>2. ASSUME NEW b \in Buttons, NEW c \in Click, Pressing(b, c)
      PROVE  JInv'
  <2>1. failures = 0 /\ ~together
    BY <1>2 DEF Pressing
  <2>2. /\ DOMAIN clicks' = DOMAIN clicks \cup {Len(clicks) + 1}
        /\ clicks'[Len(clicks) + 1] = c /\ \A j \in DOMAIN clicks : clicks'[j] = clicks[j]
        /\ \A j \in DOMAIN clicks : j < Len(clicks) + 1
        /\ Len(clicks) \in Nat /\ lastSig' = lastSig
    BY <1>1, <1>2 DEF Pressing, Adds, page
  <2>3. UnderWay(c)
    BY <1>2 DEF Pressing, Starts, UnderWay
  <2>4. c.url = "sign" => \A j \in DOMAIN clicks : clicks[j].url = "sign" => ~UnderWay(clicks[j])
    BY <1>2 DEF Pressing, Starts
  <2>5. SignsInTurn'
    BY <1>1, <2>1, <2>2, <2>4 DEF SignsInTurn, UnderWay
  <2>6. LastIsShown'
    BY <1>1, <2>1, <2>2, <2>3 DEF LastIsShown, UnderWay
  <2> QED BY <2>5, <2>6 DEF JInv
<1>3. ASSUME NEW i \in DOMAIN clicks, NEW c \in Click, Quietly(i, c)
      PROVE  JInv'
  <2>1. failures = 0 /\ ~together /\ c.stage # "done" /\ clicks[i].stage # "done"
    BY <1>1, <1>3 DEF Quietly
  <2>2. SignsInTurn'
    BY <1>1, <1>3, <2>1 DEF SignsInTurn, UnderWay, Quietly, Changes, Same
  <2>3. LastIsShown'
    BY <1>1, <1>3, <2>1 DEF LastIsShown, UnderWay, Quietly, Changes, Same, page
  <2> QED BY <2>2, <2>3 DEF JInv
<1>4. ASSUME NEW i \in DOMAIN clicks, NEW c \in Click,
             Drawn(i, c) \/ SignedAs(i, c) \/ Resumed(i, c)
      PROVE  JInv'
  <2>1. failures = 0 /\ ~together /\ lastSig' = lastSig
    BY <1>4 DEF Drawn, SignedAs, Resumed, page, history
  <2>2. /\ Changes(i, c) /\ UnderWay(clicks[i]) /\ UnderWay(c)
        /\ c.url = "sign" <=> clicks[i].url = "sign"
        /\ c.url = "sign" => c.nonce = clicks[i].nonce
    BY <1>1, <1>4 DEF Drawn, SignedAs, Resumed, Same, UnderWay, DrawnBefore
  <2>3. SignsInTurn'
    BY <1>1, <2>1, <2>2 DEF SignsInTurn, UnderWay, Changes
  <2>4. LastIsShown'
    BY <1>1, <2>1, <2>2 DEF LastIsShown, UnderWay, Changes
  <2> QED BY <2>3, <2>4 DEF JInv
<1>5. ASSUME NEW i \in DOMAIN clicks, NEW c \in Click, Received(i, c)
      PROVE  JInv'
  <2>1. failures = 0 /\ ~together /\ UnderWay(clicks[i])
    BY <1>5 DEF Received, history, UnderWay
  <2>2. /\ Changes(i, c) /\ c.url = clicks[i].url /\ c.nonce = clicks[i].nonce
    BY <1>5 DEF Received, Same
  <2>3. SignsInTurn'
    BY <1>1, <2>1, <2>2 DEF SignsInTurn, UnderWay, Changes
  <2>4. LastIsShown'
    <3>1. c.url = "sign" => lastSig' = c.nonce
      BY <1>1, <1>5, <2>2 DEF DrawnBefore, Received
    <3>2. c.url # "sign" => lastSig' = lastSig
      BY <1>5 DEF Received
    <3>3. ASSUME NEW k \in DOMAIN clicks, clicks[k].url = "sign", k # i, c.url = "sign",
                 \A j \in DOMAIN clicks : clicks[j].url = "sign" => j <= k
          PROVE  FALSE
      <4>1. i \in Nat /\ k \in Nat /\ clicks[i].url = "sign"
        BY <1>1, <2>2, <3>3
      <4>2. i < k
        BY <2>2, <3>3, <4>1
      <4> QED BY <1>1, <2>1, <3>3, <4>1, <4>2 DEF SignsInTurn
    <3> QED BY <1>1, <2>1, <2>2, <3>1, <3>2, <3>3 DEF LastIsShown, UnderWay, Changes
  <2> QED BY <2>3, <2>4 DEF JInv
<1>6. CASE UNCHANGED vars
  BY <1>1, <1>6 DEF JInv, SignsInTurn, LastIsShown, UnderWay, vars
<1> QED BY <1>2, <1>3, <1>4, <1>5, <1>6, Steps

\* A nonempty set of clicks has a last one.
LEMMA LastOf ==
  ASSUME clicks \in Seq(Click), NEW S \in SUBSET (DOMAIN clicks), S # {}
  PROVE  \E x \in S : \A y \in S : y <= x
<1>1. Len(clicks) \in Nat /\ \A y \in S : y \in 1 .. Len(clicks)
  OBVIOUS
<1> DEFINE T == {k \in Nat : \E y \in S : k = Len(clicks) - y}
<1>2. T \in SUBSET Nat /\ T # {}
  <2>1. \A y \in S : Len(clicks) - y \in T
    BY <1>1
  <2> QED BY <2>1
<1>3. PICK t \in T : \A u \in T : ~ (<<u, t>> \in OpToRel(<, Nat))
  <2> HIDE DEF T
  <2> QED BY <1>2, NatLessThanWellFounded, WFMin
<1>4. PICK x \in S : t = Len(clicks) - x
  BY <1>3
<1>5. ASSUME NEW y \in S PROVE y <= x
  <2>1. Len(clicks) - y \in T /\ t \in Nat
    <3> HIDE DEF T
    <3>1. t \in Nat
      BY <1>2, <1>3
    <3>2. Len(clicks) - y \in T
      BY <1>1 DEF T
    <3> QED BY <3>1, <3>2
  <2>2. ~ (Len(clicks) - y < t)
    <3> SUFFICES ASSUME Len(clicks) - y < t PROVE FALSE
      OBVIOUS
    <3> DEFINE u == Len(clicks) - y
    <3>1. u \in Nat /\ <<u, t>> \in Nat \X Nat /\ <<u, t>>[1] < <<u, t>>[2]
      BY <1>1, <2>1
    <3>2. <<u, t>> \in OpToRel(<, Nat)
      BY <3>1 DEF OpToRel
    <3> QED BY <1>3, <2>1, <3>2
  <2> QED BY <1>1, <1>4, <2>1, <2>2
<1> QED BY <1>5

(* When nothing is under way, nothing failed and no two /sign requests     *)
(* overlapped, and the last of them was for the nonce shown, the signature *)
(* shown is that nonce's, however challenges and verifications overlapped. *)
THEOREM ShownTogether == Spec => []LastSigIsOfLastNonce
<1>1. ASSUME TInv, JInv
      PROVE  LastSigIsOfLastNonce
  <2> SUFFICES ASSUME \A i \in DOMAIN clicks : ~UnderWay(clicks[i]), failures = 0, ~together,
                      lastNonce # 0, LastAsked = lastNonce
               PROVE  lastSig = lastNonce
    BY DEF LastSigIsOfLastNonce
  <2> DEFINE signs == {i \in DOMAIN clicks : clicks[i].url = "sign"}
             last == CHOOSE i \in signs : \A j \in signs : j <= i
  <2>1. clicks \in Seq(Click)
    BY <1>1 DEF TInv, TypeOK
  <2>2. signs # {} /\ clicks[last].nonce = lastNonce
    BY DEF LastAsked
  <2>3. \E i \in signs : \A j \in signs : j <= i
    BY <2>1, <2>2, LastOf
  <2>4. last \in signs /\ \A j \in signs : j <= last
    BY <2>3
  <2>5. lastSig = clicks[last].nonce
    <3> HIDE DEF last
    <3> QED BY <1>1, <2>4 DEF JInv, LastIsShown
  <2> QED BY <2>2, <2>5
<1> QED BY <1>1, TInit, TNext, JInit, JNext, PTL DEF Spec
=============================================================================
