-------------------------------- MODULE Demo --------------------------------
(***************************************************************************)
(* The demo: the page of src/demo/static/index.html, with its three        *)
(* variables and its four buttons, and the server of src/demo/server.py,   *)
(* whose handlers run in threads on one NonceSig.                          *)
(*                                                                         *)
(* A click starts an async function of the page; it runs to its first      *)
(* await, and again when its response is there, in any order with the      *)
(* others.  clicks holds every click so far: the request it waits for and  *)
(* how far the server is with it.  A nonce is the number of the challenge  *)
(* that drew it (8 random bytes, taken to be distinct).  A signature is    *)
(* the nonce whose plan shaped it: the gate tells no more.                 *)
(*                                                                         *)
(* While a thread signs, _c2c_pingpong changes the CPU affinity of the     *)
(* process and restores it, for each of the two pairs of the plan.         *)
(***************************************************************************)
EXTENDS Integers, Sequences

CONSTANTS MaxClicks,    \* bound: clicks on the page
          MaxFailures   \* bound: requests or responses that fail

ASSUME DemoBounds == MaxClicks \in Nat /\ MaxFailures \in Nat

VARIABLES lastNonce, lastSig, stashedSig,   \* of the page; 0 stands for null
          clicks,
          issued,      \* nonces drawn by /challenge
          affinity,    \* CPU affinity of the process: "all" or "one" CPU
          failures,
          together     \* history: two /sign requests were under way at once

vars == <<lastNonce, lastSig, stashedSig, clicks, issued, affinity, failures, together>>

page == <<lastNonce, lastSig, stashedSig>>
server == <<issued, affinity>>
history == <<failures, together>>

Buttons == {"issueChallenge", "signNonce", "verifySig", "staleReplay"}

Stages == {"asked",      \* the request is on its way
           "reading",    \* /sign reads, with `pairs` pairs of cores to go
           "pinned",     \* /sign switches the affinity
           "answered",   \* the response is on its way
           "resumed",    \* staleReplay, after its challenge
           "done"}

Click == [button : Buttons, url : {"challenge", "sign", "verify"}, stage : Stages,
          nonce : 0 .. MaxClicks, sig : 0 .. MaxClicks, pairs : 0 .. 2,
          answer : 0 .. MaxClicks, accept : BOOLEAN]

Init == /\ lastNonce = 0 /\ lastSig = 0 /\ stashedSig = 0
        /\ clicks = <<>>
        /\ issued = 0 /\ affinity = "all"
        /\ failures = 0 /\ together = FALSE

Request(b, url, n, s) ==
  [button |-> b, url |-> url, stage |-> "asked", nonce |-> n, sig |-> s,
   pairs |-> 2, answer |-> 0, accept |-> FALSE]

\* Mutant: staleReplay does not await issueChallenge.
StaleRequest_NoAwait == Request("staleReplay", "verify", lastNonce, stashedSig)

\* The request staleReplay begins with.
StaleRequest == Request("staleReplay", "challenge", 0, 0)

UnderWay(c) == c.stage # "done"

(* The first half of a button's function; without the nonce or signature   *)
(* it needs, it only raises an alert.                                      *)
Press(b) ==
  /\ Len(clicks) < MaxClicks
  /\ \/ b = "issueChallenge" /\ clicks' = Append(clicks, Request(b, "challenge", 0, 0))
     \/ /\ b = "signNonce" /\ lastNonce # 0
        /\ clicks' = Append(clicks, Request(b, "sign", lastNonce, 0))
     \/ /\ b = "verifySig" /\ lastNonce # 0 /\ lastSig # 0
        /\ clicks' = Append(clicks, Request(b, "verify", lastNonce, lastSig))
     \/ /\ b = "staleReplay" /\ stashedSig # 0
        /\ clicks' = Append(clicks, StaleRequest)
  /\ together' = (together \/ /\ b = "signNonce"
                              /\ \E i \in DOMAIN clicks : /\ UnderWay(clicks[i])
                                                          /\ clicks[i].url = "sign")
  /\ UNCHANGED <<page, server, failures>>

Step(i, from, url) == clicks[i].stage = from /\ clicks[i].url = url

Answer(i, a) == clicks' = [clicks EXCEPT ![i].stage = "answered", ![i].answer = a]

Challenge(i) == /\ Step(i, "asked", "challenge")
                /\ issued' = issued + 1
                /\ Answer(i, issued + 1)
                /\ UNCHANGED <<page, affinity, history>>

\* The thread derives the plan of the nonce and reads the counters.
Sign(i) == /\ Step(i, "asked", "sign")
           /\ clicks' = [clicks EXCEPT ![i].stage = "reading"]
           /\ UNCHANGED <<page, server, history>>

\* Mutant: a pair more than the plan has.
Pin_OneMore(i) == /\ Step(i, "reading", "sign") \/ Step(i, "pinned", "sign")
                  /\ clicks' = [clicks EXCEPT ![i].stage = "pinned"]
                  /\ affinity' \in {affinity, "one"}
                  /\ UNCHANGED <<page, issued, history>>

(* sched_setaffinity to one core and to the other, several times over; the *)
(* exception of a core that is not to be had is swallowed.                 *)
Pin(i) == /\ \/ Step(i, "reading", "sign") /\ clicks[i].pairs > 0
             \/ Step(i, "pinned", "sign")
          /\ clicks' = [clicks EXCEPT ![i].stage = "pinned"]
          /\ affinity' \in {affinity, "one"}
          /\ UNCHANGED <<page, issued, history>>

\* Mutant: no finally, so that an exception skips the restore.
Restore_NoFinally(i) == /\ Step(i, "pinned", "sign")
                        /\ clicks' = [clicks EXCEPT ![i].stage = "reading", ![i].pairs = @ - 1]
                        /\ affinity' \in {affinity, "all"}
                        /\ UNCHANGED <<page, issued, history>>

\* The finally of a pair.  Its own exception cannot be met: the mask is that
\* of all CPUs.
Restore(i) == /\ Step(i, "pinned", "sign")
              /\ clicks' = [clicks EXCEPT ![i].stage = "reading", ![i].pairs = @ - 1]
              /\ affinity' = "all"
              /\ UNCHANGED <<page, issued, history>>

\* Mutant: the server signs the challenge it issued last.
Signed_LastIssued(i) == /\ Step(i, "reading", "sign") /\ clicks[i].pairs = 0
                        /\ Answer(i, issued)
                        /\ UNCHANGED <<page, server, history>>

Signed(i) == /\ Step(i, "reading", "sign") /\ clicks[i].pairs = 0
             /\ Answer(i, clicks[i].nonce)
             /\ UNCHANGED <<page, server, history>>

(* plan_consistency_score(...) > 0.5: certain under the nonce of the       *)
(* signature; under another, what was measured may happen to fit.          *)
Verify(i) == /\ Step(i, "asked", "verify")
             /\ \E accept \in BOOLEAN :
                  /\ clicks[i].sig = clicks[i].nonce => accept
                  /\ clicks' = [clicks EXCEPT ![i].stage = "answered", ![i].accept = accept]
             /\ UNCHANGED <<page, server, history>>

\* The second half of the button's function.
Receive(i) ==
  LET c == clicks[i]
  IN  /\ c.stage = "answered"
      /\ clicks' = [clicks EXCEPT ![i].stage =
                      IF c.button = "staleReplay" /\ c.url = "challenge" THEN "resumed" ELSE "done"]
      /\ lastNonce' = IF c.url = "challenge" THEN c.answer ELSE lastNonce
      /\ lastSig' = IF c.url = "sign" THEN c.answer ELSE lastSig
      /\ stashedSig' = IF c.url = "sign" /\ stashedSig = 0 THEN c.answer ELSE stashedSig
      /\ UNCHANGED <<server, history>>

\* staleReplay goes on with what the page's variables hold by now.
Resume(i) == /\ clicks[i].stage = "resumed"
             /\ clicks' = [clicks EXCEPT ![i] =
                             Request("staleReplay", "verify", lastNonce, stashedSig)]
             /\ UNCHANGED <<page, server, history>>

\* The fetch fails, or its answer is no JSON: the function ends there.
Fail(i) == /\ clicks[i].stage \in {"asked", "answered"}
           /\ failures < MaxFailures
           /\ failures' = failures + 1
           /\ clicks' = [clicks EXCEPT ![i].stage = "done"]
           /\ UNCHANGED <<page, server, together>>

Serve(i) == Challenge(i) \/ Sign(i) \/ Pin(i) \/ Restore(i) \/ Signed(i) \/ Verify(i)

Next == \/ \E b \in Buttons : Press(b)
        \/ \E i \in DOMAIN clicks : Serve(i) \/ Receive(i) \/ Resume(i) \/ Fail(i)

Spec == Init /\ [][Next]_vars
-----------------------------------------------------------------------------
TypeOK == /\ {lastNonce, lastSig, stashedSig} \subseteq 0 .. issued
          /\ clicks \in Seq(Click)
          /\ issued \in 0 .. MaxClicks
          /\ affinity \in {"all", "one"}
          /\ failures \in 0 .. MaxFailures
          /\ together \in BOOLEAN

(* "a replay of a stale signature will be rejected" (index.html): the      *)
(* signature a stale replay presents was made under another nonce than the *)
(* one it presents it for, in every order of clicks and responses.         *)
StaleIsUnderAnotherNonce ==
  \A i \in DOMAIN clicks :
    clicks[i].button = "staleReplay" /\ clicks[i].url = "verify" => clicks[i].sig # clicks[i].nonce

\* The nonce of the last /sign request.
LastAsked == LET signs == {i \in DOMAIN clicks : clicks[i].url = "sign"}
             IN  IF signs = {} THEN 0
                 ELSE clicks[CHOOSE i \in signs : \A j \in signs : j <= i].nonce

(* When nothing is under way and the last /sign was asked for the nonce    *)
(* shown, the signature shown is that nonce's, so that Verify accepts.     *)
(* Only a failed request, or two /sign requests that overtook each other,  *)
(* undo it: challenges and verifications may overlap as they like.         *)
LastSigIsOfLastNonce ==
  /\ \A i \in DOMAIN clicks : ~UnderWay(clicks[i])
  /\ failures = 0 /\ ~together
  /\ lastNonce # 0 /\ LastAsked = lastNonce
  => lastSig = lastNonce

(* Unless a thread is inside _c2c_pingpong the process may run on every    *)
(* CPU, though several threads change and restore the one affinity.        *)
AffinityRestored ==
  (\A i \in DOMAIN clicks : clicks[i].stage # "pinned") => affinity = "all"
=============================================================================
