----------------------------- MODULE ZkBinding -----------------------------
(***************************************************************************)
(* zk_prove_stub and zk_verify_stub of src/protocol/                       *)
(* zk_inference_binding.py: an output y = M(x, S) is bundled with a        *)
(* commitment to the chip's signature S, a commitment to the program and a *)
(* tag under K_chip over both, x and y.  The verifier opens the commitment *)
(* and runs M again on what it opens.                                      *)
(*                                                                         *)
(* Arrays come as they are, in double precision perhaps, and are hashed    *)
(* and sent as float32: Cast.  The prover runs M before the cast, the      *)
(* verifier after it.  A bundle is a dictionary; what reaches the verifier *)
(* may hold fields of several bundles.  The hash and the HMAC are ideal:   *)
(* they stand for their inputs.                                            *)
(***************************************************************************)
EXTENDS HashInputs

CONSTANTS ChipKeys,         \* keys K_chip that provers and verifiers hold
          Codes,            \* program sources
          Inputs,           \* arrays x, all of the shape M takes
          Signatures,       \* arrays S, before the cast
          Numbers, NaN,     \* entries of arrays, within the range of float32
          XLen,             \* length of an x
          Infer(_, _, _),   \* M(x, S) of the program
          Round(_),         \* a number as float32
          Near(_, _),       \* within the tolerances of np.allclose
          MaxProofs         \* bound: calls of zk_prove_stub

ASSUME MaxProofsAssumption == MaxProofs \in Nat
ASSUME CodesAssumption == Codes \subseteq Seq(Byte)
ASSUME InputsAssumption ==
  XLen \in Nat /\ \A x \in Inputs : x \in Seq(Numbers) /\ Len(x) = XLen
ASSUME SignaturesAssumption == \A S \in Signatures : S \in Seq(Numbers)
ASSUME RoundAssumption == /\ \A v \in Numbers : Round(v) \in Numbers /\ Round(Round(v)) = Round(v)
                          /\ \A v \in Numbers \ {NaN} : Round(v) # NaN /\ Near(v, Round(v))

VARIABLES proofs,   \* the calls of zk_prove_stub, with what they returned
          verdict   \* of the last zk_verify_stub

zkVars == <<proofs, verdict>>

Cast(a) == [i \in DOMAIN a |-> Round(a[i])]

ASSUME InferAssumption ==
  \A c \in Codes, x \in Inputs, S \in Signatures \cup {Cast(S) : S \in Signatures} :
    Infer(c, x, S) \in Seq(Numbers)

\* Mutant: M's own output goes into the tag, not its cast.
InferenceTag_Uncast(K, com, x, y, prog) == <<K, TagInput(com, Cast(x), y, prog)>>

InferenceTag(K, com, x, y, prog) == <<K, TagInput(com, Cast(x), Cast(y), prog)>>

\* Mutant: the output is sent as it is.
Sent_Uncast(y) == y

\* y.astype(np.float32).tolist()
Sent(y) == Cast(y)

\* The random r of a commitment is the number of its call.
ZkProve(K, code, x, S) ==
  LET r == <<Len(proofs) + 1>>
      y == Infer(code, x, S)
      com == CommitChipSigInput(r, Cast(S))
      prog == ModelHashInput(code)
  IN  /\ Len(proofs) < MaxProofs /\ verdict.result = "none"
      /\ proofs' = Append(proofs,
           [K |-> K, code |-> code, x |-> x, S |-> S,
            bundle |-> [com_S |-> com, prog_hash |-> prog, y |-> Sent(y),
                        tag |-> InferenceTag(K, com, x, y, prog),
                        open_r |-> r, open_S |-> Cast(S)]])
      /\ UNCHANGED verdict

Bundled(field) == {proofs[i].bundle[field] : i \in DOMAIN proofs}

\* The bundles made, and those put together from fields of several.
Presented == [com_S : Bundled("com_S"), prog_hash : Bundled("prog_hash"),
              y : Bundled("y"), tag : Bundled("tag"),
              open_r : Bundled("open_r"), open_S : Bundled("open_S")]

\* np.allclose, which no NaN passes.
AllClose(a, b) == \A i \in DOMAIN b : a[i] # NaN /\ b[i] # NaN /\ Near(a[i], b[i])

(* Four checks in this order; the first that fails is the answer.          *)
Outcome(b, K, code, x) ==
  LET prog == ModelHashInput(code)
  IN  IF prog # b.prog_hash THEN "prog_hash_mismatch"
      ELSE IF CommitChipSigInput(b.open_r, Cast(b.open_S)) # b.com_S THEN "commit_open_failed"
      ELSE IF ~AllClose(Infer(code, x, b.open_S), b.y) THEN "inference_mismatch"
      ELSE IF InferenceTag(K, b.com_S, x, b.y, prog) # b.tag THEN "tag_invalid"
      ELSE "accepted"

(* zk_verify_stub keeps nothing, so a behaviour ends with its first call.  *)
ZkVerify(b, K, code, x) ==
  /\ verdict.result = "none"
  /\ verdict' = [bundle |-> b, K |-> K, code |-> code, x |-> x,
                 result |-> Outcome(b, K, code, x)]
  /\ UNCHANGED proofs

ZkInit == proofs = << >> /\ verdict = [result |-> "none"]

ZkNext ==
  \E K \in ChipKeys, code \in Codes, x \in Inputs :
    \/ \E S \in Signatures : ZkProve(K, code, x, S)
    \/ \E b \in Presented : ZkVerify(b, K, code, x)

ZkSpec == ZkInit /\ [][ZkNext]_zkVars
-----------------------------------------------------------------------------
\* Type invariant; an output that is sent is float32.
ZkTypeOK ==
  /\ Len(proofs) \in 0 .. MaxProofs
  /\ \A i \in DOMAIN proofs :
       /\ proofs[i].K \in ChipKeys /\ proofs[i].code \in Codes
       /\ proofs[i].x \in Inputs /\ proofs[i].S \in Signatures
       /\ proofs[i].bundle.y \in Seq(Numbers) /\ Cast(proofs[i].bundle.y) = proofs[i].bundle.y
  /\ verdict.result \in {"none", "prog_hash_mismatch", "commit_open_failed",
                         "inference_mismatch", "tag_invalid", "accepted"}

(* What is accepted is one bundle as it was made, under the verifier's key *)
(* and program and on an input with the verifier's float32: no bundle with *)
(* a field of another, be it the commitment, its opening or the output,    *)
(* passes all four checks.                                                 *)
AcceptedAsMade ==
  verdict.result = "accepted" =>
    \E i \in DOMAIN proofs : /\ proofs[i].bundle = verdict.bundle
                            /\ proofs[i].K = verdict.K /\ proofs[i].code = verdict.code
                            /\ Cast(proofs[i].x) = Cast(verdict.x)

(* A bundle as it was made is accepted where its own key, program and      *)
(* input are in use, if the signature was float32 to begin with (as what   *)
(* NonceSig.read returns is) and the output holds no NaN: rounding on the  *)
(* way makes no difference to the commitment, the replay or the tag.       *)
HonestAccepted ==
  \A i \in DOMAIN proofs :
    LET p == proofs[i]
    IN  /\ verdict.result # "none"
        /\ verdict.bundle = p.bundle
        /\ verdict.K = p.K /\ verdict.code = p.code /\ verdict.x = p.x
        /\ Cast(p.S) = p.S
        /\ \A j \in DOMAIN Infer(p.code, p.x, p.S) : Infer(p.code, p.x, p.S)[j] # NaN
        => verdict.result = "accepted"
=============================================================================
