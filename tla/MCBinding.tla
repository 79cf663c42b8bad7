----------------------------- MODULE MCBinding -----------------------------
(***************************************************************************)
(* ControlledPUF and ZkBinding on small instances.  They share no state,   *)
(* so one of them moves at a time.                                         *)
(*                                                                         *)
(* Bytes are "|" and one other; hosts of one and two bytes, keys of one,   *)
(* nonces of up to two, identifiers of two.  Numbers are naturals and NaN; *)
(* the even ones are float32, a number rounds down to one, and numbers one *)
(* apart are near.  Program v1 hardly depends on S; v2 gives NaN for some. *)
(***************************************************************************)
EXTENDS ControlledPUF, ZkBinding, SequencesExt

CONSTANT U   \* the other byte

MCByte == {Bar, U}
MCHosts == {<<U>>, <<U, U>>}
MCKeys == {<<U>>, <<Bar>>}
MCNonces == BoundedSeq({Bar, U}, 2)
MCRawVectors == {<<U>>, <<Bar>>}
MCDigests == {<<p, q>> : p \in {Bar, U}, q \in {Bar, U}}

MCCodes == {<<U>>, <<U, U>>}   \* v1 and v2
MCInputs == {<<0>>, <<1>>}
MCSignatures == {<<0>>, <<1>>, <<2>>}
MCNumbers == 0 .. 6 \cup {NaN}
MCRound(v) == IF v = NaN THEN NaN ELSE 2 * (v \div 2)
MCNear(v, w) == v <= w + 1 /\ w <= v + 1
MCInfer(c, x, S) ==
  CASE c = <<U>> -> <<x[1] + S[1] \div 2>>
    [] c = <<U, U>> /\ S[1] # 2 -> <<x[1] + S[1]>>
    [] OTHER -> <<NaN>>

BindingInit == PufInit /\ ZkInit
BindingNext == \/ proofs = << >> /\ PufNext /\ UNCHANGED zkVars
               \/ queries = {} /\ ZkNext /\ UNCHANGED pufVars
BindingSpec == BindingInit /\ [][BindingNext]_<<pufVars, zkVars>>
=============================================================================
