----------------------------- MODULE HashInputs -----------------------------
(***************************************************************************)
(* The byte strings that the protocol code hashes.  Keys, nonces and       *)
(* digests are arbitrary bytes, so any of them may hold the byte "|" that  *)
(* separates the parts: whether two inputs can give one string is decided  *)
(* by the lengths that are fixed and the parts that hold no separator.     *)
(*                                                                         *)
(* A label is one symbol that is no byte, an array of floats a sequence of *)
(* one symbol per float.                                                   *)
(***************************************************************************)
EXTENDS Naturals, Sequences

CONSTANTS Byte, Bar   \* Bar is the byte "|"

ASSUME BarAssumption == Bar \in Byte

\* Mutant: h.update(p) without the separator before it.
Part_Unseparated(p) == p

\* h.update(b"|"); h.update(p)
Part(p) == <<Bar>> \o p

\* chip_id of a controlled PUF.
ChipIdInput(host, K) == <<"ctrl-puf-id">> \o Part(host) \o Part(K)

\* H_in, around the challenge.
WrapChallengeInput(nonce, id, host) ==
  <<"ctrl-puf-in">> \o Part(nonce) \o Part(id) \o Part(host)

\* H_out, around the response.
WrapResponseInput(raw, nonce, id, host) ==
  <<"ctrl-puf-out">> \o Part(raw) \o Part(nonce) \o Part(id) \o Part(host)

\* commit_samples of the multi-round protocol.
CommitSamplesInput(nonce, S) == <<"commit-S">> \o Part(nonce) \o Part(S)

\* The stream of one domain of a keyed plan.
StreamInput(domain, K, nonce) ==
  <<"FabricCrypt-v2-plan">> \o Part(domain) \o Part(K) \o Part(nonce)

\* The key of a chip, from one digit per dimension.
KchipInput(digits, host) == <<"FabricCrypt-K_chip-v1">> \o digits \o host

\* The commitment to a signature.
CommitChipSigInput(r, S) == <<"chip-sig-com-v1">> \o Part(r) \o Part(S)

\* The commitment to a program.
ModelHashInput(code) == <<"prog-hash-v1">> \o Part(code)

\* Mutant: the commitment is left out.
TagInput_NoCommitment(com, x, y, prog) == x \o y \o <<prog>>

\* What binds an output: no label and no separators, digests at both ends.
TagInput(com, x, y, prog) == <<com>> \o x \o y \o <<prog>>
=============================================================================
