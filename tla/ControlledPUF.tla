--------------------------- MODULE ControlledPUF ---------------------------
(***************************************************************************)
(* ControlledPUF of src/protocol/controlled_puf.py: a raw PUF wrapped in   *)
(* a hash of the challenge and a hash of the response, each bound to the   *)
(* chip's identifier, itself a hash of the host and K_chip.                *)
(*                                                                         *)
(* The hash is ideal.  An identifier is drawn when its input is first      *)
(* hashed, any byte string of the length of a digest but none drawn        *)
(* before; the two outer hashes are told apart as their inputs are, so     *)
(* they stand for themselves.                                              *)
(***************************************************************************)
EXTENDS HashInputs, FiniteSets

CONSTANTS Hosts, Keys, Nonces,   \* hosts hold no "|"; a nonce is any bytes
          RawVectors,            \* serialised responses of the raw PUF
          Digests,               \* values of a chip identifier
          RawLen, IdLen,         \* their lengths, 256 and 32 bytes
          MaxQueries             \* bound: queries

ASSUME MaxQueriesAssumption == MaxQueries \in Nat
ASSUME HostsAssumption == Hosts \subseteq Seq(Byte \ {Bar})
ASSUME KeysAssumption == Keys \subseteq Seq(Byte)
ASSUME NoncesAssumption == Nonces \subseteq Seq(Byte)
ASSUME RawAssumption == RawLen \in Nat /\ \A v \in RawVectors : v \in Seq(Byte) /\ Len(v) = RawLen
ASSUME IdAssumption == IdLen \in Nat /\ \A d \in Digests : d \in Seq(Byte) /\ Len(d) = IdLen

VARIABLES ids,      \* the identifiers hashed so far
          queries   \* what query was called with and what it returned

pufVars == <<ids, queries>>

PufInit == ids = << >> /\ queries = {}

\* chip_id of the input, for the table of identifiers t.
Drawn(t, input) ==
  IF input \in DOMAIN t THEN {t[input]}
  ELSE {d \in Digests : \A i \in DOMAIN t : t[i] # d}

Recorded(t, input, d) == [i \in DOMAIN t \cup {input} |-> IF i = input THEN d ELSE t[i]]

(* query of the chip with key K on this host; what the raw PUF answers to  *)
(* the inner challenge is a measurement, so any vector.                    *)
Query(host, K, nonce) ==
  /\ Cardinality(queries) < MaxQueries
  /\ \E d \in Drawn(ids, ChipIdInput(host, K)), raw \in RawVectors :
       /\ ids' = Recorded(ids, ChipIdInput(host, K), d)
       /\ queries' = queries \cup
            {[host |-> host, K |-> K, nonce |-> nonce, raw |-> raw,
              inner |-> WrapChallengeInput(nonce, d, host),
              wrapped |-> WrapResponseInput(raw, nonce, d, host)]}

PufNext == \E host \in Hosts, K \in Keys, nonce \in Nonces : Query(host, K, nonce)

PufSpec == PufInit /\ [][PufNext]_pufVars
-----------------------------------------------------------------------------
(* Two answers that agree were given by one chip, to one challenge and for *)
(* one raw response; two inner challenges that agree come from one         *)
(* challenge to one chip; and the two layers are separate domains: no      *)
(* answer of one query is the inner challenge of another, whatever bytes   *)
(* nonces and responses hold.  (The smoke test of the file tries one nonce *)
(* against another, and one key against another.)                          *)
QueriesToldApart ==
  \A p, q \in queries :
    /\ p.wrapped = q.wrapped => p = q
    /\ p.inner = q.inner => p.host = q.host /\ p.K = q.K /\ p.nonce = q.nonce
    /\ p.wrapped # q.inner
=============================================================================
