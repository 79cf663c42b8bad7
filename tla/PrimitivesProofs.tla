-------------------------- MODULE PrimitivesProofs --------------------------
(***************************************************************************)
(* Proofs about the three primitives that are no protocols of their own.   *)
(*                                                                         *)
(* ReverseFuzzy, for any code of minimum distance 2t + 1 and any set of    *)
(* positions the code leaves unused.                                       *)
(*                                                                         *)
(* Which parts the hashed strings of HashInputs determine, and what        *)
(* follows for ControlledPUF and ZkBinding, whatever bytes keys, nonces    *)
(* and digests hold.                                                       *)
(***************************************************************************)
EXTENDS ReverseFuzzy, ControlledPUF, ZkBinding, FiniteSetTheorems, SequenceTheorems, TLAPS

(* The enrolment in force masks its reference with the codeword whose hash *)
(* is its key.                                                             *)
Masked ==
  enrollment # None =>
    /\ enrollment.K \in Code
    /\ enrollment.w_ref \in Words
    /\ enrollment.P = Xor(enrollment.w_ref, enrollment.K)

(* The latest answer was given by Verify under that enrolment. *)
Answered ==
  answer # None =>
    /\ enrollment # None
    /\ answer.w_noisy \in Words
    /\ answer.ham = Hamming(enrollment.w_ref, answer.w_noisy)
    /\ answer.K = TryDecode(Xor(answer.w_noisy, enrollment.P))
    /\ answer.verdict = IF answer.K = enrollment.K THEN "accept" ELSE "reject"

IInv == TypeOK /\ Masked /\ Answered

-----------------------------------------------------------------------------
(* Distances are natural numbers. *)
LEMMA HammingType ==
  ASSUME NEW a \in Words, NEW b \in Words
  PROVE  Hamming(a, b) \in Nat /\ IsFiniteSet(Xor(a, b)) /\ Xor(a, b) \in Words
<1>1. Xor(a, b) \subseteq Positions
  BY DEF Xor, Words
<1>2. IsFiniteSet(Xor(a, b))
  BY <1>1, PositionsAssumption, FS_Subset
<1> QED BY <1>1, <1>2, FS_CardinalityType DEF Hamming, Words

(* Distances satisfy the triangle inequality. *)
LEMMA Triangle ==
  ASSUME NEW a \in Words, NEW b \in Words, NEW c \in Words
  PROVE  Hamming(a, c) <= Hamming(a, b) + Hamming(b, c)
<1>1. Xor(a, c) \subseteq Xor(a, b) \cup Xor(b, c)
  BY DEF Xor
<1>2. /\ IsFiniteSet(Xor(a, b)) /\ IsFiniteSet(Xor(b, c))
      /\ Hamming(a, b) \in Nat /\ Hamming(b, c) \in Nat /\ Hamming(a, c) \in Nat
  BY HammingType
<1>3. /\ IsFiniteSet(Xor(a, b) \cup Xor(b, c))
      /\ Cardinality(Xor(a, b) \cup Xor(b, c))
           = Hamming(a, b) + Hamming(b, c)
               - Cardinality(Xor(a, b) \cap Xor(b, c))
  BY <1>2, FS_Union DEF Hamming
<1>4. Cardinality(Xor(a, b) \cap Xor(b, c)) \in Nat
  <2>1. IsFiniteSet(Xor(a, b) \cap Xor(b, c))
    BY <1>2, FS_Intersection
  <2> QED BY <2>1, FS_CardinalityType
<1>5. Hamming(a, c) <= Cardinality(Xor(a, b) \cup Xor(b, c))
  BY <1>1, <1>3, FS_Subset DEF Hamming
<1> QED BY <1>2, <1>3, <1>4, <1>5

LEMMA Symmetric == \A a, b : Xor(a, b) = Xor(b, a) /\ Hamming(a, b) = Hamming(b, a)
<1>1. \A a, b : Xor(a, b) = Xor(b, a)
  BY DEF Xor
<1> QED BY <1>1 DEF Hamming

LEMMA CodeWords == \A c \in Code : c \in Words /\ c \cap Pad = {} /\ c # None
BY CodeAssumption, NoneAssumption DEF Words

(* Unmasking a reading with P gives a word that differs from the enrolled  *)
(* codeword exactly where the reading differs from the reference.          *)
LEMMA Unmask ==
  ASSUME NEW c \in Code, NEW r \in Words, NEW w \in Words
  PROVE  LET v == Xor(w, Xor(r, c))
         IN  /\ v \in Words
             /\ Hamming(c, v) = Hamming(r, w)
             /\ v \cap Pad = Xor(r, w) \cap Pad
<1> DEFINE v == Xor(w, Xor(r, c))
<1>1. v \in Words
  BY CodeWords, HammingType
<1>2. Xor(c, v) = Xor(r, w)
  BY DEF Xor
<1>3. v \cap Pad = Xor(r, w) \cap Pad
  BY CodeWords DEF Xor
<1> QED BY <1>1, <1>2, <1>3 DEF Hamming

(* Within the radius of its codeword, and with clean unused bits, a word   *)
(* decodes to that codeword: no other one is as near.                      *)
LEMMA DecodeCorrects ==
  ASSUME NEW c \in Code, NEW v \in Words, v \cap Pad = {}, Hamming(c, v) <= T
  PROVE  TryDecode(v) = c
<1>1. v \ Pad = v
  OBVIOUS
<1>2. c \in WithinT(v)
  BY <1>1 DEF WithinT
<1>3. \A d \in WithinT(v) : d = c
  <2> SUFFICES ASSUME NEW d \in WithinT(v), d # c PROVE FALSE
    OBVIOUS
  <2>1. d \in Code /\ Hamming(v, d) <= T
    BY <1>1, Symmetric DEF WithinT
  <2>2. Hamming(c, d) <= Hamming(c, v) + Hamming(v, d)
    BY <2>1, CodeWords, Triangle
  <2>3. Hamming(c, v) \in Nat /\ Hamming(v, d) \in Nat /\ Hamming(c, d) \in Nat
    BY <2>1, CodeWords, HammingType
  <2>4. Hamming(c, d) > 2 * T
    BY <2>1, CodeAssumption
  <2> QED BY <2>1, <2>2, <2>3, <2>4, PositionsAssumption
<1>4. (CHOOSE d \in WithinT(v) : TRUE) = c
  BY <1>2, <1>3
<1> QED BY <1>2, <1>4 DEF TryDecode

(* Conversely a word that decodes to a codeword is within its radius and   *)
(* has clean unused bits.                                                  *)
LEMMA DecodeBounded ==
  ASSUME NEW c \in Code, NEW v \in Words, TryDecode(v) = c
  PROVE  v \cap Pad = {} /\ Hamming(c, v) <= T
<1>1. WithinT(v) # {}
  BY CodeWords DEF TryDecode
<1>2. PICK d \in WithinT(v) : c = d \cup (v \cap Pad)
  BY <1>1 DEF TryDecode
<1>3. v \cap Pad = {}
  BY <1>2, CodeWords
<1>4. c = d /\ v \ Pad = v
  BY <1>2, <1>3
<1> QED BY <1>3, <1>4 DEF WithinT

LEMMA DecodeType == \A v \in Words : TryDecode(v) \in Words \cup {None}
<1> SUFFICES ASSUME NEW v \in Words, WithinT(v) # {} PROVE TryDecode(v) \in Words
  BY DEF TryDecode
<1>1. (CHOOSE c \in WithinT(v) : TRUE) \in Code
  BY DEF WithinT
<1> QED BY <1>1, CodeWords DEF TryDecode, Words

-----------------------------------------------------------------------------
(* The inductive invariant holds in every reachable state. *)
THEOREM Invariance == Spec => []IInv
<1>1. Init => IInv
  BY DEF Init, IInv, TypeOK, Masked, Answered
<1>2. IInv /\ [Next]_vars => IInv'
  <2> SUFFICES ASSUME IInv, [Next]_vars PROVE IInv'
    OBVIOUS
  <2>1. ASSUME NEW w \in Words, Enroll(w) PROVE IInv'
    <3>1. PICK c \in Code :
            /\ enrollment' = [w_ref |-> w, P |-> Xor(w, c), K |-> c]
            /\ answer' = None
      BY <2>1 DEF Enroll
    <3>2. c \in Words /\ Xor(w, c) \in Words
      BY CodeWords, HammingType
    <3> QED BY <3>1, <3>2 DEF IInv, TypeOK, Masked, Answered, Enrollments
  <2>2. ASSUME NEW w \in Words, Verify(w) PROVE IInv'
    <3> DEFINE K == TryDecode(Xor(w, enrollment.P))
               a == [w_noisy |-> w,
                     verdict |-> IF K = enrollment.K THEN "accept" ELSE "reject",
                     K |-> K, ham |-> Hamming(enrollment.w_ref, w)]
    <3>1. enrollment # None /\ answer' = a /\ enrollment' = enrollment
      BY <2>2 DEF Verify
    <3>2. enrollment \in Enrollments
      BY <3>1 DEF IInv, TypeOK
    <3>3. enrollment.w_ref \in Words /\ enrollment.P \in Words
      BY <3>2 DEF Enrollments
    <3>4. K \in Words \cup {None} /\ Hamming(enrollment.w_ref, w) \in Nat
      BY <3>3, HammingType, DecodeType
    <3>5. a \in Answers
      BY <3>4 DEF Answers
    <3>6. TypeOK' /\ Masked'
      BY <3>1, <3>5 DEF IInv, TypeOK, Masked
    <3>7. Answered'
      BY <3>1 DEF Answered
    <3> QED BY <3>6, <3>7 DEF IInv
  <2>3. CASE UNCHANGED vars
    BY <2>3 DEF vars, IInv, TypeOK, Masked, Answered
  <2> QED BY <2>1, <2>2, <2>3 DEF Next
<1> QED BY <1>1, <1>2, PTL DEF Spec

(* The enrolment and the answers have their types. *)
THEOREM TypeCorrect == Spec => []TypeOK
<1>1. IInv => TypeOK
  BY DEF IInv
<1> QED BY <1>1, Invariance, PTL

(* An accepted fingerprint is within t bits of the reference, for every    *)
(* code, reference and codeword drawn.                                     *)
THEOREM Soundness == Spec => []AcceptedIsClose
<1>1. IInv => AcceptedIsClose
  <2> SUFFICES ASSUME IInv, answer # None, answer.verdict = "accept"
               PROVE  /\ Hamming(enrollment.w_ref, answer.w_noisy) <= T
                      /\ answer.K = enrollment.K
    BY DEF AcceptedIsClose
  <2>1. answer.K = enrollment.K
    BY DEF IInv, Answered
  <2>2. /\ enrollment.K \in Code /\ enrollment.w_ref \in Words
        /\ answer.w_noisy \in Words
        /\ TryDecode(Xor(answer.w_noisy, Xor(enrollment.w_ref, enrollment.K)))
             = enrollment.K
    BY <2>1 DEF IInv, Answered, Masked
  <2> QED BY <2>1, <2>2, Unmask, DecodeBounded
<1> QED BY <1>1, Invariance, PTL

(* A fingerprint within t bits of the reference that agrees with it on the *)
(* bits the code leaves unused is accepted.                                *)
THEOREM Completeness == Spec => []CloseIsAccepted
<1>1. IInv => CloseIsAccepted
  <2> SUFFICES ASSUME IInv, answer # None,
                      Hamming(enrollment.w_ref, answer.w_noisy) <= T,
                      Xor(enrollment.w_ref, answer.w_noisy) \cap Pad = {}
               PROVE  answer.verdict = "accept"
    BY DEF CloseIsAccepted
  <2>1. /\ enrollment.K \in Code /\ enrollment.w_ref \in Words
        /\ answer.w_noisy \in Words
        /\ answer.K = TryDecode(Xor(answer.w_noisy,
                                    Xor(enrollment.w_ref, enrollment.K)))
    BY DEF IInv, Answered, Masked
  <2>2. answer.K = enrollment.K
    BY <2>1, Unmask, DecodeCorrects
  <2> QED BY <2>2 DEF IInv, Answered
<1> QED BY <1>1, Invariance, PTL

-----------------------------------------------------------------------------
(* Strings are taken apart from their ends: a part of a known length is    *)
(* split off at that length, a part without separators at the separator.   *)

\* Two concatenations that agree agree in both parts if the first ones are of one length.
LEMMA SplitPrefix ==
  ASSUME NEW Sym, NEW a \in Seq(Sym), NEW b \in Seq(Sym), NEW c \in Seq(Sym), NEW d \in Seq(Sym),
         a \o b = c \o d, Len(a) = Len(c)
  PROVE  a = c /\ b = d
<1>1. /\ Len(a \o b) = Len(a) + Len(b)
      /\ \A i \in 1 .. Len(a) + Len(b) :
           (a \o b)[i] = IF i <= Len(a) THEN a[i] ELSE b[i - Len(a)]
  BY ConcatProperties
<1>2. /\ Len(c \o d) = Len(c) + Len(d)
      /\ \A i \in 1 .. Len(c) + Len(d) :
           (c \o d)[i] = IF i <= Len(c) THEN c[i] ELSE d[i - Len(c)]
  BY ConcatProperties
<1>3. Len(a) \in Nat /\ Len(b) \in Nat /\ Len(d) \in Nat
  BY LenProperties
<1>4. Len(b) = Len(d)
  BY <1>1, <1>2, <1>3
<1>5. \A i \in 1 .. Len(a) : a[i] = c[i]
  BY <1>1, <1>2, <1>3, <1>4
<1>6. \A i \in 1 .. Len(b) : b[i] = d[i]
  <2>1. TAKE i \in 1 .. Len(b)
  <2>2. i + Len(a) \in 1 .. Len(a) + Len(b) /\ ~(i + Len(a) <= Len(a)) /\ (i + Len(a)) - Len(a) = i
    BY <1>3
  <2> QED BY <2>2, <1>1, <1>2, <1>4
<1>7. a = c
  BY <1>5, SeqEqual
<1> QED BY <1>4, <1>6, <1>7, SeqEqual

\* The same for second parts of one length.
LEMMA SplitSuffix ==
  ASSUME NEW Sym, NEW a \in Seq(Sym), NEW b \in Seq(Sym), NEW c \in Seq(Sym), NEW d \in Seq(Sym),
         a \o b = c \o d, Len(b) = Len(d)
  PROVE  a = c /\ b = d
<1>1. Len(a \o b) = Len(a) + Len(b) /\ Len(c \o d) = Len(c) + Len(d)
  BY ConcatProperties
<1>2. Len(a) \in Nat /\ Len(b) \in Nat /\ Len(c) \in Nat
  BY LenProperties
<1>3. Len(a) = Len(c)
  BY <1>1, <1>2
<1> QED BY <1>3, SplitPrefix

BarFree(s) == \A i \in 1 .. Len(s) : s[i] # Bar

\* A part as a sequence of symbols, a separator first.
LEMMA PartProperties ==
  ASSUME NEW Sym, Bar \in Sym, NEW p \in Seq(Sym)
  PROVE  /\ Part(p) \in Seq(Sym) /\ Len(Part(p)) = Len(p) + 1
         /\ Part(p)[1] = Bar
         /\ \A i \in 1 .. Len(p) : Part(p)[i + 1] = p[i]
<1>1. <<Bar>> \in Seq(Sym) /\ Len(<<Bar>>) = 1 /\ <<Bar>>[1] = Bar
  OBVIOUS
<1>2. /\ Part(p) \in Seq(Sym)
      /\ Len(Part(p)) = 1 + Len(p)
      /\ \A i \in 1 .. 1 + Len(p) : Part(p)[i] = IF i <= 1 THEN <<Bar>>[i] ELSE p[i - 1]
  BY <1>1, ConcatProperties DEF Part
<1>3. Len(p) \in Nat
  BY LenProperties
<1>4. Part(p)[1] = Bar
  BY <1>1, <1>2, <1>3
<1>5. \A i \in 1 .. Len(p) : Part(p)[i + 1] = p[i]
  BY <1>2, <1>3
<1> QED BY <1>2, <1>3, <1>4, <1>5

\* Parts that agree are those of sequences that agree.
LEMMA PartInjective ==
  ASSUME NEW Sym, Bar \in Sym, NEW b \in Seq(Sym), NEW d \in Seq(Sym), Part(b) = Part(d)
  PROVE  b = d
<1>1. Len(b) \in Nat /\ Len(d) \in Nat /\ Len(b) + 1 = Len(d) + 1
  BY PartProperties, LenProperties
<1>2. Len(b) = Len(d)
  BY <1>1
<1>3. ASSUME NEW i \in 1 .. Len(b) PROVE b[i] = d[i]
  <2>1. Part(b)[i + 1] = b[i]
    BY PartProperties
  <2>2. Part(d)[i + 1] = d[i]
    BY PartProperties, <1>2
  <2> QED BY <2>1, <2>2
<1> QED BY <1>2, <1>3, SeqEqual

\* Of two strings that agree, neither last part reaches over the other's separator.
LEMMA LastPartNotLonger ==
  ASSUME NEW Sym, Bar \in Sym, NEW p \in Seq(Sym), NEW q \in Seq(Sym), NEW u \in Seq(Sym), NEW v \in Seq(Sym),
         BarFree(u),
         p \o Part(u) = q \o Part(v)
  PROVE  ~(Len(v) < Len(u))
<1> SUFFICES ASSUME Len(v) < Len(u) PROVE FALSE
  OBVIOUS
<1> DEFINE P == Len(p)
           Q == Len(q)
           U == Len(u)
           V == Len(v)
           m == Q - P
           k == Q + 1
<1>1. P \in Nat /\ Q \in Nat /\ U \in Nat /\ V \in Nat /\ V < U
  BY LenProperties
<1>2. /\ Part(u) \in Seq(Sym) /\ Len(Part(u)) = U + 1
      /\ Part(v) \in Seq(Sym) /\ Len(Part(v)) = V + 1
  BY PartProperties
<1>3. /\ Len(p \o Part(u)) = P + (U + 1)
      /\ \A i \in 1 .. P + (U + 1) :
           (p \o Part(u))[i] = IF i <= P THEN p[i] ELSE Part(u)[i - P]
  <2>1. /\ Len(p \o Part(u)) = Len(p) + Len(Part(u))
        /\ \A i \in 1 .. Len(p) + Len(Part(u)) :
             (p \o Part(u))[i] = IF i <= Len(p) THEN p[i] ELSE Part(u)[i - Len(p)]
    <3>1. Part(u) \in Seq(Sym)
      BY <1>2
    <3> QED BY <3>1, ConcatProperties
  <2> QED BY <2>1, <1>2
<1>4. /\ Len(q \o Part(v)) = Q + (V + 1)
      /\ \A i \in 1 .. Q + (V + 1) :
           (q \o Part(v))[i] = IF i <= Q THEN q[i] ELSE Part(v)[i - Q]
  <2>1. /\ Len(q \o Part(v)) = Len(q) + Len(Part(v))
        /\ \A i \in 1 .. Len(q) + Len(Part(v)) :
             (q \o Part(v))[i] = IF i <= Len(q) THEN q[i] ELSE Part(v)[i - Len(q)]
    <3>1. Part(v) \in Seq(Sym)
      BY <1>2
    <3> QED BY <3>1, ConcatProperties
  <2> QED BY <2>1, <1>2
<1>5. P + (U + 1) = Q + (V + 1)
  BY <1>3, <1>4
<1>6. Part(v)[1] = Bar
  BY PartProperties
<1>7. \A i \in 1 .. U : Part(u)[i + 1] = u[i] /\ u[i] # Bar
  BY PartProperties DEF BarFree
<1> HIDE DEF P, Q, U, V
<1>8. /\ k \in 1 .. Q + (V + 1) /\ ~(k <= Q) /\ k - Q = 1
      /\ k \in 1 .. P + (U + 1) /\ ~(k <= P)
      /\ m \in 1 .. U /\ k - P = m + 1
  BY <1>1, <1>5
<1> HIDE DEF m, k
<1>9. (q \o Part(v))[k] = Bar
  BY <1>4, <1>6, <1>8
<1>10. (p \o Part(u))[k] = Part(u)[m + 1]
  BY <1>3, <1>8
<1>11. Part(u)[m + 1] # Bar
  BY <1>7, <1>8
<1> QED BY <1>9, <1>10, <1>11

\* A last part without separators ends where the last separator is.
LEMMA SplitLastPart ==
  ASSUME NEW Sym, Bar \in Sym, NEW a \in Seq(Sym), NEW c \in Seq(Sym),
         NEW b \in Seq(Sym), NEW d \in Seq(Sym), BarFree(b), BarFree(d),
         a \o Part(b) = c \o Part(d)
  PROVE  a = c /\ b = d
<1>1. ~(Len(d) < Len(b))
  BY LastPartNotLonger
<1>2. ~(Len(b) < Len(d))
  BY LastPartNotLonger
<1>3. Len(b) \in Nat /\ Len(d) \in Nat
  BY LenProperties
<1>4. Len(b) = Len(d)
  BY <1>1, <1>2, <1>3
<1>5. /\ Part(b) \in Seq(Sym) /\ Len(Part(b)) = Len(b) + 1
      /\ Part(d) \in Seq(Sym) /\ Len(Part(d)) = Len(d) + 1
  BY PartProperties
<1>6. a = c /\ Part(b) = Part(d)
  <2>1. Len(Part(b)) = Len(Part(d))
    BY <1>4, <1>5
  <2>2. Part(b) \in Seq(Sym) /\ Part(d) \in Seq(Sym)
    BY <1>5
  <2> QED BY <2>1, <2>2, SplitSuffix
<1>7. b = d
  BY <1>6, PartInjective
<1> QED BY <1>6, <1>7

\* A last part of a known length.
LEMMA SplitFixedPart ==
  ASSUME NEW Sym, Bar \in Sym, NEW a \in Seq(Sym), NEW c \in Seq(Sym),
         NEW b \in Seq(Sym), NEW d \in Seq(Sym), Len(b) = Len(d),
         a \o Part(b) = c \o Part(d)
  PROVE  a = c /\ b = d
<1>1. /\ Part(b) \in Seq(Sym) /\ Len(Part(b)) = Len(b) + 1
      /\ Part(d) \in Seq(Sym) /\ Len(Part(d)) = Len(d) + 1
  BY PartProperties
<1>2. a = c /\ Part(b) = Part(d)
  <2>0. \A e, f \in Seq(Sym) : a \o e = c \o f /\ Len(e) = Len(f) => a = c /\ e = f
    BY SplitSuffix
  <2>1. Len(Part(b)) = Len(Part(d))
    BY <1>1
  <2>2. Part(b) \in Seq(Sym) /\ Part(d) \in Seq(Sym)
    BY <1>1
  <2> QED BY <2>0, <2>1, <2>2, Zenon
<1>3. b = d
  BY <1>2, PartInjective
<1> QED BY <1>2, <1>3

Framed(a, n, d, h) == a \o Part(n) \o Part(d) \o Part(h)

\* The parts that both layers hash, after what has a known length: a nonce of any bytes, an
\* identifier of a known length, a host without separators.
LEMMA SplitNonceIdAndHost ==
  ASSUME NEW Sym, Bar \in Sym, NEW a \in Seq(Sym), NEW c \in Seq(Sym), Len(a) = Len(c),
         NEW n1 \in Seq(Sym), NEW n2 \in Seq(Sym),
         NEW d1 \in Seq(Sym), NEW d2 \in Seq(Sym), Len(d1) = Len(d2),
         NEW h1 \in Seq(Sym), NEW h2 \in Seq(Sym), BarFree(h1), BarFree(h2),
         Framed(a, n1, d1, h1) = Framed(c, n2, d2, h2)
  PROVE  a = c /\ n1 = n2 /\ d1 = d2 /\ h1 = h2
<1> DEFINE A == a \o Part(n1)
           C == c \o Part(n2)
           AA == A \o Part(d1)
           CC == C \o Part(d2)
<1>1. Part(n1) \in Seq(Sym) /\ Part(n2) \in Seq(Sym) /\ Part(d1) \in Seq(Sym) /\ Part(d2) \in Seq(Sym)
  BY PartProperties
<1>2. A \in Seq(Sym) /\ C \in Seq(Sym)
  BY <1>1, ConcatProperties
<1>3. AA \o Part(h1) = CC \o Part(h2)
  BY DEF Framed
<1>4. \A p, q \in Seq(Sym) : p \o Part(h1) = q \o Part(h2) => p = q /\ h1 = h2
  BY SplitLastPart
<1>5. \A p, q \in Seq(Sym) : p \o Part(d1) = q \o Part(d2) => p = q /\ d1 = d2
  BY SplitFixedPart
<1>6. A = C => a = c /\ Part(n1) = Part(n2)
  BY <1>1, SplitPrefix
<1> HIDE DEF A, C
<1>7. AA \in Seq(Sym) /\ CC \in Seq(Sym)
  BY <1>1, <1>2, ConcatProperties
<1>8. AA = CC => A = C /\ d1 = d2
  BY <1>2, <1>5
<1> HIDE DEF AA, CC
<1>9. AA = CC /\ h1 = h2
  BY <1>3, <1>4, <1>7, Zenon
<1> QED BY <1>6, <1>8, <1>9, PartInjective
-----------------------------------------------------------------------------
\* The strings of the controlled PUF.

NoBar == Byte \ {Bar}

\* Bytes and labels are symbols of one alphabet.
LEMMA Alphabet ==
  ASSUME NEW ls
  PROVE  \E Sym : /\ Bar \in Sym /\ ls \subseteq Sym
                  /\ \A s \in Seq(Byte) : s \in Seq(Sym)
                  /\ \A s \in Seq(NoBar) : s \in Seq(Sym) /\ BarFree(s)
<1> DEFINE Sym == Byte \cup ls
<1>1. Bar \in Sym /\ ls \subseteq Sym
  BY BarAssumption
<1>2. \A s \in Seq(Byte) : s \in Seq(Sym)
  BY SeqMonotonic
<1>3. ASSUME NEW s \in Seq(NoBar) PROVE s \in Seq(Sym) /\ BarFree(s)
  <2>1. s \in Seq(Sym)
    BY SeqMonotonic DEF NoBar
  <2>2. \A i \in 1 .. Len(s) : s[i] \in Byte \ {Bar}
    BY ElementOfSeq DEF NoBar
  <2> QED BY <2>1, <2>2 DEF BarFree
<1> HIDE DEF Sym
<1> QED BY <1>1, <1>2, <1>3

\* The inner challenge tells the nonce, the identifier and the host.
LEMMA WrapChallengeTells ==
  ASSUME NEW n1 \in Seq(Byte), NEW n2 \in Seq(Byte),
         NEW d1 \in Seq(Byte), NEW d2 \in Seq(Byte), Len(d1) = Len(d2),
         NEW h1 \in Seq(NoBar), NEW h2 \in Seq(NoBar),
         WrapChallengeInput(n1, d1, h1) = WrapChallengeInput(n2, d2, h2)
  PROVE  n1 = n2 /\ d1 = d2 /\ h1 = h2
<1>1. PICK Sym : /\ Bar \in Sym /\ {"ctrl-puf-in"} \subseteq Sym
                 /\ \A s \in Seq(Byte) : s \in Seq(Sym)
                 /\ \A s \in Seq(NoBar) : s \in Seq(Sym) /\ BarFree(s)
  BY Alphabet
<1> DEFINE L == <<"ctrl-puf-in">>
<1>2. L \in Seq(Sym)
  BY <1>1
<1> HIDE DEF L
<1>3. Framed(L, n1, d1, h1) = Framed(L, n2, d2, h2)
  BY DEF WrapChallengeInput, L, Framed
<1>4. /\ n1 \in Seq(Sym) /\ n2 \in Seq(Sym) /\ d1 \in Seq(Sym) /\ d2 \in Seq(Sym)
      /\ h1 \in Seq(Sym) /\ BarFree(h1) /\ h2 \in Seq(Sym) /\ BarFree(h2) /\ Bar \in Sym
  BY <1>1
<1> QED BY <1>2, <1>3, <1>4, SplitNonceIdAndHost, SMTT(60)

\* The answer tells the raw response, the nonce, the identifier and the host.
LEMMA WrapResponseTells ==
  ASSUME NEW r1 \in Seq(Byte), NEW r2 \in Seq(Byte), Len(r1) = Len(r2),
         NEW n1 \in Seq(Byte), NEW n2 \in Seq(Byte),
         NEW d1 \in Seq(Byte), NEW d2 \in Seq(Byte), Len(d1) = Len(d2),
         NEW h1 \in Seq(NoBar), NEW h2 \in Seq(NoBar),
         WrapResponseInput(r1, n1, d1, h1) = WrapResponseInput(r2, n2, d2, h2)
  PROVE  r1 = r2 /\ n1 = n2 /\ d1 = d2 /\ h1 = h2
<1>1. PICK Sym : /\ Bar \in Sym /\ {"ctrl-puf-out"} \subseteq Sym
                 /\ \A s \in Seq(Byte) : s \in Seq(Sym)
                 /\ \A s \in Seq(NoBar) : s \in Seq(Sym) /\ BarFree(s)
  BY Alphabet
<1> DEFINE L == <<"ctrl-puf-out">>
           A == L \o Part(r1)
           C == L \o Part(r2)
<1>2. L \in Seq(Sym)
  BY <1>1
<1> HIDE DEF L
<1>3. Framed(A, n1, d1, h1) = Framed(C, n2, d2, h2)
  BY DEF WrapResponseInput, L, Framed
<1>4. /\ Len(Part(r1)) = Len(r1) + 1 /\ Len(Part(r2)) = Len(r2) + 1
      /\ Part(r1) \in Seq(Sym) /\ Part(r2) \in Seq(Sym)
  BY <1>1, PartProperties
<1>5. A \in Seq(Sym) /\ C \in Seq(Sym) /\ Len(A) = Len(C)
  <2>1. /\ Part(r1) \in Seq(Sym) /\ Len(A) = Len(L) + Len(Part(r1)) /\ A \in Seq(Sym)
        /\ Part(r2) \in Seq(Sym) /\ Len(C) = Len(L) + Len(Part(r2)) /\ C \in Seq(Sym)
    <3>1. Part(r1) \in Seq(Sym) /\ Part(r2) \in Seq(Sym)
      BY <1>4
    <3> QED BY <1>2, <3>1, ConcatProperties
  <2>2. Len(Part(r1)) = Len(Part(r2))
    BY <1>4
  <2> HIDE DEF A, C
  <2> QED BY <2>1, <2>2
<1>6. A = C => Part(r1) = Part(r2)
  BY <1>2, <1>4, SplitPrefix
<1> HIDE DEF A, C
<1>7. /\ n1 \in Seq(Sym) /\ n2 \in Seq(Sym) /\ d1 \in Seq(Sym) /\ d2 \in Seq(Sym)
      /\ h1 \in Seq(Sym) /\ BarFree(h1) /\ h2 \in Seq(Sym) /\ BarFree(h2) /\ Bar \in Sym
  BY <1>1
<1>8. A = C /\ n1 = n2 /\ d1 = d2 /\ h1 = h2
  BY <1>3, <1>5, <1>7, SplitNonceIdAndHost, SMTT(60)
<1> QED BY <1>1, <1>6, <1>8, PartInjective

\* A first part without separators does not reach over the other's next separator.
LEMMA FirstPartNotLonger ==
  ASSUME NEW Sym, Bar \in Sym, NEW a \in Seq(Sym), NEW h \in Seq(Sym), NEW g \in Seq(Sym),
         NEW u \in Seq(Sym), NEW v \in Seq(Sym), BarFree(g),
         a \o Part(h) \o Part(u) = a \o Part(g) \o Part(v)
  PROVE  ~(Len(h) < Len(g))
<1> SUFFICES ASSUME Len(h) < Len(g) PROVE FALSE
  OBVIOUS
<1> DEFINE A == a \o Part(h)
           C == a \o Part(g)
           L == Len(a)
           H == Len(h)
           G == Len(g)
           U == Len(Part(u))
           V == Len(Part(v))
           k == L + H + 2
<1>1. L \in Nat /\ H \in Nat /\ G \in Nat /\ H < G
  BY LenProperties
<1>2. /\ Part(h) \in Seq(Sym) /\ Part(g) \in Seq(Sym) /\ Part(u) \in Seq(Sym) /\ Part(v) \in Seq(Sym)
      /\ Len(Part(h)) = H + 1 /\ Len(Part(g)) = G + 1
      /\ U = Len(u) + 1 /\ V = Len(v) + 1 /\ Part(u)[1] = Bar
  BY PartProperties
<1>3. U \in Nat \ {0} /\ V \in Nat
  BY <1>2, LenProperties
<1>4. A \in Seq(Sym) /\ C \in Seq(Sym) /\ Len(A) = L + Len(Part(h)) /\ Len(C) = L + Len(Part(g))
  <2>1. Part(h) \in Seq(Sym) /\ Part(g) \in Seq(Sym)
    BY <1>2
  <2> QED BY <2>1, ConcatProperties
<1>5. \A i \in 1 .. L + Len(Part(g)) : C[i] = IF i <= L THEN a[i] ELSE Part(g)[i - L]
  <2>1. Part(g) \in Seq(Sym)
    BY <1>2
  <2> QED BY <2>1, ConcatProperties
<1>6. A \o Part(u) = C \o Part(v)
  OBVIOUS
<1> HIDE DEF A, C
<1>7. \A i \in 1 .. Len(A) + U : (A \o Part(u))[i] = IF i <= Len(A) THEN A[i] ELSE Part(u)[i - Len(A)]
  <2>1. A \in Seq(Sym) /\ Part(u) \in Seq(Sym)
    BY <1>2, <1>4
  <2> QED BY <2>1, ConcatProperties
<1>8. \A i \in 1 .. Len(C) + V : (C \o Part(v))[i] = IF i <= Len(C) THEN C[i] ELSE Part(v)[i - Len(C)]
  <2>1. C \in Seq(Sym) /\ Part(v) \in Seq(Sym)
    BY <1>2, <1>4
  <2> QED BY <2>1, ConcatProperties
<1>9. \A i \in 1 .. G : Part(g)[i + 1] = g[i] /\ g[i] # Bar
  BY PartProperties DEF BarFree
<1>10. Len(A) = L + (H + 1) /\ Len(C) = L + (G + 1)
  BY <1>2, <1>4
<1> HIDE DEF L, H, G, U, V
<1>11. /\ k \in 1 .. Len(A) + U /\ ~(k <= Len(A)) /\ k - Len(A) = 1
       /\ k \in 1 .. Len(C) + V /\ k <= Len(C)
       /\ k \in 1 .. L + (G + 1) /\ ~(k <= L) /\ k - L = (H + 1) + 1
       /\ H + 1 \in 1 .. G
  BY <1>1, <1>3, <1>10
<1> HIDE DEF k
<1>12. (A \o Part(u))[k] = Bar
  BY <1>2, <1>7, <1>11
<1>13. (C \o Part(v))[k] = C[k]
  BY <1>8, <1>11
<1>14. C[k] = Part(g)[(H + 1) + 1]
  BY <1>2, <1>5, <1>11
<1>15. Part(g)[(H + 1) + 1] # Bar
  BY <1>9, <1>11
<1> QED BY <1>6, <1>12, <1>13, <1>14, <1>15

Behind(b, s, t) == b \o Part(s) \o t
Inside(b, s, t) == b \o Part(s \o t)

\* What is put behind a last part is put into it.
LEMMA PartOfConcat ==
  ASSUME NEW Sym, Bar \in Sym, NEW b \in Seq(Sym), NEW s \in Seq(Sym), NEW t \in Seq(Sym)
  PROVE  Behind(b, s, t) = Inside(b, s, t)
<1> DEFINE B == <<Bar>>
           p == B \o s
<1>1. B \in Seq(Sym)
  OBVIOUS
<1> HIDE DEF B
<1>2. p \in Seq(Sym)
  BY <1>1, ConcatProperties
<1>3. p \o t = B \o (s \o t)
  BY <1>1, ConcatAssociative
<1> HIDE DEF p
<1>4. (b \o p) \o t = b \o (p \o t)
  BY <1>2, ConcatAssociative
<1>5. p = Part(s) /\ Part(s \o t) = B \o (s \o t)
  BY DEF p, Part, B
<1> QED BY <1>3, <1>4, <1>5 DEF Behind, Inside

Headed(a, h, u) == a \o Part(h) \o Part(u)

\* First parts of one length.
LEMMA SplitFixedFirstPart ==
  ASSUME NEW Sym, Bar \in Sym, NEW a \in Seq(Sym), NEW h \in Seq(Sym), NEW g \in Seq(Sym), Len(h) = Len(g),
         NEW u \in Seq(Sym), NEW v \in Seq(Sym), Headed(a, h, u) = Headed(a, g, v)
  PROVE  h = g /\ u = v
<1> DEFINE A == a \o Part(h)
           C == a \o Part(g)
<1>1. /\ Part(h) \in Seq(Sym) /\ Len(Part(h)) = Len(h) + 1
      /\ Part(g) \in Seq(Sym) /\ Len(Part(g)) = Len(g) + 1
      /\ Part(u) \in Seq(Sym) /\ Part(v) \in Seq(Sym)
  BY PartProperties
<1>2. A \in Seq(Sym) /\ C \in Seq(Sym) /\ Len(A) = Len(C)
  <2>1. /\ A \in Seq(Sym) /\ Len(A) = Len(a) + Len(Part(h))
        /\ C \in Seq(Sym) /\ Len(C) = Len(a) + Len(Part(g))
    <3>1. Part(h) \in Seq(Sym) /\ Part(g) \in Seq(Sym)
      BY <1>1
    <3> QED BY <3>1, ConcatProperties
  <2>2. Len(Part(h)) = Len(Part(g))
    BY <1>1
  <2> HIDE DEF A, C
  <2> QED BY <2>1, <2>2
<1>3. A \o Part(u) = C \o Part(v)
  BY DEF Headed
<1>4. A = C => Part(h) = Part(g)
  BY <1>1, SplitPrefix
<1> HIDE DEF A, C
<1>5. A = C /\ Part(u) = Part(v)
  BY <1>1, <1>2, <1>3, SplitPrefix
<1> QED BY <1>4, <1>5, PartInjective

\* First parts without separators, before the next separator.
LEMMA SplitFirstPart ==
  ASSUME NEW Sym, Bar \in Sym, NEW a \in Seq(Sym), NEW h \in Seq(Sym), NEW g \in Seq(Sym),
         BarFree(h), BarFree(g), NEW u \in Seq(Sym), NEW v \in Seq(Sym),
         Headed(a, h, u) = Headed(a, g, v)
  PROVE  h = g /\ u = v
<1>1. ~(Len(h) < Len(g))
  BY FirstPartNotLonger DEF Headed
<1>2. ~(Len(g) < Len(h))
  BY FirstPartNotLonger DEF Headed
<1>3. Len(h) = Len(g)
  <2>1. Len(h) \in Nat /\ Len(g) \in Nat
    BY LenProperties
  <2> QED BY <1>1, <1>2, <2>1
<1> QED BY <1>3, SplitFixedFirstPart

\* An identifier tells host and key: a host holds no separator.
LEMMA ChipIdTells ==
  ASSUME NEW h1 \in Seq(NoBar), NEW h2 \in Seq(NoBar),
         NEW K1 \in Seq(Byte), NEW K2 \in Seq(Byte),
         ChipIdInput(h1, K1) = ChipIdInput(h2, K2)
  PROVE  h1 = h2 /\ K1 = K2
<1>1. PICK Sym : /\ Bar \in Sym /\ {"ctrl-puf-id"} \subseteq Sym
                 /\ \A s \in Seq(Byte) : s \in Seq(Sym)
                 /\ \A s \in Seq(NoBar) : s \in Seq(Sym) /\ BarFree(s)
  BY Alphabet
<1> DEFINE L == <<"ctrl-puf-id">>
<1>2. L \in Seq(Sym)
  BY <1>1
<1> HIDE DEF L
<1>3. Headed(L, h1, K1) = Headed(L, h2, K2)
  BY DEF ChipIdInput, L, Headed
<1>4. /\ K1 \in Seq(Sym) /\ K2 \in Seq(Sym) /\ Bar \in Sym
      /\ h1 \in Seq(Sym) /\ BarFree(h1) /\ h2 \in Seq(Sym) /\ BarFree(h2)
  BY <1>1
<1> QED BY <1>2, <1>3, <1>4, SplitFirstPart, SMTT(60)

\* A domain of a keyed plan holds no separator and keys are of one length, so that no two
\* domains, keys or nonces share a stream.
LEMMA StreamTells ==
  ASSUME NEW D1 \in Seq(NoBar), NEW D2 \in Seq(NoBar),
         NEW K1 \in Seq(Byte), NEW K2 \in Seq(Byte), Len(K1) = Len(K2),
         NEW n1 \in Seq(Byte), NEW n2 \in Seq(Byte),
         StreamInput(D1, K1, n1) = StreamInput(D2, K2, n2)
  PROVE  D1 = D2 /\ K1 = K2 /\ n1 = n2
<1>1. PICK Sym : /\ Bar \in Sym /\ {"FabricCrypt-v2-plan"} \subseteq Sym
                 /\ \A s \in Seq(Byte) : s \in Seq(Sym)
                 /\ \A s \in Seq(NoBar) : s \in Seq(Sym) /\ BarFree(s)
  BY Alphabet
<1> DEFINE L == <<"FabricCrypt-v2-plan">>
           u == K1 \o Part(n1)
           v == K2 \o Part(n2)
           A == L \o Part(D1)
           C == L \o Part(D2)
<1>2. L \in Seq(Sym)
  BY <1>1
<1> HIDE DEF L
<1>3. A \o Part(K1) \o Part(n1) = C \o Part(K2) \o Part(n2)
  BY DEF StreamInput, L
<1>4. /\ K1 \in Seq(Sym) /\ K2 \in Seq(Sym) /\ Bar \in Sym /\ n1 \in Seq(Sym) /\ n2 \in Seq(Sym)
      /\ D1 \in Seq(Sym) /\ BarFree(D1) /\ D2 \in Seq(Sym) /\ BarFree(D2)
  BY <1>1
<1>5. /\ Part(D1) \in Seq(Sym) /\ Part(D2) \in Seq(Sym) /\ Part(K1) \in Seq(Sym) /\ Part(K2) \in Seq(Sym)
      /\ Part(n1) \in Seq(Sym) /\ Part(n2) \in Seq(Sym)
  BY <1>4, PartProperties
<1>6. A \in Seq(Sym) /\ C \in Seq(Sym)
  BY <1>2, <1>5, ConcatProperties
<1>7. u \in Seq(Sym) /\ v \in Seq(Sym)
  BY <1>4, <1>5, ConcatProperties
<1>8. /\ A \o Part(K1) \o Part(n1) = A \o Part(u)
      /\ C \o Part(K2) \o Part(n2) = C \o Part(v)
  <2> DEFINE N1 == Part(n1)
             N2 == Part(n2)
  <2>1. N1 \in Seq(Sym) /\ N2 \in Seq(Sym)
    BY <1>5
  <2>2. Bar \in Sym /\ K1 \in Seq(Sym) /\ K2 \in Seq(Sym) /\ A \in Seq(Sym) /\ C \in Seq(Sym)
    BY <1>4, <1>6
  <2> HIDE DEF A, C, N1, N2
  <2>3. Behind(A, K1, N1) = Inside(A, K1, N1)
    BY <2>1, <2>2, PartOfConcat
  <2>4. Behind(C, K2, N2) = Inside(C, K2, N2)
    BY <2>1, <2>2, PartOfConcat
  <2> QED BY <2>3, <2>4 DEF N1, N2, Behind, Inside
<1>9. u = v => K1 = K2 /\ Part(n1) = Part(n2)
  BY <1>4, <1>5, SplitPrefix
<1>10. A \o Part(u) = C \o Part(v)
  BY <1>3, <1>8
<1> HIDE DEF u, v
<1>11. Headed(L, D1, u) = Headed(L, D2, v)
  BY <1>10 DEF Headed
<1> HIDE DEF A, C
<1>12. D1 = D2 /\ u = v
  BY <1>2, <1>4, <1>7, <1>11, SplitFirstPart, SMTT(60)
<1> QED BY <1>4, <1>9, <1>12, PartInjective

\* What is put behind a string leaves its first symbol.
LEMMA FirstSymbol ==
  ASSUME NEW Sym, NEW s \in Seq(Sym), NEW t \in Seq(Sym), Len(s) # 0
  PROVE  s \o t \in Seq(Sym) /\ Len(s \o t) # 0 /\ (s \o t)[1] = s[1]
<1>1. /\ s \o t \in Seq(Sym) /\ Len(s \o t) = Len(s) + Len(t)
      /\ \A i \in 1 .. Len(s) + Len(t) : (s \o t)[i] = IF i <= Len(s) THEN s[i] ELSE t[i - Len(s)]
  BY ConcatProperties
<1>2. Len(s) \in Nat \ {0} /\ Len(t) \in Nat
  BY LenProperties
<1> QED BY <1>1, <1>2

LEMMA FramedFirst ==
  ASSUME NEW Sym, Bar \in Sym, NEW a \in Seq(Sym), Len(a) # 0
  PROVE  \A n, d, h \in Seq(Sym) : Framed(a, n, d, h)[1] = a[1]
<1> TAKE n, d, h \in Seq(Sym)
<1> DEFINE A == a \o Part(n)
           AA == A \o Part(d)
<1>1. Part(n) \in Seq(Sym) /\ Part(d) \in Seq(Sym) /\ Part(h) \in Seq(Sym)
  BY PartProperties
<1>2. A \in Seq(Sym) /\ Len(A) # 0 /\ A[1] = a[1]
  BY <1>1, FirstSymbol
<1> HIDE DEF A
<1>3. AA \in Seq(Sym) /\ Len(AA) # 0 /\ AA[1] = A[1]
  BY <1>1, <1>2, FirstSymbol
<1> HIDE DEF AA
<1>4. (AA \o Part(h))[1] = AA[1]
  BY <1>1, <1>3, FirstSymbol
<1> QED BY <1>2, <1>3, <1>4 DEF Framed, AA, A

\* No string of one layer is a string of the other: the labels differ.
LEMMA LayersTellApart ==
  ASSUME NEW r \in Seq(Byte),
         NEW n1 \in Seq(Byte), NEW d1 \in Seq(Byte), NEW h1 \in Seq(Byte),
         NEW n2 \in Seq(Byte), NEW d2 \in Seq(Byte), NEW h2 \in Seq(Byte)
  PROVE  WrapResponseInput(r, n1, d1, h1) # WrapChallengeInput(n2, d2, h2)
<1>1. PICK Sym : /\ Bar \in Sym /\ {"ctrl-puf-in", "ctrl-puf-out"} \subseteq Sym
                 /\ \A s \in Seq(Byte) : s \in Seq(Sym)
  BY Alphabet
<1> DEFINE I == <<"ctrl-puf-in">>
           O == <<"ctrl-puf-out">>
           A == O \o Part(r)
<1>2. /\ I \in Seq(Sym) /\ Len(I) # 0 /\ I[1] = "ctrl-puf-in"
      /\ O \in Seq(Sym) /\ Len(O) # 0 /\ O[1] = "ctrl-puf-out"
  BY <1>1
<1> HIDE DEF I, O
<1>3. /\ r \in Seq(Sym)
      /\ n1 \in Seq(Sym) /\ d1 \in Seq(Sym) /\ h1 \in Seq(Sym)
      /\ n2 \in Seq(Sym) /\ d2 \in Seq(Sym) /\ h2 \in Seq(Sym)
  BY <1>1
<1>4. A \in Seq(Sym) /\ Len(A) # 0 /\ A[1] = "ctrl-puf-out"
  <2>1. Part(r) \in Seq(Sym)
    BY <1>1, <1>3, PartProperties
  <2> QED BY <1>2, <2>1, FirstSymbol
<1> HIDE DEF A
<1>5. Bar \in Sym
  BY <1>1
<1>6. \A n, d, h \in Seq(Sym) : Framed(A, n, d, h)[1] = A[1]
  BY <1>5, <1>4, FramedFirst
<1>7. \A n, d, h \in Seq(Sym) : Framed(I, n, d, h)[1] = I[1]
  BY <1>5, <1>2, FramedFirst
<1>8. Framed(A, n1, d1, h1)[1] = A[1]
  BY <1>3, <1>6
<1>9. Framed(I, n2, d2, h2)[1] = I[1]
  BY <1>3, <1>7
<1>10. Framed(A, n1, d1, h1) # Framed(I, n2, d2, h2)
  BY <1>2, <1>4, <1>8, <1>9
<1> QED BY <1>10 DEF Framed, A, I, O, WrapResponseInput, WrapChallengeInput
-----------------------------------------------------------------------------
\* The controlled PUF.

\* The query of the chip with key K, identified by the table t.
Asked(t, host, K, nonce, raw) ==
  [host |-> host, K |-> K, nonce |-> nonce, raw |-> raw,
   inner |-> WrapChallengeInput(nonce, t[ChipIdInput(host, K)], host),
   wrapped |-> WrapResponseInput(raw, nonce, t[ChipIdInput(host, K)], host)]

IdsInv == /\ \A i \in DOMAIN ids : ids[i] \in Digests
          /\ \A i, j \in DOMAIN ids : ids[i] = ids[j] => i = j

QueriesInv ==
  \A q \in queries : \E host \in Hosts, K \in Keys, nonce \in Nonces, raw \in RawVectors :
    ChipIdInput(host, K) \in DOMAIN ids /\ q = Asked(ids, host, K, nonce, raw)

LEMMA PufInitial == PufInit => IdsInv /\ QueriesInv
<1> SUFFICES ASSUME PufInit PROVE IdsInv /\ QueriesInv
  OBVIOUS
<1>1. DOMAIN ids = {} /\ queries = {}
  BY DEF PufInit
<1> QED BY <1>1 DEF IdsInv, QueriesInv

\* A query leaves the identifiers that are known as they are.
LEMMA PufStep == IdsInv /\ QueriesInv /\ [PufNext]_pufVars => IdsInv' /\ QueriesInv'
<1> SUFFICES ASSUME IdsInv, QueriesInv, [PufNext]_pufVars PROVE IdsInv' /\ QueriesInv'
  OBVIOUS
<1>1. CASE UNCHANGED pufVars
  BY <1>1 DEF pufVars, IdsInv, QueriesInv
<1>2. CASE PufNext
  <2>1. PICK host \in Hosts, K \in Keys, nonce \in Nonces : Query(host, K, nonce)
    BY <1>2 DEF PufNext
  <2> DEFINE input == ChipIdInput(host, K)
  <2>2. PICK d \in Drawn(ids, input), raw \in RawVectors :
          /\ ids' = Recorded(ids, input, d)
          /\ queries' = queries \cup
               {[host |-> host, K |-> K, nonce |-> nonce, raw |-> raw,
                 inner |-> WrapChallengeInput(nonce, d, host),
                 wrapped |-> WrapResponseInput(raw, nonce, d, host)]}
    BY <2>1 DEF Query
  <2>3. /\ DOMAIN ids' = DOMAIN ids \cup {input}
        /\ ids'[input] = d
        /\ \A i \in DOMAIN ids : ids'[i] = IF i = input THEN d ELSE ids[i]
    BY <2>2 DEF Recorded
  <2>4. \A i \in DOMAIN ids : ids'[i] = ids[i]
    BY <2>2, <2>3 DEF Drawn
  <2>5. d \in Digests /\ (input \notin DOMAIN ids => \A i \in DOMAIN ids : ids[i] # d)
    BY <2>2 DEF Drawn, IdsInv
  <2>6. IdsInv'
    BY <2>3, <2>4, <2>5 DEF IdsInv
  <2>7. QueriesInv'
    <3>1. ASSUME NEW q \in queries'
          PROVE  \E h \in Hosts, k \in Keys, n \in Nonces, r \in RawVectors :
                   ChipIdInput(h, k) \in DOMAIN ids' /\ q = Asked(ids', h, k, n, r)
      <4>1. CASE q \in queries
        <5>1. PICK h \in Hosts, k \in Keys, n \in Nonces, r \in RawVectors :
                ChipIdInput(h, k) \in DOMAIN ids /\ q = Asked(ids, h, k, n, r)
          BY <4>1 DEF QueriesInv
        <5>2. ids'[ChipIdInput(h, k)] = ids[ChipIdInput(h, k)]
          BY <5>1, <2>4
        <5>3. Asked(ids', h, k, n, r) = Asked(ids, h, k, n, r)
          BY <5>2 DEF Asked
        <5> QED BY <5>1, <5>3, <2>3
      <4>2. CASE q = [host |-> host, K |-> K, nonce |-> nonce, raw |-> raw,
                      inner |-> WrapChallengeInput(nonce, d, host),
                      wrapped |-> WrapResponseInput(raw, nonce, d, host)]
        <5>1. q = Asked(ids', host, K, nonce, raw)
          BY <4>2, <2>3 DEF Asked
        <5> QED BY <5>1, <2>1, <2>2, <2>3
      <4> QED BY <4>1, <4>2, <2>2
    <3> QED BY <3>1 DEF QueriesInv
  <2> QED BY <2>6, <2>7
<1> QED BY <1>1, <1>2

\* No answer of one query is the inner challenge of another.
LEMMA LayersApart ==
  ASSUME IdsInv, QueriesInv, NEW p \in queries, NEW q \in queries
  PROVE  p.wrapped # q.inner
<1>1. PICK h1 \in Hosts, K1 \in Keys, n1 \in Nonces, r1 \in RawVectors :
        ChipIdInput(h1, K1) \in DOMAIN ids /\ p = Asked(ids, h1, K1, n1, r1)
  BY DEF QueriesInv
<1>2. PICK h2 \in Hosts, K2 \in Keys, n2 \in Nonces, r2 \in RawVectors :
        ChipIdInput(h2, K2) \in DOMAIN ids /\ q = Asked(ids, h2, K2, n2, r2)
  BY DEF QueriesInv
<1> DEFINE d1 == ids[ChipIdInput(h1, K1)]
           d2 == ids[ChipIdInput(h2, K2)]
<1>3. d1 \in Seq(Byte) /\ d2 \in Seq(Byte)
  BY <1>1, <1>2, IdAssumption DEF IdsInv
<1>4. h1 \in Seq(Byte) /\ h2 \in Seq(Byte)
  BY HostsAssumption, SeqMonotonic DEF NoBar
<1>5. n1 \in Seq(Byte) /\ n2 \in Seq(Byte) /\ r1 \in Seq(Byte)
  BY NoncesAssumption, RawAssumption
<1>6. p.wrapped = WrapResponseInput(r1, n1, d1, h1) /\ q.inner = WrapChallengeInput(n2, d2, h2)
  BY <1>1, <1>2 DEF Asked
<1> HIDE DEF d1, d2
<1> QED BY <1>3, <1>4, <1>5, <1>6, LayersTellApart

(* Two answers that agree were given by one chip, to one challenge and for *)
(* one raw response, inner challenges that agree come from one challenge   *)
(* to one chip, and no answer is an inner challenge, whatever keys, nonces *)
(* and hosts there are.                                                    *)
THEOREM ToldApart == PufSpec => []QueriesToldApart
<1>1. IdsInv /\ QueriesInv => QueriesToldApart
  <2> SUFFICES ASSUME IdsInv, QueriesInv, NEW p \in queries, NEW q \in queries
               PROVE  /\ p.wrapped = q.wrapped => p = q
                      /\ p.inner = q.inner => p.host = q.host /\ p.K = q.K /\ p.nonce = q.nonce
                      /\ p.wrapped # q.inner
    BY DEF QueriesToldApart
  <2>1. PICK h1 \in Hosts, K1 \in Keys, n1 \in Nonces, r1 \in RawVectors :
          ChipIdInput(h1, K1) \in DOMAIN ids /\ p = Asked(ids, h1, K1, n1, r1)
    BY DEF QueriesInv
  <2>2. PICK h2 \in Hosts, K2 \in Keys, n2 \in Nonces, r2 \in RawVectors :
          ChipIdInput(h2, K2) \in DOMAIN ids /\ q = Asked(ids, h2, K2, n2, r2)
    BY DEF QueriesInv
  <2> DEFINE d1 == ids[ChipIdInput(h1, K1)]
             d2 == ids[ChipIdInput(h2, K2)]
  <2>3. d1 \in Digests /\ d2 \in Digests
    BY <2>1, <2>2 DEF IdsInv
  <2>4. /\ d1 \in Seq(Byte) /\ d2 \in Seq(Byte) /\ Len(d1) = Len(d2)
        /\ r1 \in Seq(Byte) /\ r2 \in Seq(Byte) /\ Len(r1) = Len(r2)
    BY <2>3, IdAssumption, RawAssumption
  <2>5. /\ n1 \in Seq(Byte) /\ n2 \in Seq(Byte) /\ K1 \in Seq(Byte) /\ K2 \in Seq(Byte)
        /\ h1 \in Seq(NoBar) /\ h2 \in Seq(NoBar)
    BY NoncesAssumption, KeysAssumption, HostsAssumption DEF NoBar
  <2>6. d1 = d2 => ChipIdInput(h1, K1) = ChipIdInput(h2, K2)
    BY <2>1, <2>2 DEF IdsInv
  <2>7. d1 = d2 => h1 = h2 /\ K1 = K2
    BY <2>5, <2>6, ChipIdTells
  <2>8. /\ p.host = h1 /\ p.K = K1 /\ p.nonce = n1
        /\ p.inner = WrapChallengeInput(n1, d1, h1) /\ p.wrapped = WrapResponseInput(r1, n1, d1, h1)
        /\ q.host = h2 /\ q.K = K2 /\ q.nonce = n2
        /\ q.inner = WrapChallengeInput(n2, d2, h2) /\ q.wrapped = WrapResponseInput(r2, n2, d2, h2)
    BY <2>1, <2>2 DEF Asked
  <2> HIDE DEF d1, d2
  <2>9. WrapChallengeInput(n1, d1, h1) = WrapChallengeInput(n2, d2, h2) => n1 = n2 /\ d1 = d2
    BY <2>4, <2>5, WrapChallengeTells
  <2>10. WrapResponseInput(r1, n1, d1, h1) = WrapResponseInput(r2, n2, d2, h2)
         => r1 = r2 /\ n1 = n2 /\ d1 = d2
    BY <2>4, <2>5, WrapResponseTells
  <2>11. /\ p.wrapped = q.wrapped => p = q
         /\ p.inner = q.inner => p.host = q.host /\ p.K = q.K /\ p.nonce = q.nonce
    BY <2>1, <2>2, <2>7, <2>8, <2>9, <2>10
  <2> QED BY <2>11, LayersApart
<1> QED BY <1>1, PufInitial, PufStep, PTL DEF PufSpec
-----------------------------------------------------------------------------
\* The strings of the inference binding.

LEMMA Singleton ==
  ASSUME NEW e, NEW f, <<e>> = <<f>>
  PROVE  e = f
OBVIOUS

\* A commitment tells its random and the array it commits to.
LEMMA CommitTells ==
  ASSUME NEW r1 \in Nat, NEW r2 \in Nat, NEW S1 \in Seq(Numbers), NEW S2 \in Seq(Numbers),
         CommitChipSigInput(<<r1>>, S1) = CommitChipSigInput(<<r2>>, S2)
  PROVE  r1 = r2 /\ S1 = S2
<1>1. PICK Sym : {"chip-sig-com-v1", Bar} \cup Nat \cup Numbers \subseteq Sym
  OBVIOUS
<1>2. PICK R1, R2, L : R1 = <<r1>> /\ R2 = <<r2>> /\ L = <<"chip-sig-com-v1">>
  OBVIOUS
<1>3. /\ Bar \in Sym /\ L \in Seq(Sym)
      /\ R1 \in Seq(Sym) /\ R2 \in Seq(Sym) /\ Len(R1) = Len(R2)
  <2>1. Bar \in Sym /\ r1 \in Sym /\ r2 \in Sym /\ "chip-sig-com-v1" \in Sym
    BY <1>1
  <2> QED BY <1>2, <2>1
<1>4. S1 \in Seq(Sym) /\ S2 \in Seq(Sym)
  BY <1>1, SeqMonotonic
<1>5. Headed(L, R1, S1) = Headed(L, R2, S2)
  BY <1>2 DEF CommitChipSigInput, Headed
<1>6. R1 = R2 /\ S1 = S2
  BY <1>3, <1>4, <1>5, SplitFixedFirstPart, SMTT(60)
<1> QED BY <1>2, <1>6, Singleton

\* The commitment to samples tells the nonce, of one length, and the samples.
LEMMA CommitSamplesTells ==
  ASSUME NEW n1 \in Seq(Byte), NEW n2 \in Seq(Byte), Len(n1) = Len(n2),
         NEW S1 \in Seq(Byte), NEW S2 \in Seq(Byte),
         CommitSamplesInput(n1, S1) = CommitSamplesInput(n2, S2)
  PROVE  n1 = n2 /\ S1 = S2
<1>1. PICK Sym : /\ Bar \in Sym /\ {"commit-S"} \subseteq Sym
                 /\ \A s \in Seq(Byte) : s \in Seq(Sym)
  BY Alphabet
<1>2. PICK L : L = <<"commit-S">>
  OBVIOUS
<1>3. /\ Bar \in Sym /\ L \in Seq(Sym)
      /\ n1 \in Seq(Sym) /\ n2 \in Seq(Sym) /\ S1 \in Seq(Sym) /\ S2 \in Seq(Sym)
  BY <1>1, <1>2
<1>4. Headed(L, n1, S1) = Headed(L, n2, S2)
  BY <1>2 DEF CommitSamplesInput, Headed
<1> QED BY <1>3, <1>4, SplitFixedFirstPart, SMTT(60)

\* A key is hashed from digits, of one length, and the host: it tells both.
LEMMA KchipTells ==
  ASSUME NEW g1 \in Seq(Byte), NEW g2 \in Seq(Byte), Len(g1) = Len(g2),
         NEW h1 \in Seq(Byte), NEW h2 \in Seq(Byte),
         KchipInput(g1, h1) = KchipInput(g2, h2)
  PROVE  g1 = g2 /\ h1 = h2
<1>1. PICK Sym : /\ Bar \in Sym /\ {"FabricCrypt-K_chip-v1"} \subseteq Sym
                 /\ \A s \in Seq(Byte) : s \in Seq(Sym)
  BY Alphabet
<1> DEFINE L == <<"FabricCrypt-K_chip-v1">>
           A == L \o g1
           C == L \o g2
<1>2. L \in Seq(Sym)
  BY <1>1
<1> HIDE DEF L
<1>3. A \o h1 = C \o h2
  BY DEF KchipInput, L
<1>4. g1 \in Seq(Sym) /\ g2 \in Seq(Sym) /\ h1 \in Seq(Sym) /\ h2 \in Seq(Sym)
  BY <1>1
<1>5. /\ A \in Seq(Sym) /\ Len(A) = Len(L) + Len(g1)
      /\ C \in Seq(Sym) /\ Len(C) = Len(L) + Len(g2)
  BY <1>2, <1>4, ConcatProperties
<1>6. A = C => g1 = g2
  BY <1>2, <1>4, SplitPrefix
<1> HIDE DEF A, C
<1>7. A = C /\ h1 = h2
  BY <1>3, <1>4, <1>5, SplitPrefix
<1> QED BY <1>6, <1>7

\* The commitment to a program tells the program.
LEMMA ModelHashTells ==
  ASSUME NEW c1 \in Seq(Byte), NEW c2 \in Seq(Byte), ModelHashInput(c1) = ModelHashInput(c2)
  PROVE  c1 = c2
<1>1. PICK Sym : /\ Bar \in Sym /\ {"prog-hash-v1"} \subseteq Sym
                 /\ \A s \in Seq(Byte) : s \in Seq(Sym)
  BY Alphabet
<1> DEFINE L == <<"prog-hash-v1">>
<1>2. L \in Seq(Sym)
  BY <1>1
<1> HIDE DEF L
<1>3. L \o Part(c1) = L \o Part(c2)
  BY DEF ModelHashInput, L
<1>4. Bar \in Sym /\ c1 \in Seq(Sym) /\ c2 \in Seq(Sym)
  BY <1>1
<1>5. Part(c1) \in Seq(Sym) /\ Part(c2) \in Seq(Sym)
  BY <1>4, PartProperties
<1>6. Part(c1) = Part(c2)
  BY <1>2, <1>3, <1>5, SplitPrefix
<1> QED BY <1>4, <1>6, PartInjective

Joined(m, x, y, g) == m \o x \o y \o g

\* Three parts of a known length tell a fourth between them.
LEMMA SplitEnds ==
  ASSUME NEW Sym, NEW m \in Seq(Sym), NEW n \in Seq(Sym), Len(m) = Len(n),
         NEW x \in Seq(Sym), NEW z \in Seq(Sym), Len(x) = Len(z),
         NEW y \in Seq(Sym), NEW w \in Seq(Sym),
         NEW g \in Seq(Sym), NEW h \in Seq(Sym), Len(g) = Len(h),
         Joined(m, x, y, g) = Joined(n, z, w, h)
  PROVE  m = n /\ x = z /\ y = w /\ g = h
<1> DEFINE A == m \o x
           C == n \o z
           AA == A \o y
           CC == C \o w
<1>1. A \in Seq(Sym) /\ Len(A) = Len(m) + Len(x) /\ C \in Seq(Sym) /\ Len(C) = Len(n) + Len(z)
  BY ConcatProperties
<1>2. AA \o g = CC \o h
  BY DEF Joined
<1>3. A = C => m = n /\ x = z
  BY SplitPrefix
<1> HIDE DEF A, C
<1>4. Len(A) = Len(C)
  BY <1>1
<1>5. AA \in Seq(Sym) /\ CC \in Seq(Sym)
  BY <1>1, ConcatProperties
<1>6. AA = CC => A = C /\ y = w
  BY <1>1, <1>4, SplitPrefix
<1> HIDE DEF AA, CC
<1>7. AA = CC /\ g = h
  <2>1. \A p, q \in Seq(Sym) : p \o g = q \o h => p = q /\ g = h
    BY SplitSuffix
  <2> QED BY <1>2, <1>5, <2>1, Zenon
<1> QED BY <1>3, <1>6, <1>7

\* A tag has no separators and tells its four parts: the inputs have one length.
LEMMA TagTells ==
  ASSUME NEW m1, NEW m2, NEW g1, NEW g2,
         NEW x1 \in Seq(Numbers), NEW x2 \in Seq(Numbers), Len(x1) = Len(x2),
         NEW y1 \in Seq(Numbers), NEW y2 \in Seq(Numbers),
         TagInput(m1, x1, y1, g1) = TagInput(m2, x2, y2, g2)
  PROVE  m1 = m2 /\ x1 = x2 /\ y1 = y2 /\ g1 = g2
<1>1. PICK Sym : {m1, m2, g1, g2} \cup Numbers \subseteq Sym
  OBVIOUS
<1>2. x1 \in Seq(Sym) /\ x2 \in Seq(Sym) /\ y1 \in Seq(Sym) /\ y2 \in Seq(Sym)
  BY <1>1, SeqMonotonic
<1>3. PICK M1, M2, G1, G2 : M1 = <<m1>> /\ M2 = <<m2>> /\ G1 = <<g1>> /\ G2 = <<g2>>
  OBVIOUS
<1>4. /\ M1 \in Seq(Sym) /\ M2 \in Seq(Sym) /\ Len(M1) = Len(M2)
      /\ G1 \in Seq(Sym) /\ G2 \in Seq(Sym) /\ Len(G1) = Len(G2)
  BY <1>1, <1>3
<1>5. Joined(M1, x1, y1, G1) = Joined(M2, x2, y2, G2)
  BY <1>3 DEF TagInput, Joined
<1>6. M1 = M2 /\ x1 = x2 /\ y1 = y2 /\ G1 = G2
  BY <1>2, <1>4, <1>5, SplitEnds, SMTT(60)
<1> QED BY <1>3, <1>6, Singleton
-----------------------------------------------------------------------------
\* The inference binding.

LEMMA CastTyping ==
  ASSUME NEW a \in Seq(Numbers)
  PROVE  Cast(a) \in Seq(Numbers) /\ Len(Cast(a)) = Len(a) /\ Cast(Cast(a)) = Cast(a)
<1>1. \A i \in 1 .. Len(a) : a[i] \in Numbers
  BY ElementOfSeq
<1>2. DOMAIN a = 1 .. Len(a) /\ Len(a) \in Nat
  BY LenProperties
<1>3. Cast(a) = [i \in 1 .. Len(a) |-> Round(a[i])]
  BY <1>2 DEF Cast
<1>4. \A i \in 1 .. Len(a) : Round(a[i]) \in Numbers /\ Round(Round(a[i])) = Round(a[i])
  BY <1>1, RoundAssumption
<1>5. Cast(a) \in Seq(Numbers) /\ Len(Cast(a)) = Len(a)
  BY <1>2, <1>3, <1>4
<1>6. Cast(Cast(a)) = [i \in 1 .. Len(a) |-> Round(Cast(a)[i])]
  BY <1>2, <1>3 DEF Cast
<1>7. Cast(Cast(a)) = Cast(a)
  BY <1>3, <1>4, <1>6
<1> QED BY <1>5, <1>7

\* What the call number i of zk_prove_stub records.
Made(i, K, code, x, S) ==
  [K |-> K, code |-> code, x |-> x, S |-> S,
   bundle |-> [com_S |-> CommitChipSigInput(<<i>>, Cast(S)), prog_hash |-> ModelHashInput(code),
               y |-> Cast(Infer(code, x, S)),
               tag |-> InferenceTag(K, CommitChipSigInput(<<i>>, Cast(S)), x, Infer(code, x, S),
                                    ModelHashInput(code)),
               open_r |-> <<i>>, open_S |-> Cast(S)]]

Calls == {Made(i, K, code, x, S) : i \in Nat, K \in ChipKeys, code \in Codes, x \in Inputs, S \in Signatures}

MadeInv ==
  /\ proofs \in Seq(Calls)
  /\ \A i \in 1 .. Len(proofs) :
       \E K \in ChipKeys, code \in Codes, x \in Inputs, S \in Signatures : proofs[i] = Made(i, K, code, x, S)

VerdictInv ==
  \/ verdict.result = "none"
  \/ \E b \in Presented, K \in ChipKeys, code \in Codes, x \in Inputs :
       verdict = [bundle |-> b, K |-> K, code |-> code, x |-> x, result |-> Outcome(b, K, code, x)]

LEMMA ZkInitial == ZkInit => MadeInv /\ VerdictInv
<1> SUFFICES ASSUME ZkInit PROVE MadeInv /\ VerdictInv
  OBVIOUS
<1>1. proofs = << >> /\ verdict.result = "none"
  BY DEF ZkInit
<1>2. proofs \in Seq(Calls) /\ Len(proofs) = 0
  BY <1>1
<1> QED BY <1>1, <1>2 DEF MadeInv, VerdictInv

LEMMA ZkStep == MadeInv /\ VerdictInv /\ [ZkNext]_zkVars => MadeInv' /\ VerdictInv'
<1> SUFFICES ASSUME MadeInv, VerdictInv, [ZkNext]_zkVars PROVE MadeInv' /\ VerdictInv'
  OBVIOUS
<1>1. CASE UNCHANGED zkVars
  <2>1. MadeInv'
    BY <1>1 DEF zkVars, MadeInv
  <2>2. VerdictInv'
    BY <1>1 DEF zkVars, VerdictInv, Presented, Bundled
  <2> QED BY <2>1, <2>2
<1>2. CASE ZkNext
  <2>1. PICK K \in ChipKeys, code \in Codes, x \in Inputs :
          \/ \E S \in Signatures : ZkProve(K, code, x, S)
          \/ \E b \in Presented : ZkVerify(b, K, code, x)
    BY <1>2 DEF ZkNext
  <2>2. ASSUME NEW S \in Signatures, ZkProve(K, code, x, S) PROVE MadeInv' /\ VerdictInv'
    <3> DEFINE n == Len(proofs) + 1
               e == Made(n, K, code, x, S)
    <3>1. proofs' = Append(proofs, e) /\ verdict' = verdict /\ verdict.result = "none"
      BY <2>2 DEF ZkProve, Made, Sent
    <3>2. n \in Nat
      BY LenProperties DEF MadeInv
    <3>3. e \in Calls
      BY <3>2, <2>1 DEF Calls
    <3> HIDE DEF e
    <3>4. /\ proofs' \in Seq(Calls) /\ Len(proofs') = Len(proofs) + 1
          /\ \A i \in 1 .. Len(proofs) : proofs'[i] = proofs[i]
          /\ proofs'[Len(proofs) + 1] = e
      BY <3>1, <3>3, AppendProperties DEF MadeInv
    <3>5. ASSUME NEW i \in 1 .. Len(proofs')
          PROVE  \E L \in ChipKeys, c \in Codes, z \in Inputs, R \in Signatures :
                   proofs'[i] = Made(i, L, c, z, R)
      <4>1. CASE i = n
        BY <4>1, <3>4, <2>1 DEF e
      <4>2. CASE i # n
        <5>1. i \in 1 .. Len(proofs)
          BY <4>2, <3>2, <3>4
        <5> QED BY <5>1, <3>4 DEF MadeInv
      <4> QED BY <4>1, <4>2
    <3> QED BY <3>1, <3>4, <3>5 DEF MadeInv, VerdictInv
  <2>3. ASSUME NEW b \in Presented, ZkVerify(b, K, code, x) PROVE MadeInv' /\ VerdictInv'
    <3>1. /\ proofs' = proofs
          /\ verdict' = [bundle |-> b, K |-> K, code |-> code, x |-> x, result |-> Outcome(b, K, code, x)]
      BY <2>3 DEF ZkVerify
    <3>2. MadeInv'
      BY <3>1 DEF MadeInv
    <3>3. b \in Presented'
      BY <3>1 DEF Presented, Bundled
    <3> QED BY <3>1, <3>2, <3>3, <2>1 DEF VerdictInv
  <2> QED BY <2>1, <2>2, <2>3
<1> QED BY <1>1, <1>2

\* Call number i had these arguments; its fields, their types, and that casting again is no change.
MadeBy(i, K, code, x, S) ==
  LET com == CommitChipSigInput(<<i>>, Cast(S))
      y   == Infer(code, x, S)
  IN  /\ proofs[i].K = K /\ proofs[i].code = code /\ proofs[i].x = x /\ proofs[i].S = S
      /\ proofs[i].bundle =
           [com_S |-> com, prog_hash |-> ModelHashInput(code), y |-> Cast(y),
            tag |-> InferenceTag(K, com, x, y, ModelHashInput(code)),
            open_r |-> <<i>>, open_S |-> Cast(S)]
      /\ S \in Seq(Numbers) /\ Cast(S) \in Seq(Numbers) /\ Cast(Cast(S)) = Cast(S)
      /\ y \in Seq(Numbers) /\ Cast(y) \in Seq(Numbers) /\ Cast(Cast(y)) = Cast(y)
      /\ Cast(x) \in Seq(Numbers) /\ Len(Cast(x)) = XLen

\* Every bundle was returned by a call.
LEMMA MadeFields ==
  ASSUME MadeInv, NEW i \in 1 .. Len(proofs)
  PROVE  \E K \in ChipKeys, code \in Codes, x \in Inputs, S \in Signatures :
           MadeBy(i, K, code, x, S)
<1>1. PICK K \in ChipKeys, code \in Codes, x \in Inputs, S \in Signatures :
        proofs[i] = Made(i, K, code, x, S)
  BY DEF MadeInv
<1>2. S \in Seq(Numbers) /\ x \in Seq(Numbers) /\ Len(x) = XLen /\ Infer(code, x, S) \in Seq(Numbers)
  BY InputsAssumption, SignaturesAssumption, InferAssumption
<1>3. /\ Cast(S) \in Seq(Numbers) /\ Cast(Cast(S)) = Cast(S)
      /\ Cast(x) \in Seq(Numbers) /\ Len(Cast(x)) = XLen
  BY <1>2, CastTyping
<1>4. Cast(Infer(code, x, S)) \in Seq(Numbers) /\ Cast(Cast(Infer(code, x, S))) = Cast(Infer(code, x, S))
  BY <1>2, CastTyping
<1>5. /\ proofs[i].K = K /\ proofs[i].code = code /\ proofs[i].x = x /\ proofs[i].S = S
      /\ proofs[i].bundle =
           [com_S |-> CommitChipSigInput(<<i>>, Cast(S)), prog_hash |-> ModelHashInput(code),
            y |-> Cast(Infer(code, x, S)),
            tag |-> InferenceTag(K, CommitChipSigInput(<<i>>, Cast(S)), x, Infer(code, x, S),
                                 ModelHashInput(code)),
            open_r |-> <<i>>, open_S |-> Cast(S)]
  BY <1>1 DEF Made
<1> QED BY <1>1, <1>2, <1>3, <1>4, <1>5 DEF MadeBy

\* What a call sent.
LEMMA SentFields ==
  ASSUME MadeInv, NEW i \in 1 .. Len(proofs)
  PROVE  /\ proofs[i].bundle.y \in Seq(Numbers)
         /\ Cast(proofs[i].bundle.y) = proofs[i].bundle.y
         /\ proofs[i].bundle.open_S \in Seq(Numbers)
         /\ Cast(proofs[i].bundle.open_S) = proofs[i].bundle.open_S
         /\ proofs[i].bundle.open_r = <<i>>
<1>1. PICK K \in ChipKeys, code \in Codes, x \in Inputs, S \in Signatures : MadeBy(i, K, code, x, S)
  BY MadeFields
<1> QED BY <1>1 DEF MadeBy

(* What is accepted is one bundle as it was made, under the verifier's key *)
(* and program and on an input with the verifier's float32, for any        *)
(* program, any arrays and any number of bundles to take fields from.      *)
THEOREM OnlyAsMade == ZkSpec => []AcceptedAsMade
<1>1. MadeInv /\ VerdictInv => AcceptedAsMade
  <2> SUFFICES ASSUME MadeInv, VerdictInv, verdict.result = "accepted"
               PROVE  \E i \in DOMAIN proofs :
                        /\ proofs[i].bundle = verdict.bundle
                        /\ proofs[i].K = verdict.K /\ proofs[i].code = verdict.code
                        /\ Cast(proofs[i].x) = Cast(verdict.x)
    BY DEF AcceptedAsMade
  <2>1. PICK b \in Presented, L \in ChipKeys, c \in Codes, z \in Inputs :
          verdict = [bundle |-> b, K |-> L, code |-> c, x |-> z, result |-> Outcome(b, L, c, z)]
    BY DEF VerdictInv
  <2>2. /\ ModelHashInput(c) = b.prog_hash
        /\ CommitChipSigInput(b.open_r, Cast(b.open_S)) = b.com_S
        /\ InferenceTag(L, b.com_S, z, b.y, ModelHashInput(c)) = b.tag
    <3>1. Outcome(b, L, c, z) = "accepted"
      BY <2>1
    <3> QED BY <3>1 DEF Outcome
  <2>3. DOMAIN proofs = 1 .. Len(proofs)
    BY LenProperties DEF MadeInv
  \* The call that made the tag, the opening's random, its array and the output.
  <2>4. PICK i, j, k, l \in 1 .. Len(proofs) :
          /\ b.tag = proofs[i].bundle.tag /\ b.open_r = proofs[j].bundle.open_r
          /\ b.open_S = proofs[k].bundle.open_S /\ b.y = proofs[l].bundle.y
    BY <2>3 DEF Presented, Bundled
  <2>5. PICK K \in ChipKeys, code \in Codes, x \in Inputs, S \in Signatures :
          MadeBy(i, K, code, x, S)
    BY MadeFields
  <2>call. /\ proofs[i].K = K /\ proofs[i].code = code /\ proofs[i].x = x
    BY <2>5 DEF MadeBy
  <2> DEFINE y == Infer(code, x, S)
             com == CommitChipSigInput(<<i>>, Cast(S))
             prog == ModelHashInput(code)
             B == proofs[i].bundle
  <2>6. b.y \in Seq(Numbers) /\ Cast(b.y) = b.y
    BY <2>4, SentFields
  <2>7. b.open_S \in Seq(Numbers) /\ Cast(b.open_S) = b.open_S
    BY <2>4, SentFields
  <2>8. b.open_r = <<j>>
    BY <2>4, SentFields
  <2>9. /\ B = [com_S |-> com, prog_hash |-> prog, y |-> Cast(y),
                tag |-> InferenceTag(K, com, x, y, prog), open_r |-> <<i>>, open_S |-> Cast(S)]
        /\ Cast(y) \in Seq(Numbers) /\ Cast(x) \in Seq(Numbers) /\ Len(Cast(x)) = XLen
        /\ Cast(S) \in Seq(Numbers)
    BY <2>5 DEF MadeBy
  <2>10. Cast(z) \in Seq(Numbers) /\ Len(Cast(z)) = XLen
    BY InputsAssumption, CastTyping
  <2> HIDE DEF y, com, prog
  <2>11. InferenceTag(K, com, x, y, prog) = InferenceTag(L, b.com_S, z, b.y, ModelHashInput(c))
    BY <2>2, <2>4, <2>9
  <2> HIDE DEF B
  <2>12. K = L /\ TagInput(com, Cast(x), Cast(y), prog) = TagInput(b.com_S, Cast(z), b.y, ModelHashInput(c))
    BY <2>6, <2>11 DEF InferenceTag
  <2>13. com = b.com_S /\ Cast(x) = Cast(z) /\ Cast(y) = b.y /\ prog = ModelHashInput(c)
    <3>1. Len(Cast(x)) = Len(Cast(z))
      BY <2>9, <2>10
    <3>2. /\ Cast(x) \in Seq(Numbers) /\ Cast(z) \in Seq(Numbers)
          /\ Cast(y) \in Seq(Numbers) /\ b.y \in Seq(Numbers)
      BY <2>6, <2>9, <2>10
    <3> QED BY <3>1, <3>2, <2>12, TagTells
  <2>14. code = c
    BY <2>13, CodesAssumption, ModelHashTells DEF prog
  <2>15. j = i /\ b.open_S = Cast(S)
    <3>1. CommitChipSigInput(<<j>>, b.open_S) = CommitChipSigInput(<<i>>, Cast(S))
      BY <2>2, <2>7, <2>8, <2>13 DEF com
    <3> QED BY <3>1, <2>7, <2>9, CommitTells
  <2>16. B = b
    <3>1. b = [com_S |-> b.com_S, prog_hash |-> b.prog_hash, y |-> b.y, tag |-> b.tag,
               open_r |-> b.open_r, open_S |-> b.open_S]
      BY DEF Presented
    <3>2. /\ com = b.com_S /\ prog = b.prog_hash /\ Cast(y) = b.y
          /\ InferenceTag(K, com, x, y, prog) = b.tag
          /\ <<i>> = b.open_r /\ Cast(S) = b.open_S
      BY <2>2, <2>8, <2>11, <2>13, <2>15
    <3> QED BY <3>1, <3>2, <2>9
  <2>17. verdict.bundle = b /\ verdict.K = L /\ verdict.code = c /\ verdict.x = z
    BY <2>1
  <2> QED BY <2>call, <2>3, <2>12, <2>13, <2>14, <2>16, <2>17 DEF B
<1> QED BY <1>1, ZkInitial, ZkStep, PTL DEF ZkSpec

(* A bundle as it was made is accepted under its own key, program and      *)
(* input if the signature was float32 and the output holds no NaN, for any *)
(* program and any arrays.                                                 *)
THEOREM HonestPasses == ZkSpec => []HonestAccepted
<1>1. MadeInv /\ VerdictInv => HonestAccepted
  <2> SUFFICES ASSUME MadeInv, VerdictInv, NEW i \in DOMAIN proofs,
                      verdict.result # "none", verdict.bundle = proofs[i].bundle,
                      verdict.K = proofs[i].K, verdict.code = proofs[i].code,
                      verdict.x = proofs[i].x, Cast(proofs[i].S) = proofs[i].S,
                      \A j \in DOMAIN Infer(proofs[i].code, proofs[i].x, proofs[i].S) :
                        Infer(proofs[i].code, proofs[i].x, proofs[i].S)[j] # NaN
               PROVE  verdict.result = "accepted"
    BY DEF HonestAccepted
  <2>1. i \in 1 .. Len(proofs)
    BY LenProperties DEF MadeInv
  <2>2. PICK K \in ChipKeys, code \in Codes, x \in Inputs, S \in Signatures : MadeBy(i, K, code, x, S)
    BY <2>1, MadeFields
  <2> DEFINE y == Infer(code, x, S)
             com == CommitChipSigInput(<<i>>, Cast(S))
             prog == ModelHashInput(code)
             b == proofs[i].bundle
  <2>3. /\ verdict.K = K /\ verdict.code = code /\ verdict.x = x
        /\ Cast(S) = S /\ \A j \in DOMAIN y : y[j] # NaN
    BY <2>2 DEF MadeBy
  <2>4. /\ b.prog_hash = prog /\ b.com_S = com /\ b.y = Cast(y)
        /\ b.tag = InferenceTag(K, com, x, y, prog) /\ b.open_r = <<i>> /\ b.open_S = S
    BY <2>2, <2>3 DEF MadeBy
  <2>5. y \in Seq(Numbers) /\ Cast(Cast(y)) = Cast(y)
    BY <2>2 DEF MadeBy
  <2>6. verdict.result = Outcome(b, K, code, x)
    <3>1. PICK c \in Presented, L \in ChipKeys, d \in Codes, z \in Inputs :
            verdict = [bundle |-> c, K |-> L, code |-> d, x |-> z, result |-> Outcome(c, L, d, z)]
      BY DEF VerdictInv
    <3>2. c = b /\ L = K /\ d = code /\ z = x /\ verdict.result = Outcome(c, L, d, z)
      BY <2>3, <3>1
    <3> QED BY <3>2
  <2> HIDE DEF b
  <2>7. AllClose(y, Cast(y))
    <3>1. DOMAIN y = 1 .. Len(y) /\ \A j \in DOMAIN y : y[j] \in Numbers \ {NaN}
      BY <2>3, <2>5, ElementOfSeq, LenProperties
    <3>2. DOMAIN Cast(y) = DOMAIN y /\ \A j \in DOMAIN y : Cast(y)[j] = Round(y[j])
      BY DEF Cast
    <3> HIDE DEF y
    <3>3. \A j \in DOMAIN y : y[j] # NaN /\ Cast(y)[j] # NaN /\ Near(y[j], Cast(y)[j])
      BY <3>1, <3>2, RoundAssumption
    <3> QED BY <3>2, <3>3 DEF AllClose
  <2>8. InferenceTag(K, com, x, Cast(y), prog) = InferenceTag(K, com, x, y, prog)
    <3> HIDE DEF y, com, prog
    <3> QED BY <2>5 DEF InferenceTag
  <2>9. CommitChipSigInput(b.open_r, Cast(b.open_S)) = b.com_S
    BY <2>3, <2>4
  <2>10. AllClose(Infer(code, x, b.open_S), b.y)
    BY <2>4, <2>7
  <2>11. InferenceTag(K, b.com_S, x, b.y, prog) = b.tag
    <3> HIDE DEF y, com, prog
    <3> QED BY <2>4, <2>8
  <2>12. prog = b.prog_hash
    BY <2>4
  <2>13. Outcome(b, K, code, x) = "accepted"
    <3> HIDE DEF y, com
    <3> QED BY <2>9, <2>10, <2>11, <2>12 DEF Outcome
  <2> QED BY <2>6, <2>13
<1> QED BY <1>1, ZkInitial, ZkStep, PTL DEF ZkSpec

(* The bound on the calls is kept: only ZkProve adds one, below the bound. *)
LEMMA ZkCallsStep ==
  ASSUME MadeInv, Len(proofs) \in 0 .. MaxProofs, [ZkNext]_zkVars
  PROVE  (Len(proofs) \in 0 .. MaxProofs)'
<1>1. CASE proofs' = proofs
  BY <1>1
<1>2. ASSUME NEW K \in ChipKeys, NEW code \in Codes, NEW x \in Inputs, NEW S \in Signatures,
             ZkProve(K, code, x, S)
      PROVE  (Len(proofs) \in 0 .. MaxProofs)'
  <2>1. PICK e : proofs' = Append(proofs, e)
    BY <1>2 DEF ZkProve
  <2>2. Len(proofs) < MaxProofs
    BY <1>2 DEF ZkProve
  <2>3. Len(proofs') = Len(proofs) + 1
    BY <2>1 DEF MadeInv
  <2> QED BY <2>2, <2>3, MaxProofsAssumption
<1>3. \/ proofs' = proofs
      \/ \E K \in ChipKeys, code \in Codes, x \in Inputs, S \in Signatures : ZkProve(K, code, x, S)
  BY DEF ZkNext, ZkVerify, zkVars
<1> QED BY <1>1, <1>2, <1>3

(* Every call is recorded with arguments it can have had, every output     *)
(* sent is a float32 array, and the verifier has no sixth answer.          *)
THEOREM BindingTypeCorrect == ZkSpec => []ZkTypeOK
<1>1. MadeInv /\ VerdictInv /\ Len(proofs) \in 0 .. MaxProofs => ZkTypeOK
  <2> SUFFICES ASSUME MadeInv, VerdictInv, Len(proofs) \in 0 .. MaxProofs PROVE ZkTypeOK
    OBVIOUS
  <2>1. ASSUME NEW i \in DOMAIN proofs
        PROVE  /\ proofs[i].K \in ChipKeys /\ proofs[i].code \in Codes
               /\ proofs[i].x \in Inputs /\ proofs[i].S \in Signatures
               /\ proofs[i].bundle.y \in Seq(Numbers)
               /\ Cast(proofs[i].bundle.y) = proofs[i].bundle.y
    <3>1. i \in 1 .. Len(proofs)
      BY LenProperties DEF MadeInv
    <3>2. PICK K \in ChipKeys, code \in Codes, x \in Inputs, S \in Signatures : MadeBy(i, K, code, x, S)
      BY <3>1, MadeFields
    <3>3. /\ proofs[i].K = K /\ proofs[i].code = code
          /\ proofs[i].x = x /\ proofs[i].S = S
      BY <3>2 DEF MadeBy
    <3> QED BY <3>1, <3>3, SentFields
  <2>2. verdict.result \in {"none", "prog_hash_mismatch", "commit_open_failed",
                            "inference_mismatch", "tag_invalid", "accepted"}
    <3>1. CASE verdict.result = "none"
      BY <3>1
    <3>2. ASSUME NEW b, NEW K, NEW code, NEW x,
                 verdict = [bundle |-> b, K |-> K, code |-> code, x |-> x,
                            result |-> Outcome(b, K, code, x)]
          PROVE  verdict.result \in {"none", "prog_hash_mismatch", "commit_open_failed",
                                     "inference_mismatch", "tag_invalid", "accepted"}
      <4>1. verdict.result = Outcome(b, K, code, x)
        BY <3>2
      <4> QED BY <4>1 DEF Outcome
    <3> QED BY <3>1, <3>2 DEF VerdictInv
  <2> QED BY <2>1, <2>2 DEF ZkTypeOK
<1>2. ZkInit => Len(proofs) \in 0 .. MaxProofs
  BY MaxProofsAssumption DEF ZkInit
<1>3. MadeInv /\ Len(proofs) \in 0 .. MaxProofs /\ [ZkNext]_zkVars => (Len(proofs) \in 0 .. MaxProofs)'
  BY ZkCallsStep
<1> QED BY <1>1, <1>2, <1>3, ZkInitial, ZkStep, PTL DEF ZkSpec
=============================================================================
