--------------------------- MODULE MCKeyLifecycle ---------------------------
(***************************************************************************)
(* KeyLifecycle for a fingerprint of one dimension in quarters of the      *)
(* quantizer's stride.  Two calibrations of a chip differ by a quarter     *)
(* stride, across the edge of a bin.                                       *)
(***************************************************************************)
EXTENDS KeyLifecycle

CONSTANTS a, b, c

Stride == 4

(* np.round(mu / stride): the nearest integer, ties to the even one *)
RoundHalfEven(m) ==
  LET q == m \div Stride
      r == m % Stride
  IN  IF 2 * r < Stride \/ (2 * r = Stride /\ q % 2 = 0) THEN q ELSE q + 1

Clip(q) == IF q > 127 THEN 127 ELSE q

MCKey(m) == <<"K", Clip(RoundHalfEven(m))>>

(* dim 31 of a NonceSig is the requested sleep, far from any jitter *)
MCReadings(p) == IF p \in V2 THEN {2, 3} ELSE {4000}
=============================================================================
