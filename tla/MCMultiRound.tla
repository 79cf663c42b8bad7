---------------------------- MODULE MCMultiRound ----------------------------
(***************************************************************************)
(* Small instances of MultiRound.  The aggregate of series S under         *)
(* constraint c is identified by S, the nonce and the name, and distinct   *)
(* aggregates are taken to be further apart than any eps.                  *)
(***************************************************************************)
EXTENDS MultiRound

CONSTANTS n1, n2, s1, s2,
          ShortSeries   \* the series with fewer samples than n_samples

MCEvaluate(S, c) == <<S, c.nonce, c.name>>

MCFarApart(name, a, b) == a # b

MCInRange(c, S) == S \notin ShortSeries

\* in the order of the constraints
AggregateNames == <<"median", "variance", "lag1_acf", "count_above_q", "weighted_sum">>

MCClaimLists == {[k \in 1..5 |-> <<S, n, AggregateNames[k]>>] : S \in Series, n \in Nonces}
=============================================================================
