------------------------ MODULE MCMultiRoundVerifier ------------------------
(***************************************************************************)
(* Small instances of MultiRoundVerifier.  An aggregate of a series is     *)
(* identified by the series; two claims are within eps when they are equal *)
(* or one of them is NaN, for which abs(...) > eps is false.               *)
(***************************************************************************)
EXTENDS MultiRoundVerifier, TLC

CONSTANTS n1, n2, s1, s2, nan, shortSeries

Five(x) == [k \in 1..5 |-> x]

(* nothing, one answer, all right, the last one wrong, not a number, one   *)
(* answer too many                                                         *)
MCClaimLists == {<<>>, <<s1>>, Five(s1), Append([k \in 1..4 |-> s1], s2),
                 Five(nan), Append(Five(s1), s2)}

MCEvaluate(S, c) == S

MCFarApart(name, a, b) == a # b /\ nan \notin {a, b}

(* shortSeries has fewer samples than the verifier's n_samples *)
MCInRange(c, S) == S # shortSeries

MCSymmetry == Permutations(Nonces)
=============================================================================
