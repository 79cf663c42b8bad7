--------------------------- MODULE MCReverseFuzzy ---------------------------
(***************************************************************************)
(* ReverseFuzzy over a [5, 2, 3] linear code correcting one error, in      *)
(* codewords of six positions of which the code leaves the last unused, as *)
(* BCH(t = 16, m = 8) leaves four of its 128 ecc bits.                     *)
(***************************************************************************)
EXTENDS ReverseFuzzy

MCPositions == 1..6

MCPad == {6}

MCCode == {{}, {1, 2, 3}, {3, 4, 5}, {1, 2, 4, 5}}
=============================================================================
