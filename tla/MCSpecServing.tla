--------------------------- MODULE MCSpecServing ----------------------------
(* Constants of SpecServing for TLC: see the .cfg file for the bounds. *)
EXTENDS SpecServing, TLC

CONSTANTS r1, r2, r3, none

MCReq == {r1, r2, r3}
MCOne == {r1}
MCSymmetry == Permutations(MCReq)
=============================================================================
