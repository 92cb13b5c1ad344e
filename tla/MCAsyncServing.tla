--------------------------- MODULE MCAsyncServing ---------------------------
(* Constants of AsyncServing for TLC: see the .cfg files for the bounds. *)
EXTENDS AsyncServing, TLC

CONSTANTS r1, r2

MCOne == {r1}
MCTwo == {r1, r2}
=============================================================================
