-------------------------- MODULE MCApplyOverrides --------------------------
(* Constants of ApplyOverrides for TLC: see the .cfg file for the bounds. *)
EXTENDS ApplyOverrides

CONSTANTS c1, c2

MCEntries == {c1, c2}
=============================================================================
