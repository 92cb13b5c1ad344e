---------------------------- MODULE MCDPLockstep ----------------------------
(* Constants of DPLockstep for TLC: see the .cfg files for the bounds. *)
EXTENDS DPLockstep, TLC

CONSTANTS d1, d2

MCTwoRanks == {d1, d2}
MCSeqBuckets == {1, 2, 4}
MCCtxLens == {0, 1}
MCCtxBuckets == {1, 2}
=============================================================================
