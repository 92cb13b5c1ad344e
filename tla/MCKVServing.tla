---------------------------- MODULE MCKVServing -----------------------------
(* Constants of KVServing for TLC: see the .cfg files for the bounds. *)
EXTENDS KVServing

CONSTANTS r1, r2

MCTwo == {r1, r2}
MCPrompts == (r1 :> 1) @@ (r2 :> 2)
MCBuckets == {4}
MCSeqBuckets == {3}
MCCtxBuckets == {2}
=============================================================================
