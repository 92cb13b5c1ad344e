----------------------------- MODULE MCStartup ------------------------------
(* Constants of Startup for TLC: lengths up to MaxLen, buckets up to two,   *)
(* each setting also out of its range.                                     *)
EXTENDS Startup

CONSTANTS MaxLen, w1, w2

MCWorkers == {w1, w2}
MCSettings ==
  [maxLen : 0 .. MaxLen, bucket : BoundedSeq(0 .. MaxLen + 1, 2), numSeqs : 0 .. 1,
   vision : BoundedSeq(-1 .. MaxLen + 1, 1)]
MCSymmetry == Permutations(MCWorkers)
=============================================================================
