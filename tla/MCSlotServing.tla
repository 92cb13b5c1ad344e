--------------------------- MODULE MCSlotServing ----------------------------
(* Constants of SlotServing for TLC: see the .cfg files for the bounds.    *)
EXTENDS SlotServing, TLC

CONSTANTS r1, r2, r3

MCTwo == {r1, r2}
MCThree == {r1, r2, r3}
MCBuckets == {4}
MCShortPrompt == {1}

MCSymmetry == Permutations(Req)
=============================================================================
