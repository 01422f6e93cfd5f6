--------------------------- MODULE MCAtomicWrite ----------------------------
(***************************************************************************)
(* Constants for model-checking AtomicWrite.                               *)
(***************************************************************************)
EXTENDS AtomicWrite, TLC

CONSTANTS i1, i2, i3, w1, w2

MCSymmetry == Permutations({i1, i2, i3})
=============================================================================
