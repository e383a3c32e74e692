--------------------------- MODULE MCCompression ---------------------------
(***************************************************************************)
(* The compressor for TLC: constants and symmetry.                         *)
(***************************************************************************)
EXTENDS CompressionProps

CONSTANTS w1, w2

MCOneWorker == {w1}
MCTwoWorkers == {w1, w2}
MCSymmetry == Permutations(MCTwoWorkers)
=============================================================================
