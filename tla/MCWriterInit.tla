---------------------------- MODULE MCWriterInit ----------------------------
(* WriterInit with interchangeable writers; all its properties are about   *)
(* states and single steps, so symmetry is sound.                          *)
EXTENDS WriterInit, TLC

WriterSymmetry == Permutations(Writers)
=============================================================================
