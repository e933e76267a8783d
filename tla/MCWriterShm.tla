---------------------------- MODULE MCWriterShm ----------------------------
(* WriterShm with interchangeable readers and checked for safety only.     *)
EXTENDS WriterShm, TLC

ReaderSymmetry == Permutations(Readers)
=============================================================================
