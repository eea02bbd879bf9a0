------------------------------ MODULE MCMalloc ------------------------------
(* Nine bytes of memory, blocks of up to three; what is written is          *)
(* interchangeable.                                                         *)
EXTENDS MiniMalloc, TLC

DataSymmetry == Permutations(Data)
=============================================================================
