-------------------------------- MODULE MCGC --------------------------------
(* Four addresses malloc may return, twice what the stack and the first      *)
(* limit take.                                                               *)
EXTENDS GC
=============================================================================
