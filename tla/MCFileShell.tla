---------------------------- MODULE MCFileShell ----------------------------
(* A drive with paths of up to three names: two without a '.' and one with. *)
EXTENDS FileShell

CONSTANTS a, b, txt

MCNames == {a, b, txt}
MCDotted == {txt}
=============================================================================
