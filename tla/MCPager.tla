------------------------------ MODULE MCPager ------------------------------
(* A page table of three entries and files of up to MaxFilePages pages; two *)
(* contents the tree code writes beside the empty root.                     *)
EXTENDS PagerClose

CONSTANTS NodeA, NodeB, Hole, Garbage, Root0

MCContent == {NodeA, NodeB, Hole, Garbage, Root0}
=============================================================================
