------------------------------ MODULE TreeNode ------------------------------
(***************************************************************************)
(* The nodes of tiny-sqlite's B+ tree and the operations of tree_node.c on *)
(* one node, as operators on values.                                       *)
(*                                                                         *)
(* A node is what a page holds: its type, its root flag, its parent's page *)
(* number, its cells, and link, the word both types keep at offset 10: the *)
(* next leaf of a leaf, the right child of an internal node. The cells are *)
(* those in use; what lies past num_cells is dead and left out. The C code *)
(* counts cells from 0, TLA+ sequences from 1.                             *)
(***************************************************************************)
EXTENDS Integers, Sequences, SequencesExt

CONSTANTS
  LEAF_NODE_MAX_CELLS,      \* cells of a leaf (5 with the sizes of config.h)
  INTERNAL_NODE_MAX_CELLS,  \* keys of an internal node (3)
  Unset                     \* a word of malloc'ed memory nobody wrote

ASSUME LeafSizeAssumption == LEAF_NODE_MAX_CELLS \in Nat \ {0}
ASSUME InternalSizeAssumption == INTERNAL_NODE_MAX_CELLS \in Nat \ {0}

LEAF_NODE_RIGHT_SPLIT_COUNT == (LEAF_NODE_MAX_CELLS + 1) \div 2
LEAF_NODE_LEFT_SPLIT_COUNT == LEAF_NODE_MAX_CELLS + 1 - LEAF_NODE_RIGHT_SPLIT_COUNT

\* A page of malloc'ed memory, and a page of the file that is all zeros: type 0
\* is NODE_INTERNAL, with no keys and page 0 as its right child.
JunkNode ==
  [type |-> Unset, root |-> Unset, parent |-> Unset, link |-> Unset, cells |-> <<>>]
ZeroNode ==
  [type |-> "internal", root |-> FALSE, parent |-> 0, link |-> 0, cells |-> <<>>]

\* initial_leaf_node and initial_internal_node leave what they do not name.
InitialLeaf(node) ==
  [node EXCEPT !.type = "leaf", !.root = FALSE, !.cells = <<>>, !.link = 0]
InitialInternal(node) ==
  [node EXCEPT !.type = "internal", !.root = FALSE, !.cells = <<>>]

\* The root db_open writes: initial_leaf_node and the root flag.
EmptyRootLeaf == [InitialLeaf(JunkNode) EXCEPT !.root = TRUE]

IsLeaf(node) == node.type = "leaf"
IsJunk(node) == node.type = Unset
NumCells(node) == Len(node.cells)
KeyAt(node, i) == node.cells[i + 1].key
MaxKey(node) == node.cells[NumCells(node)].key   \* get_node_max_key

-----------------------------------------------------------------------------
(* Searching a node. left and right are the loop variables of the C code,  *)
(* each pass of the loop narrows the window between them.                  *)

Windows(node) ==
  {w \in [left : 0 .. NumCells(node), right : 0 .. NumCells(node)] : w.left <= w.right}
Window(left, right) == [left |-> left, right |-> right]
Mid(w) == (w.left + w.right) \div 2

\* Mutant of LeafFind: the search goes on in the wrong half.
LeafFindSwapped(node, key) ==
  LET find[w \in Windows(node)] ==
        IF w.left = w.right THEN w.left
        ELSE IF key = KeyAt(node, Mid(w)) THEN Mid(w)
        ELSE IF key > KeyAt(node, Mid(w)) THEN find[Window(w.left, Mid(w))]
        ELSE find[Window(Mid(w) + 1, w.right)]
  IN find[Window(0, NumCells(node))]

\* leaf_node_find: the cell of the key, or the first with a larger one.
LeafFind(node, key) ==
  LET find[w \in Windows(node)] ==
        IF w.left = w.right THEN w.left
        ELSE IF key = KeyAt(node, Mid(w)) THEN Mid(w)
        ELSE IF key < KeyAt(node, Mid(w)) THEN find[Window(w.left, Mid(w))]
        ELSE find[Window(Mid(w) + 1, w.right)]
  IN find[Window(0, NumCells(node))]

\* Mutant of FindChild: a key equal to a separator goes to the right of it.
FindChildRight(node, key) ==
  LET find[w \in Windows(node)] ==
        IF w.left = w.right THEN w.left
        ELSE IF KeyAt(node, Mid(w)) > key THEN find[Window(w.left, Mid(w))]
        ELSE find[Window(Mid(w) + 1, w.right)]
  IN find[Window(0, NumCells(node))]

\* internal_node_find_child: the index of the child that holds the key.
FindChild(node, key) ==
  LET find[w \in Windows(node)] ==
        IF w.left = w.right THEN w.left
        ELSE IF KeyAt(node, Mid(w)) >= key THEN find[Window(w.left, Mid(w))]
        ELSE find[Window(Mid(w) + 1, w.right)]
  IN find[Window(0, NumCells(node))]

\* internal_node_child, for an index the callers keep at most num_keys.
ChildAt(node, i) == IF i = NumCells(node) THEN node.link ELSE node.cells[i + 1].child

\* The children print_tree visits, from left to right.
Children(node) ==
  IF IsLeaf(node) \/ IsJunk(node) THEN <<>> ELSE [i \in 1 .. NumCells(node) + 1 |-> ChildAt(node, i - 1)]

-----------------------------------------------------------------------------
(* Changing a node.                                                        *)

\* Mutant of LeafInsert: the new cell is written over the one at the cursor.
LeafInsertOver(node, at, cell) ==
  [node EXCEPT !.cells = SubSeq(@, 1, at) \o <<cell>> \o SubSeq(@, at + 2, Len(@))]

\* Mutant of LeafInsert: the row is not serialized behind its key.
LeafInsertKeyOnly(node, at, cell) ==
  [node EXCEPT !.cells = InsertAt(@, at + 1, [key |-> cell.key])]

\* leaf_node_insert into a leaf with room: the cells from the cursor on move up.
LeafInsert(node, at, cell) == [node EXCEPT !.cells = InsertAt(@, at + 1, cell)]

\* The cell that the split loop writes for index i, read from the old leaf as
\* earlier iterations left it.
SplitCell(old, at, cell, i) ==
  IF i = at THEN cell ELSE IF i > at THEN old[i] ELSE old[i + 1]

\* Mutant of SplitOrder: the loop counts up, over cells it has yet to read.
SplitOrderUp == [n \in 1 .. LEAF_NODE_MAX_CELLS + 1 |-> n - 1]

\* The loop of leaf_node_split_and_insert counts down from LEAF_NODE_MAX_CELLS.
SplitOrder == [n \in 1 .. LEAF_NODE_MAX_CELLS + 1 |-> LEAF_NODE_MAX_CELLS + 1 - n]

\* One pass of it, for index i: the cell goes to the leaf that shall hold it.
SplitPass(leaves, i, at, cell) ==
  LET index == (i % LEAF_NODE_LEFT_SPLIT_COUNT) + 1
      moved == SplitCell(leaves.old, at, cell, i)
  IN IF i >= LEAF_NODE_LEFT_SPLIT_COUNT THEN [leaves EXCEPT !.new[index] = moved]
     ELSE [leaves EXCEPT !.old[index] = moved]

\* The cells of the old and the new leaf after that loop, which works in place:
\* the old leaf is both where cells come from and where half of them go. Every
\* cell of the new leaf is written, so what it starts with does not matter.
SplitCells(cells, at, cell) ==
  LET leaves[n \in 0 .. LEAF_NODE_MAX_CELLS + 1] ==
        IF n = 0 THEN [old |-> cells, new |-> SubSeq(cells, 1, LEAF_NODE_RIGHT_SPLIT_COUNT)]
        ELSE SplitPass(leaves[n - 1], SplitOrder[n], at, cell)
      done == leaves[LEAF_NODE_MAX_CELLS + 1]
  IN [old |-> SubSeq(done.old, 1, LEAF_NODE_LEFT_SPLIT_COUNT), new |-> done.new]

\* update_internal_node_key: for the right child it writes the dead cell past
\* the last key.
UpdateKey(node, old_key, new_key) ==
  LET i == FindChild(node, old_key)
  IN IF i < NumCells(node) THEN [node EXCEPT !.cells[i + 1].key = new_key] ELSE node

\* Mutant of InternalInsert: the right child always stays the right child.
InternalInsertLeft(node, child, child_max, right_max) ==
  [node EXCEPT !.cells = InsertAt(@, FindChild(node, child_max) + 1,
                                  [child |-> child, key |-> child_max])]

\* internal_node_insert into a node with room, after right's max key is known.
InternalInsert(node, child, child_max, right_max) ==
  IF child_max > right_max
  THEN [node EXCEPT !.cells = Append(@, [child |-> node.link, key |-> right_max]),
                    !.link = child]
  ELSE [node EXCEPT !.cells = InsertAt(@, FindChild(node, child_max) + 1,
                                       [child |-> child, key |-> child_max])]
=============================================================================
