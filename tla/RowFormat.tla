------------------------------ MODULE RowFormat ------------------------------
(***************************************************************************)
(* The bytes of tiny-sqlite: how a row goes from the struct that sscanf    *)
(* fills into the value of a cell and back (record.c), and where a page    *)
(* keeps the words and cells that TreeNode has as fields of a record       *)
(* (config.h and the accessors of tree_node.c).                            *)
(*                                                                         *)
(* Memory is a function from offsets to bytes, a text a sequence of bytes  *)
(* other than 0. The sizes are those of config.h and record.h.             *)
(***************************************************************************)
EXTENDS Integers, Sequences

Byte == 0 .. 255
Text == Seq(Byte \ {0})

Area(at, size) == at .. at + size - 1

-----------------------------------------------------------------------------
(* Rows. *)

ID_SIZE == 4
USERNAME_SIZE == 32
EMAIL_SIZE == 255

ID_OFFSET == 0
USERNAME_OFFSET == 4
EMAIL_OFFSET == 259
ROW_SIZE == 768

\* struct Row: its members one after the other, padded to a multiple of four.
USERNAME_MEMBER == ID_SIZE
EMAIL_MEMBER == USERNAME_MEMBER + USERNAME_SIZE
STRUCT_SIZE == 292

Row == [0 .. STRUCT_SIZE - 1 -> Byte]
Value == [0 .. ROW_SIZE - 1 -> Byte]

\* memcpy(dest + at, src + from, n)
MemCpy(dest, at, src, from, n) ==
  [i \in DOMAIN dest |-> IF i \in Area(at, n) THEN src[from + i - at] ELSE dest[i]]

\* strncpy(dest + at, src + from, n): n bytes, zeros from the first 0 on, and
\* no 0 at all behind n others.
StrNCpy(dest, at, src, from, n) ==
  [i \in DOMAIN dest |->
     IF i \notin Area(at, n) THEN dest[i]
     ELSE IF \E j \in from .. from + i - at : src[j] = 0 THEN 0
     ELSE src[from + i - at]]

\* %s of sscanf: the word and a 0 behind it, wherever that is.
ScanText(mem, at, text) ==
  [i \in DOMAIN mem |-> IF i \in Area(at, Len(text)) THEN text[i - at + 1]
                        ELSE IF i = at + Len(text) THEN 0
                        ELSE mem[i]]

\* prepare_statement's sscanf, which fills the members in this order.
ScanRow(row, id, username, email) ==
  LET numbered == MemCpy(row, 0, id, 0, ID_SIZE)
  IN ScanText(ScanText(numbered, USERNAME_MEMBER, username), EMAIL_MEMBER, email)

serialize_row(source, destination) ==
  LET numbered == MemCpy(destination, ID_OFFSET, source, 0, ID_SIZE)
      named == StrNCpy(numbered, USERNAME_OFFSET, source, USERNAME_MEMBER, USERNAME_SIZE)
  IN StrNCpy(named, EMAIL_OFFSET, source, EMAIL_MEMBER, EMAIL_SIZE)

deserialize_row(source, destination) ==
  LET numbered == MemCpy(destination, 0, source, ID_OFFSET, ID_SIZE)
      named == StrNCpy(numbered, USERNAME_MEMBER, source, USERNAME_OFFSET, USERNAME_SIZE)
  IN StrNCpy(named, EMAIL_MEMBER, source, EMAIL_OFFSET, EMAIL_SIZE)

\* The text printf's %s finds at an address: all up to the next 0.
Prints(mem, at, text) ==
  /\ \A i \in 1 .. Len(text) : mem[at + i - 1] = text[i]
  /\ mem[at + Len(text)] = 0

\* What execute_select prints of a row that was entered with insert, in a cell
\* and a struct with any contents before.
Selected(entered, value, row) == deserialize_row(serialize_row(entered, value), row)

-----------------------------------------------------------------------------
(* Pages. *)

PAGE_SIZE == 4096
WORD == 4      \* sizeof(uint32_t)

NODE_TYPE_OFFSET == 0
IS_ROOT_OFFSET == NODE_TYPE_OFFSET + 1
PARENT_POINTER_OFFSET == IS_ROOT_OFFSET + 1
COMMON_NODE_HEADER_SIZE == 1 + 1 + WORD

NUM_CELLS_OFFSET == COMMON_NODE_HEADER_SIZE    \* of leaves, and of keys
LINK_OFFSET == NUM_CELLS_OFFSET + WORD         \* next leaf, and right child
HEADER_SIZE == COMMON_NODE_HEADER_SIZE + WORD + WORD

LEAF_NODE_CELL_SIZE == WORD + ROW_SIZE
LEAF_NODE_MAX_CELLS == (PAGE_SIZE - HEADER_SIZE) \div LEAF_NODE_CELL_SIZE
INTERNAL_NODE_CELL_SIZE == WORD + WORD
INTERNAL_NODE_MAX_CELLS == 3

leaf_node_cell(i) == HEADER_SIZE + i * LEAF_NODE_CELL_SIZE
leaf_node_value(i) == leaf_node_cell(i) + WORD
internal_node_cell(i) == HEADER_SIZE + i * INTERNAL_NODE_CELL_SIZE
internal_node_key(i) == internal_node_cell(i) + WORD

Field(at, size) == [at |-> at, size |-> size]

HeaderFields ==
  { Field(NODE_TYPE_OFFSET, 1), Field(IS_ROOT_OFFSET, 1), Field(PARENT_POINTER_OFFSET, WORD),
    Field(NUM_CELLS_OFFSET, WORD), Field(LINK_OFFSET, WORD) }

LeafFields ==
  HeaderFields \cup {Field(leaf_node_cell(i), WORD) : i \in 0 .. LEAF_NODE_MAX_CELLS - 1}
               \cup {Field(leaf_node_value(i), ROW_SIZE) : i \in 0 .. LEAF_NODE_MAX_CELLS - 1}

\* One cell more than there may be keys: update_internal_node_key of the right
\* child writes the key of the cell past the last.
InternalFields ==
  HeaderFields \cup {Field(internal_node_cell(i), WORD) : i \in 0 .. INTERNAL_NODE_MAX_CELLS}
               \cup {Field(internal_node_key(i), WORD) : i \in 0 .. INTERNAL_NODE_MAX_CELLS}

\* All fields lie in the page, and writing one leaves the others alone.
FieldsApart(fields) ==
  /\ \A f \in fields : Area(f.at, f.size) \subseteq 0 .. PAGE_SIZE - 1
  /\ \A f, g \in fields : f # g => Area(f.at, f.size) \cap Area(g.at, g.size) = {}
=============================================================================
