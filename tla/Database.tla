------------------------------ MODULE Database ------------------------------
(***************************************************************************)
(* tiny-sqlite as one process at a prompt: the statements and meta         *)
(* commands of db.c over the tree of tree_node.c, the cursor of cursor.c   *)
(* and the pager (module Pager, instance P) whose pages hold tree nodes.   *)
(*                                                                         *)
(* A statement other than select runs in one step: the process has one     *)
(* thread, and what it has in memory when it is killed is lost anyway. A   *)
(* select runs row by row, the flush loop of .exit page by page.           *)
(*                                                                         *)
(* Recursion over the tree follows page numbers read from the file, which  *)
(* may lead round in a circle, or to a page the file does not have, that   *)
(* is to memory nobody wrote. Pages are never freed while the database is  *)
(* open, so such memory is fresh from the system: zeros, an internal node  *)
(* whose only child is page 0. A walk that goes round, or from unwritten   *)
(* memory anywhere, overflows the C stack and ends the process.            *)
(***************************************************************************)
EXTENDS TreeNode, FiniteSets

CONSTANTS
  Keys, Values,     \* row ids (uint32_t) and the rest of a row
  Entered,          \* bound: the rows a user may enter
  TABLE_MAX_PAGES, Null, MaxFilePages

ASSUME KeysAssumption == Keys \subseteq Nat
ASSUME EnteredAssumption == Entered \subseteq [key : Keys, value : Values]
ASSUME TableAssumption == TABLE_MAX_PAGES \in Nat \ {0}
ASSUME UnsetAssumption == Unset \notin Nat \cup {"leaf", "internal"}

VARIABLES
  file, pager, pc, flushing,  \* the pager's
  cursor,                     \* of the running select, or NoCursor
  printed,                    \* the row the running select printed last, or Null
  result                      \* what execute_statement last returned

statementVars == <<cursor, printed, result>>
vars == <<file, pager, pc, flushing, cursor, printed, result>>

Row == [key : Keys, value : Values]

Nodes ==
  [type : {"leaf", "internal", Unset}, root : BOOLEAN \cup {Unset},
   parent : Nat \cup {Unset}, link : Nat \cup {Unset},
   cells : Seq(Row) \cup Seq([child : Nat, key : Keys])]

P == INSTANCE Pager WITH
       Content <- Nodes, Zeros <- ZeroNode, Junk <- JunkNode, EmptyRoot <- EmptyRootLeaf

\* Null is no page and no row.
ASSUME NullAssumption == Null \notin Nodes \cup Row

NoCursor == [page |-> 0, cell |-> 0, end |-> TRUE, open |-> FALSE]

-----------------------------------------------------------------------------
(* Walking the tree. pg is a pager record; P!Seen(pg, p) is page p as      *)
(* get_page(p) would return it.                                            *)

ChildFor(node, key) == ChildAt(node, FindChild(node, key))

\* The next call of internal_node_find on the way to the leaf for a key. at is the
\* pager and the page reached; the way ends in a leaf or in unwritten memory.
Descend(at, key) ==
  LET node == at.pg.pages[at.page]
      child == ChildFor(node, key)
  IN IF IsLeaf(node) \/ IsJunk(node) THEN at
     ELSE [pg |-> P!LoadPage(at.pg, child), page |-> child]

\* table_find: the pager with the visited pages in memory, the leaf and the cell.
\* A way with more pages than the table has met one twice and never ends.
TableFind(pg, key) ==
  LET way[n \in 0 .. TABLE_MAX_PAGES] ==
        IF n = 0 THEN [pg |-> P!LoadPage(pg, 0), page |-> 0] ELSE Descend(way[n - 1], key)
      end == way[TABLE_MAX_PAGES]
      leaf == end.pg.pages[end.page]
  IN [pg |-> end.pg, page |-> end.page, endless |-> ~IsLeaf(leaf),
      cell |-> IF IsLeaf(leaf) THEN LeafFind(leaf, key) ELSE 0]

\* The pages print_tree visits, in order, from page p down to a given depth.
Preorder(pg, p, depth) ==
  LET visit[d \in 0 .. depth] ==
        [q \in P!PageNums |->
           LET children == Children(P!Seen(pg, q))
           IN IF d = 0 THEN <<q>>
              ELSE <<q>> \o FlattenSeq([i \in DOMAIN children |-> visit[d - 1][children[i]]])]
  IN visit[depth][p]

\* get_page of one page after the other.
LoadPages(pg, pages) ==
  LET loaded[n \in 0 .. Len(pages)] ==
        IF n = 0 THEN pg ELSE P!LoadPage(loaded[n - 1], pages[n])
  IN loaded[Len(pages)]

\* print_tree never returns when some walk down the tree is longer than the
\* number of pages, or leaves it.
EndlessTree(pg) ==
  LET walk[d \in Nat, q \in Nat] ==
        \/ d = 0 \/ IsJunk(P!Seen(pg, q))
        \/ \E i \in DOMAIN Children(P!Seen(pg, q)) : walk[d - 1, Children(P!Seen(pg, q))[i]]
  IN walk[TABLE_MAX_PAGES, 0]

-----------------------------------------------------------------------------
(* Splitting a leaf.                                                       *)

\* Pages the split takes: get_page exits past the table.
RoomForPage(pg) == P!UnusedPageNum(pg) < TABLE_MAX_PAGES

\* Mutant of SplitLeaf: the new leaf copies the old one's link after it changed.
SplitLeafSwapped(pg, page, at, row) ==
  LET new == P!UnusedPageNum(pg)
      old_node == pg.pages[page]
      cells == SplitCells(old_node.cells, at, row)
      loaded == P!LoadPage(pg, new)
      new_node == [InitialLeaf(loaded.pages[new]) EXCEPT
                     !.parent = old_node.parent, !.link = new, !.cells = cells.new]
  IN P!StorePage(P!StorePage(loaded, new, new_node),
                 page, [old_node EXCEPT !.link = new, !.cells = cells.old])

\* The first half of leaf_node_split_and_insert: the new leaf takes the unused
\* page, the old one's parent and its place in the chain of leaves, and the
\* upper half of the cells.
SplitLeaf(pg, page, at, row) ==
  LET new == P!UnusedPageNum(pg)
      old_node == pg.pages[page]
      cells == SplitCells(old_node.cells, at, row)
      loaded == P!LoadPage(pg, new)
      new_node == [InitialLeaf(loaded.pages[new]) EXCEPT
                     !.parent = old_node.parent, !.link = old_node.link, !.cells = cells.new]
  IN P!StorePage(P!StorePage(loaded, new, new_node),
                 page, [old_node EXCEPT !.link = new, !.cells = cells.old])

\* Mutant of CreateNewRoot: the right child's parent is left as it was.
CreateNewRootHalf(pg, right) ==
  LET root == pg.pages[0]
      left == P!UnusedPageNum(pg)
      left_node == [root EXCEPT !.root = FALSE, !.parent = 0]
      new_root == [InitialInternal(root) EXCEPT
                     !.root = TRUE, !.link = right,
                     !.cells = <<[child |-> left, key |-> MaxKey(left_node)]>>]
  IN P!StorePage(P!StorePage(P!LoadPage(pg, left), left, left_node), 0, new_root)

\* create_new_root: the old root moves to the unused page and page 0 becomes
\* an internal node over it and the new leaf.
CreateNewRoot(pg, right) ==
  LET root == pg.pages[0]
      left == P!UnusedPageNum(pg)
      left_node == [root EXCEPT !.root = FALSE, !.parent = 0]
      new_root == [InitialInternal(root) EXCEPT
                     !.root = TRUE, !.link = right,
                     !.cells = <<[child |-> left, key |-> MaxKey(left_node)]>>]
      right_node == [pg.pages[right] EXCEPT !.parent = 0]
  IN P!StorePage(P!StorePage(P!StorePage(P!LoadPage(pg, left), left, left_node),
                             0, new_root),
                 right, right_node)

\* The other half, for a leaf that is not the root: the parent gets the new
\* separator and the new child, if it has room; the process exits if not. The
\* last key of a right child that has none is 2^32 cells away: reading it ends
\* the process too.
InsertInParent(pg, page, new, old_max) ==
  LET parent == pg.pages[page].parent
      loaded == P!LoadPage(pg, parent)
      renamed == UpdateKey(loaded.pages[parent], old_max, MaxKey(pg.pages[page]))
      all == P!LoadPage(loaded, renamed.link)
      right == all.pages[renamed.link]
  IN IF NumCells(renamed) >= INTERNAL_NODE_MAX_CELLS THEN P!StorePage(loaded, parent, renamed)
     ELSE IF NumCells(right) = 0 THEN P!StorePage(all, parent, renamed)
     ELSE P!StorePage(all, parent,
                      InternalInsert(renamed, new, MaxKey(pg.pages[new]), MaxKey(right)))

-----------------------------------------------------------------------------
(* The process.                                                            *)

Ready == pc = "open" /\ ~cursor.open

Init ==
  /\ P!Init
  /\ cursor = NoCursor
  /\ printed = Null
  /\ result = "none"

\* main starts with db_open.
Open == P!Open /\ UNCHANGED statementVars

\* With the process go its cursor and what it was printing.
EndsStatement == cursor' = NoCursor /\ printed' = Null /\ result' = "none"

\* The process exits in the middle of a statement, with pg its pages in memory.
Exits(pg) ==
  /\ pc' = "down"
  /\ pager' = pg
  /\ EndsStatement
  /\ UNCHANGED <<file, flushing>>

Returns(pg, r) ==
  /\ pager' = pg
  /\ result' = r
  /\ UNCHANGED <<file, pc, flushing, cursor, printed>>

\* execute_insert looks for the key in the cell at the cursor.
KeyTaken(leaf, at, key) == at < NumCells(leaf) /\ KeyAt(leaf, at) = key

\* execute_insert when the descent for the key never ends. find is what
\* table_find returned, here and below.
InsertEndless(find) == find.endless /\ Exits(find.pg)

\* execute_insert: EXECUTE_DUPLICATE_KEY.
InsertDuplicate(find, row) ==
  /\ ~find.endless
  /\ KeyTaken(find.pg.pages[find.page], find.cell, row.key)
  /\ Returns(find.pg, "duplicate")

\* execute_insert goes on to leaf_node_insert, into a leaf that is full or not.
Inserts(find, row, full) ==
  /\ ~find.endless
  /\ LET leaf == find.pg.pages[find.page]
     IN /\ ~KeyTaken(leaf, find.cell, row.key)
        /\ full = (NumCells(leaf) >= LEAF_NODE_MAX_CELLS)

\* leaf_node_insert into a leaf with room.
InsertInLeaf(find, row) ==
  /\ Inserts(find, row, FALSE)
  /\ LET leaf == find.pg.pages[find.page]
     IN Returns(P!StorePage(find.pg, find.page, LeafInsert(leaf, find.cell, row)), "executed")

\* leaf_node_split_and_insert on the root.
InsertSplittingRoot(find, row) ==
  /\ Inserts(find, row, TRUE)
  /\ find.pg.pages[find.page].root
  /\ RoomForPage(find.pg)
  /\ LET split == SplitLeaf(find.pg, find.page, find.cell, row)
     IN /\ RoomForPage(split)
        /\ Returns(CreateNewRoot(split, P!UnusedPageNum(find.pg)), "executed")

\* leaf_node_split_and_insert when get_page has no page number left for the new
\* leaf or, one page later, for the root's new place: the process exits, and
\* what it changed before is lost.
InsertOutOfPages(find, row) ==
  /\ Inserts(find, row, TRUE)
  /\ \/ ~RoomForPage(find.pg)
     \/ /\ RoomForPage(find.pg)
        /\ find.pg.pages[find.page].root
        /\ ~RoomForPage(SplitLeaf(find.pg, find.page, find.cell, row))
  /\ Exits(find.pg)

\* leaf_node_split_and_insert on any other leaf: the tree is changed in memory,
\* then the process exits.
InsertSplittingLeaf(find, row) ==
  /\ Inserts(find, row, TRUE)
  /\ ~find.pg.pages[find.page].root
  /\ RoomForPage(find.pg)
  /\ LET split == SplitLeaf(find.pg, find.page, find.cell, row)
     IN Exits(InsertInParent(split, find.page, P!UnusedPageNum(find.pg),
                             MaxKey(find.pg.pages[find.page])))

\* An insert statement: execute_insert after prepare_statement read the row.
Insert(row) ==
  /\ Ready
  /\ LET find == TableFind(pager, row.key)
     IN \/ InsertEndless(find)
        \/ InsertDuplicate(find, row)
        \/ InsertInLeaf(find, row)
        \/ InsertSplittingRoot(find, row)
        \/ InsertOutOfPages(find, row)
        \/ InsertSplittingLeaf(find, row)

\* execute_select begins: table_start finds key 0.
SelectStart ==
  /\ Ready
  /\ LET find == TableFind(pager, 0)
     IN /\ ~find.endless
        /\ pager' = find.pg
        /\ cursor' = [page |-> find.page, cell |-> find.cell, open |-> TRUE,
                      end  |-> NumCells(find.pg.pages[find.page]) = 0]
  /\ UNCHANGED <<file, pc, flushing, printed, result>>

SelectEndless ==
  /\ Ready
  /\ TableFind(pager, 0).endless
  /\ Exits(TableFind(pager, 0).pg)

\* Mutant of Advance: a finished leaf ends the table.
AdvanceOneLeaf(c, node) ==
  IF c.cell + 1 < NumCells(node) THEN [c EXCEPT !.cell = @ + 1] ELSE [c EXCEPT !.end = TRUE]

\* cursor_advance.
Advance(c, node) ==
  IF c.cell + 1 < NumCells(node) THEN [c EXCEPT !.cell = @ + 1]
  ELSE IF node.link = 0 THEN [c EXCEPT !.cell = @ + 1, !.end = TRUE]
  ELSE [c EXCEPT !.page = node.link, !.cell = 0]

\* deserialize_row of the cell at the cursor. What is not a cell in use of a leaf
\* is no row of the table.
RowAt(node, i) == IF IsLeaf(node) /\ i < NumCells(node) THEN node.cells[i + 1] ELSE Null

\* One iteration of execute_select: cursor_value, print_row, cursor_advance.
SelectRow ==
  /\ pc = "open" /\ cursor.open /\ ~cursor.end
  /\ LET loaded == P!LoadPage(pager, cursor.page)
         node == loaded.pages[cursor.page]
     IN /\ pager' = loaded
        /\ printed' = RowAt(node, cursor.cell)
        /\ cursor' = Advance(cursor, node)
  /\ UNCHANGED <<file, pc, flushing, result>>

SelectEnd ==
  /\ pc = "open" /\ cursor.open /\ cursor.end
  /\ cursor' = NoCursor
  /\ printed' = Null
  /\ result' = "executed"
  /\ UNCHANGED <<file, pager, pc, flushing>>

\* .btree
PrintTree ==
  /\ Ready
  /\ LET loaded == LoadPages(pager, Preorder(pager, 0, TABLE_MAX_PAGES))
     IN IF EndlessTree(pager) THEN Exits(loaded)
        ELSE pager' = loaded /\ UNCHANGED <<file, pc, flushing>> /\ UNCHANGED statementVars

\* .exit, then the flush loop of db_close.
StartClose == Ready /\ P!StartClose /\ EndsStatement
CloseStep == P!CloseStep /\ UNCHANGED statementVars

\* The process ends between two steps: end of input at the prompt, a signal.
Kill == P!Kill /\ EndsStatement

SelectStep == SelectRow \/ SelectEnd

Next ==
  \/ Open
  \/ \E row \in Entered : Insert(row)
  \/ SelectStart
  \/ SelectEndless
  \/ SelectStep
  \/ PrintTree
  \/ StartClose
  \/ CloseStep
  \/ Kill

Spec == Init /\ [][Next]_vars

\* A running process goes on: the loop of a select and the one of db_close.
FairSpec == Spec /\ WF_vars(SelectStep) /\ WF_vars(CloseStep)

-----------------------------------------------------------------------------
(* Properties. The tree is the one the pages reachable from page 0 make,   *)
(* in memory or still in the file.                                         *)

Visited == Preorder(pager, 0, TABLE_MAX_PAGES)
NodeOf(p) == P!Seen(pager, p)
LeavesUnder(p) ==
  LET leaves[d \in 0 .. TABLE_MAX_PAGES] ==
        [q \in P!PageNums |->
           LET children == Children(NodeOf(q))
           IN IF IsLeaf(NodeOf(q)) THEN <<q>> ELSE IF d = 0 THEN <<>>
              ELSE FlattenSeq([i \in DOMAIN children |-> leaves[d - 1][children[i]]])]
  IN leaves[TABLE_MAX_PAGES][p]
RowsUnder(p) ==
  LET leaves == LeavesUnder(p) IN FlattenSeq([i \in DOMAIN leaves |-> NodeOf(leaves[i]).cells])
KeysUnder(p) == {r.key : r \in ToSet(RowsUnder(p))}

\* The file starts with the root of a table that was closed after a split. Its
\* other nodes are not where the root says, so sessions on it are left out of
\* the properties below.
SplitSaved == Len(file) > 0 /\ ~IsLeaf(file[1])
Sound(Q) == pc = "open" /\ ~SplitSaved => Q

\* The values of the variables.
TypeOK ==
  /\ P!TypeOK
  /\ cursor \in [page : Nat, cell : Nat, end : BOOLEAN, open : BOOLEAN]
  /\ printed \in Row \cup {Null}
  /\ result \in {"none", "executed", "duplicate"}

\* The pager keeps its own invariant under the calls the tree code makes, which
\* load and store several pages in one statement.
PagerKept == P!PagerInv

\* Leaves from left to right hold strictly ascending keys, and a separator is at
\* least every key on its left and below every key on its right. A split, the
\* new root and the parent's new separator all have to agree on it.
TreeOrdered ==
  Sound(LET rows == RowsUnder(0)
        IN /\ \A i \in 1 .. Len(rows) - 1 : rows[i].key < rows[i + 1].key
           /\ \A p \in ToSet(Visited) : LET node == NodeOf(p) IN
                ~IsLeaf(node) => \A i \in 1 .. NumCells(node) :
                  /\ \A k \in KeysUnder(ChildAt(node, i - 1)) : k <= KeyAt(node, i - 1)
                  /\ \A k \in KeysUnder(ChildAt(node, i)) : k > KeyAt(node, i - 1))

\* Following next_leaf from the leftmost leaf meets every leaf in order and ends
\* at the last: what cursor_advance relies on.
LeavesChained ==
  Sound(LET leaves == LeavesUnder(0)
        IN \A i \in DOMAIN leaves :
             NodeOf(leaves[i]).link = IF i = Len(leaves) THEN 0 ELSE leaves[i + 1])

\* No page is reached twice, only page 0 is flagged as the root, and every other
\* node names its parent. A leaf's split trusts both the flag and the parent's
\* page number, which for a new leaf is copied from a root that never had one.
ParentsKnown ==
  Sound(/\ IsInjective(Visited)
        /\ \A p \in ToSet(Visited) :
             /\ NodeOf(p).root <=> p = 0
             /\ \A c \in ToSet(Children(NodeOf(p))) : NodeOf(c).parent = p)

\* What cursor.h:21-22 says of table_find: a key that is stored is where the
\* cursor points; any other key can be inserted there, with the keys of the
\* whole table still in order.
FindsPlace ==
  Sound(LET leaves == LeavesUnder(0)
            keys == [n \in 1 .. Len(leaves) |-> {c.key : c \in ToSet(NodeOf(leaves[n]).cells)}]
        IN \A key \in Keys :
             LET find == TableFind(pager, key)
                 leaf == find.pg.pages[find.page]
             IN \E n \in DOMAIN leaves :
                  /\ find.page = leaves[n] /\ ~find.endless
                  /\ KeyTaken(leaf, find.cell, key) <=> \E m \in DOMAIN keys : key \in keys[m]
                  /\ \A i \in 1 .. NumCells(leaf) : leaf.cells[i].key < key <=> i <= find.cell
                  /\ \A m \in DOMAIN leaves : \A k \in keys[m] :
                       (m < n => k < key) /\ (m > n => k > key))

\* The rows of a table first closed as a single leaf are found by every later
\* session, whatever it inserts and however often the leaf splits: slot 0 keeps
\* them, and every session starts from slot 0.
FirstRowsFound ==
  pc = "open" /\ Len(file) > 0 /\ IsLeaf(file[1]) =>
    \A r \in ToSet(file[1].cells) :
      LET find == TableFind(pager, r.key)
      IN ~find.endless /\ find.cell < NumCells(find.pg.pages[find.page])
           /\ find.pg.pages[find.page].cells[find.cell + 1] = r

\* The split of a leaf below the root, as the comment at tree_node.c:159-169
\* draws it: when the process exits, the tree it leaves in memory has the new
\* row and all the others in order, under separators that tell them apart.
SplitBuildsTree ==
  [][~SplitSaved /\ pc' = "down" /\ pager' # pager => \A row \in Entered :
       Ready /\ InsertSplittingLeaf(TableFind(pager, row.key), row) =>
       \A rows \in {RowsUnder(0)'} :
          /\ ToSet(rows) = ToSet(RowsUnder(0)) \cup {row}
          /\ \A i \in 1 .. Len(rows) - 1 : rows[i].key < rows[i + 1].key
          /\ \A r \in ToSet(rows) :
               LET find == TableFind(pager', r.key)
               IN KeyTaken(find.pg.pages[find.page], find.cell, r.key)]_vars

\* A session on a new file is a table of rows (RowTable): insert stores a row or
\* reports its key as taken, select prints every row once in the order of keys.
RowsInMemory ==
  UNION {ToSet(pager.pages[p].cells) : p \in {q \in P!Cached(pager) : IsLeaf(pager.pages[q])}}
Table == INSTANCE RowTable WITH
  NoRow <- Null,
  rows <- IF pc = "open" THEN RowsInMemory ELSE {},
  mode <- IF pc # "open" THEN "closed" ELSE IF cursor.open THEN "selecting" ELSE "ready"
ImplementsRowTable == Table!Spec

\* A select comes to its end, unless the process is killed: the chain of leaves
\* does not lead round in a circle, in any file.
SelectEnds == cursor.open ~> ~cursor.open

\* A close comes to its end, however long the file.
CloseEnds == pc = "closing" ~> pc = "down"

\* Test test.c:5 feeds 16 inserts to one session: an insert returns to the prompt.
InsertReturns == [][\A row \in Entered : Insert(row) => pc' = "open"]_vars

\* page.h:9 has num_pages count the pages in use, of which the table has room
\* for TABLE_MAX_PAGES; the flush loop indexes the table up to it.
PagesInTable == pc # "down" => pager.num_pages <= TABLE_MAX_PAGES
=============================================================================
