--------------------------- MODULE DatabaseProofs ---------------------------
(***************************************************************************)
(* Proofs about Database, for every size of nodes, page table and files,   *)
(* and every set of keys and rows.                                         *)
(*                                                                         *)
(* DatabaseInv is inductive. It says which trees a session can meet: a     *)
(* single leaf, a root over two leaves, which the first split makes and a  *)
(* second never replaces because the process exits in it, or, on a file    *)
(* that was closed after a split, a root whose children are not where it   *)
(* says. That the pager keeps its own invariant under the calls of the     *)
(* tree code follows, and with it the order of the keys, the chain of the  *)
(* leaves, and that a search finds the place of a key.                     *)
(*                                                                         *)
(* The last part shows that a session on a new file implements RowTable.   *)
(***************************************************************************)
EXTENDS Database, TreeNodeProofs

Pages == P!PageNums
Separator == [child : Pages, key : Keys]

\* struct Pager, with nodes for pages.
PagerRecord ==
  [pos : Nat, file_len : Nat, num_pages : Nat, pages : [Pages -> Nodes \cup {Null}]]

\* A leaf in order, with no more cells than it has room for; below the root it
\* names page 0 as its parent.
LeafNode(n) ==
  /\ n \in [type : {"leaf"}, root : BOOLEAN, parent : Nat \cup {Unset},
            link : Pages, cells : Seq(Row)]
  /\ Ordered(n, Row)
  /\ NumCells(n) <= LEAF_NODE_MAX_CELLS
  /\ ~n.root => n.parent = 0

RootLeaf(n) == LeafNode(n) /\ n.root /\ n.link = 0
LastLeaf(n) == LeafNode(n) /\ ~n.root /\ n.link = 0

\* The root that a split makes over two leaves.
RootOver(n, left, right) ==
  /\ n \in [type : {"internal"}, root : {TRUE}, parent : Nat \cup {Unset},
            link : {right}, cells : Seq(Separator)]
  /\ NumCells(n) = 1
  /\ n.cells[1].child = left
  /\ left \in Pages /\ right \in Pages

\* What a session on a file closed after a split finds where the root's children
\* should be: zeros, nothing, another root, or a leaf that is the last.
Misplaced(n) == n \in {ZeroNode, JunkNode} \/ RootOver(n, 2, 1) \/ LastLeaf(n)

\* What the pager promises while the database is open, of the pager pg.
Kept(pg) ==
  /\ pg \in PagerRecord
  /\ pg.file_len = Len(file)
  /\ \A p \in Pages : pg.pages[p] # Null => p < pg.num_pages
  /\ Len(file) <= pg.num_pages
  /\ pg.pos > 0 <=> Len(file) > 0

\* The rows the first page of the file holds, which rows has as well.
HoldsFirst(rows) == Len(file) > 0 => ToSet(file[1].cells) \subseteq rows

\* The three trees. A new file has one page until its root is split, and then
\* pages 1 and 2 are the right and the left leaf.
Single(pg) ==
  /\ RootLeaf(P!Seen(pg, 0))
  /\ HoldsFirst(ToSet(P!Seen(pg, 0).cells))
  /\ Len(file) = 0 => pg.num_pages = 1 /\ pg.pages[0] # Null

Forked(pg, left, right) ==
  /\ left # 0 /\ right # 0 /\ left # right
  /\ pg.pages[0] # Null /\ pg.pages[left] # Null /\ pg.pages[right] # Null
  /\ RootOver(pg.pages[0], left, right)
  /\ LeafNode(pg.pages[left]) /\ ~pg.pages[left].root /\ pg.pages[left].link = right
  /\ LastLeaf(pg.pages[right])
  /\ NumCells(pg.pages[left]) > 0 /\ NumCells(pg.pages[right]) > 0
  /\ \A r \in ToSet(pg.pages[left].cells) : r.key <= pg.pages[0].cells[1].key
  /\ \A r \in ToSet(pg.pages[right].cells) : r.key > pg.pages[0].cells[1].key
  /\ HoldsFirst(ToSet(pg.pages[left].cells) \cup ToSet(pg.pages[right].cells))
  /\ Len(file) = 0 => left = 2 /\ right = 1 /\ pg.num_pages = 3

Saved(pg) ==
  /\ RootOver(P!Seen(pg, 0), 2, 1)
  /\ Misplaced(P!Seen(pg, 1)) /\ Misplaced(P!Seen(pg, 2))
  /\ \A p \in Pages : pg.pages[p] # Null => p \in 0 .. 2

\* The tree of an open database.
TreeIn(pg) ==
  IF SplitSaved THEN Saved(pg)
  ELSE Single(pg) \/ \E left, right \in Pages : Forked(pg, left, right)

\* The same with the pages it has.
Shape(pg, S) ==
  \/ SplitSaved /\ Saved(pg) /\ S = {0, 1, 2}
  \/ ~SplitSaved /\ Single(pg) /\ S = {0}
  \/ ~SplitSaved /\ \E left, right \in Pages : Forked(pg, left, right) /\ S = {0, left, right}

\* The file: its first page is the root of the first session that was closed.
FileInv ==
  /\ file \in Seq(Nodes)
  /\ Len(file) > 0 /\ ~SplitSaved => RootLeaf(file[1])
  /\ SplitSaved => RootOver(file[1], 2, 1)
  /\ SplitSaved => \A s \in 2 .. 3 : s <= Len(file) => Misplaced(file[s])

\* db_close under way. Page 0 of a new file is the first to be flushed; pages 2
\* and up never land on the first three slots of a file that is not empty.
ClosingInv ==
  /\ pager \in PagerRecord
  /\ pager.pos > 0 <=> Len(file) > 0
  /\ \A p \in Pages : pager.pages[p] # Null => flushing <= p /\ p < pager.num_pages
  /\ Len(file) = 0 => flushing = 0 /\ TreeIn(pager)
  /\ SplitSaved => \A p \in Pages : p < 2 /\ pager.pages[p] # Null => Misplaced(pager.pages[p])

\* The running select: the cursor is on a leaf of the tree.
CursorInv ==
  /\ cursor \in [page : Pages, cell : Nat, end : BOOLEAN, open : BOOLEAN]
  /\ ~cursor.open => cursor = NoCursor /\ printed = Null
  /\ cursor.open => pc = "open"
  /\ cursor.open /\ ~cursor.end => IsLeaf(P!Seen(pager, cursor.page))
  /\ cursor.open => \E S \in SUBSET Pages : Shape(pager, S) /\ cursor.page \in S

DatabaseInv ==
  /\ FileInv
  /\ pc \in {"down", "open", "closing"}
  /\ flushing \in Nat
  /\ pc = "down" => pager \in PagerRecord
  /\ pc = "open" => Kept(pager) /\ TreeIn(pager)
  /\ pc = "closing" => ClosingInv
  /\ CursorInv
  /\ printed \in Row \cup {Null}
  /\ result \in {"none", "executed", "duplicate"}

-----------------------------------------------------------------------------
(* Walks: what holds of one step of a recursion holds at its end.          *)

StaysIn(f, m, n, S) == \A i \in m + 1 .. n : f[i - 1] \in S => f[i] \in S

LEMMA EndsIn ==
  ASSUME NEW f, NEW m \in Nat, NEW n \in Nat, m <= n, NEW S, f[m] \in S, StaysIn(f, m, n, S)
  PROVE  \A i \in m .. n : f[i] \in S
<1> DEFINE wrong == {i \in m .. n : f[i] \notin S}
<1>1. SUFFICES ASSUME wrong # {} PROVE FALSE
  OBVIOUS
<1>2. wrong \subseteq Nat
  OBVIOUS
<1>3. PICK i \in wrong : \A j \in wrong : i <= j
  BY <1>1, <1>2, Least
<1>4. i \in m + 1 .. n /\ i - 1 \in m .. n /\ i - 1 < i
  BY <1>3
<1>5. i - 1 \notin wrong
  BY <1>3, <1>4
<1>6. f[i - 1] \in S
  BY <1>4, <1>5
<1> QED BY <1>3, <1>4, <1>6 DEF StaysIn

\* The pages on the way to a key: the definition in TableFind has a value.
Way(pg, key, n) ==
  CHOOSE way : way = [i \in 0 .. n |-> IF i = 0 THEN [pg |-> P!LoadPage(pg, 0), page |-> 0]
                                       ELSE Descend(way[i - 1], key)]

LEMMA WayExists ==
  ASSUME NEW pg, NEW key, NEW n \in Nat
  PROVE  Way(pg, key, n) = [i \in 0 .. n |-> IF i = 0 THEN [pg |-> P!LoadPage(pg, 0), page |-> 0]
                                             ELSE Descend(Way(pg, key, n)[i - 1], key)]
<1> DEFINE start == [pg |-> P!LoadPage(pg, 0), page |-> 0]
           Good(f, k) == f = [i \in 0 .. k |-> IF i = 0 THEN start ELSE Descend(f[i - 1], key)]
           wrong == {k \in Nat : ~ \E f : Good(f, k)}
<1> HIDE DEF start
<1>1. \E f : Good(f, n)
  <2>1. SUFFICES ASSUME wrong # {} PROVE FALSE
    OBVIOUS
  <2>2. PICK k \in wrong : \A j \in wrong : k <= j
    BY <2>1, Least
  <2>3. CASE k = 0
    <3>1. Good([i \in 0 .. 0 |-> start], 0)
      OBVIOUS
    <3> QED BY <2>2, <2>3, <3>1
  <2>4. CASE k # 0
    <3>1. k - 1 \in Nat /\ k - 1 \notin wrong
      BY <2>2, <2>4
    <3>2. PICK f : Good(f, k - 1)
      BY <3>1
    <3> DEFINE g == [i \in 0 .. k |-> IF i = k THEN Descend(f[k - 1], key) ELSE f[i]]
    <3>3. \A i \in 0 .. k : g[i] = IF i = 0 THEN start ELSE Descend(g[i - 1], key)
      <4> TAKE i \in 0 .. k
      <4>1. CASE i = k
        BY <4>1, <2>2, <2>4
      <4>2. CASE i # k
        <5>1. i \in 0 .. k - 1 /\ g[i] = f[i]
          BY <4>2, <2>2
        <5>2. f[i] = IF i = 0 THEN start ELSE Descend(f[i - 1], key)
          BY <3>2, <5>1
        <5>3. i # 0 => g[i - 1] = f[i - 1]
          BY <4>2, <2>2
        <5> QED BY <5>1, <5>2, <5>3
      <4> QED BY <4>1, <4>2
    <3>4. Good(g, k)
      <4> HIDE DEF g
      <4>1. g = [i \in 0 .. k |-> g[i]]
        BY DEF g
      <4> QED BY <3>3, <4>1
    <3> QED BY <2>2, <3>4
  <2> QED BY <2>3, <2>4
<1> QED BY <1>1, Zenon DEF Way, start

Iteration(f, m, n, start, step) ==
  \A i \in m .. n : f[i] = IF i = m THEN start ELSE step[<<i, f[i - 1]>>]

\* A recursion over a range of numbers that stays in a set S has a value there.
LEMMA Iterates ==
  ASSUME NEW m \in Nat, NEW n \in Nat, m <= n, NEW S, NEW start \in S,
         NEW step \in [Nat \X S -> S]
  PROVE  \E f \in [m .. n -> S] : Iteration(f, m, n, start, step)
<1> USE DEF Iteration
<1> DEFINE Good(f, k) == f \in [m .. k -> S] /\ Iteration(f, m, k, start, step)
           wrong == {k \in m .. n : ~ \E f : Good(f, k)}
<1>1. SUFFICES ASSUME wrong # {} PROVE FALSE
  <2>1. n \notin wrong => \E f : Good(f, n)
    OBVIOUS
  <2> QED BY <2>1
<1>0. wrong \subseteq Nat
  OBVIOUS
<1>2. PICK k \in wrong : \A j \in wrong : k <= j
  BY <1>0, <1>1, Least
<1>3. CASE k = m
  <2>1. Good([i \in m .. m |-> start], m)
    OBVIOUS
  <2> QED BY <1>2, <1>3, <2>1
<1>4. CASE k # m
  <2>0. k \in m + 1 .. n /\ k - 1 \in m .. n /\ k - 1 < k
    BY <1>2, <1>4
  <2>1. k - 1 \in m .. n /\ k - 1 \notin wrong /\ k \in m + 1 .. n
    BY <1>2, <2>0
  <2>2. PICK f : Good(f, k - 1)
    BY <2>1
  <2>3. f[k - 1] \in S /\ step[<<k, f[k - 1]>>] \in S
    BY <2>1, <2>2
  <2> DEFINE g == [i \in m .. k |-> IF i = k THEN step[<<k, f[k - 1]>>] ELSE f[i]]
  <2>4. \A i \in m .. k : i # k => i \in m .. k - 1
    BY <2>1
  <2>5. g \in [m .. k -> S]
    BY <2>1, <2>2, <2>3, <2>4
  <2>6. \A i \in m .. k : g[i] = IF i = m THEN start ELSE step[<<i, g[i - 1]>>]
    <3> TAKE i \in m .. k
    <3>1. CASE i = k
      <4>1. g[i - 1] = f[k - 1]
        BY <3>1, <2>1
      <4> QED BY <3>1, <4>1, <1>4
    <3>2. CASE i # k
      <4>1. i \in m .. k - 1 /\ g[i] = f[i]
        BY <3>2, <2>4
      <4>2. f[i] = IF i = m THEN start ELSE step[<<i, f[i - 1]>>]
        BY <2>2, <4>1
      <4>3. i # m => g[i - 1] = f[i - 1]
        BY <3>2, <4>1
      <4> QED BY <4>1, <4>2, <4>3
    <3> QED BY <3>1, <3>2
  <2> HIDE DEF g
  <2>7. Good(g, k)
    BY <2>5, <2>6
  <2> QED BY <1>2, <2>7
<1> QED BY <1>3, <1>4

\* The concatenation of sequences over T is one, and what that of a few is.
LEMMA FlattenFacts ==
  ASSUME NEW T, NEW seqs \in Seq(Seq(T))
  PROVE  /\ FlattenSeq(seqs) \in Seq(T)
         /\ Len(seqs) = 0 => FlattenSeq(seqs) = <<>>
         /\ Len(seqs) = 1 => FlattenSeq(seqs) = seqs[1]
         /\ Len(seqs) = 2 => FlattenSeq(seqs) = seqs[1] \o seqs[2]
         /\ Len(seqs) = 3 => FlattenSeq(seqs) = seqs[1] \o seqs[2] \o seqs[3]
<1> DEFINE N == Len(seqs)
           S == Seq(T)
           step == [x \in Nat \X S |-> IF x[1] \in 1 .. N THEN x[2] \o seqs[x[1]] ELSE x[2]]
           Good(f) == f = [i \in 1 .. N |-> IF i = 1 THEN seqs[i] ELSE f[i - 1] \o seqs[i]]
           h == CHOOSE f : Good(f)
<1>1. N \in Nat /\ \A i \in 1 .. N : seqs[i] \in S
  OBVIOUS
<1>2. CASE N = 0
  <2>1. FlattenSeq(seqs) = seqs /\ seqs = <<>>
    BY <1>2 DEF FlattenSeq
  <2> QED BY <1>2, <2>1
<1>3. CASE N # 0
  <2>0. 1 <= N /\ 1 \in Nat /\ 1 + 1 = 2 /\ seqs[1] \in S
    BY <1>1, <1>3
  <2>1. step \in [Nat \X S -> S]
    BY <1>1
  <2>2. \A i \in 1 .. N, s \in S : step[<<i, s>>] = s \o seqs[i]
    <3> TAKE i \in 1 .. N, s \in S
    <3>1. i \in Nat /\ <<i, s>> \in Nat \X S
      BY <1>1
    <3> QED BY <3>1
  <2>a. \A s, t \in S : s \o t \in S
    OBVIOUS
  <2> HIDE DEF step, S, N
  <2>3. PICK f \in [1 .. N -> S] : Iteration(f, 1, N, seqs[1], step)
    BY <1>1, <2>0, <2>1, Iterates
  <2>4. \A i \in 1 .. N : f[i] = IF i = 1 THEN seqs[i] ELSE f[i - 1] \o seqs[i]
    <3> TAKE i \in 1 .. N
    <3>1. i # 1 => f[i - 1] \in S
      BY <1>1
    <3> QED BY <2>2, <2>3, <3>1 DEF Iteration
  <2>5. f = [i \in 1 .. N |-> f[i]]
    OBVIOUS
  <2>6. Good(f)
    BY <2>4, <2>5
  <2>7. Good(h)
    BY <2>6, Zenon
  <2> HIDE DEF h
  <2>8. FlattenSeq(seqs) = h[N]
    BY <1>3, Zenon DEF FlattenSeq, h, N
  <2>c. \A i \in 1 .. N : h[i] = IF i = 1 THEN seqs[i] ELSE h[i - 1] \o seqs[i]
    BY <2>7
  <2>d. 1 \in 1 .. N /\ \A i \in 2 .. N : i \in 1 .. N /\ i # 1
    BY <1>1, <2>0
  <2>9. h[1] = seqs[1] /\ \A i \in 2 .. N : h[i] = h[i - 1] \o seqs[i]
    BY <2>c, <2>d
  <2>10. StaysIn(h, 1, N, S)
    <3>1. \A i \in 1 + 1 .. N : h[i - 1] \in S => h[i] \in S
      BY <1>1, <2>0, <2>9, <2>a, <2>d
    <3> QED BY <3>1 DEF StaysIn
  <2>11. h[N] \in S
    <3>1. h[1] \in S /\ 1 <= N /\ N \in Nat /\ 1 \in Nat
      BY <1>1, <2>0, <2>9
    <3>2. \A i \in 1 .. N : h[i] \in S
      BY <2>10, <3>1, EndsIn
    <3> QED BY <3>1, <3>2
  <2>12. /\ N = 1 => h[N] = seqs[1]
         /\ N = 2 => h[N] = seqs[1] \o seqs[2]
         /\ N = 3 => h[N] = seqs[1] \o seqs[2] \o seqs[3]
    <3>1. N \in Nat /\ \A i \in 2 .. N : h[i] = h[i - 1] \o seqs[i]
      BY <1>1, <2>9
    <3>2. ASSUME N = 2 \/ N = 3 PROVE h[2] = h[1] \o seqs[2]
      <4>1. \A i : i = 2 => i \in 2 .. N /\ i - 1 = 1
        BY <3>1, <3>2
      <4> QED BY <3>1, <4>1
    <3>3. ASSUME N = 3 PROVE h[3] = h[2] \o seqs[3]
      <4>1. \A i : i = 3 => i \in 2 .. N /\ i - 1 = 2
        BY <3>1, <3>3
      <4> QED BY <3>1, <4>1
    <3> QED BY <2>9, <3>2, <3>3
  <2> QED BY <1>3, <2>8, <2>11, <2>12 DEF N, S
<1> QED BY <1>2, <1>3

-----------------------------------------------------------------------------
(* The contents of pages.                                                  *)

LEMMA WiderSeq ==
  ASSUME NEW A, NEW B, A \subseteq B, NEW s \in Seq(A)
  PROVE  s \in Seq(B)
<1>1. s \in [1 .. Len(s) -> B] /\ Len(s) \in Nat
  OBVIOUS
<1> QED BY <1>1

LEMMA PageNumbers ==
  /\ Pages \subseteq Nat /\ 0 \in Pages
  /\ \A p \in Nat : p \in Pages <=> p < TABLE_MAX_PAGES
BY TableAssumption DEF Pages, P!PageNums

LEMMA RowKeys == \A r \in Row : r.key \in Keys /\ r.key \in Int
<1>1. \A r \in Row : r.key \in Keys
  BY DEF Row
<1>2. \A k \in Keys : k \in Int
  BY KeysAssumption
<1> QED BY <1>1, <1>2

LEMMA SeparatorKeys == \A t \in Separator : t.child \in Pages /\ t.key \in Keys /\ t.key \in Int
<1>1. \A t \in Separator : t.child \in Pages /\ t.key \in Keys
  BY DEF Separator
<1>2. \A k \in Keys : k \in Int
  BY KeysAssumption
<1> QED BY <1>1, <1>2

\* initial_leaf_node keeps the parent only.
LEMMA InitialLeafFacts ==
  ASSUME NEW n \in Nodes
  PROVE  /\ InitialLeaf(n) \in Nodes
         /\ InitialLeaf(n).type = "leaf" /\ InitialLeaf(n).root = FALSE
         /\ InitialLeaf(n).parent = n.parent /\ InitialLeaf(n).link = 0
         /\ InitialLeaf(n).cells = <<>>
<1>1. <<>> \in Seq(Row)
  OBVIOUS
<1>2. InitialLeaf(n) \in Nodes
  BY <1>1 DEF InitialLeaf, Nodes
<1>3. /\ InitialLeaf(n).type = "leaf" /\ InitialLeaf(n).root = FALSE
      /\ InitialLeaf(n).parent = n.parent /\ InitialLeaf(n).link = 0
      /\ InitialLeaf(n).cells = <<>>
  BY DEF InitialLeaf, Nodes
<1> QED BY <1>2, <1>3

\* What makes a leaf of a node.
LEMMA LeafNodeFrom ==
  ASSUME NEW n \in Nodes, n.type = "leaf", n.root \in BOOLEAN, n.link \in Pages,
         n.cells \in Seq(Row), ~n.root => n.parent = 0,
         \A i, j \in 1 .. Len(n.cells) : i < j => n.cells[i].key < n.cells[j].key,
         Len(n.cells) <= LEAF_NODE_MAX_CELLS
  PROVE  LeafNode(n)
<1>1. n \in [type : {"leaf"}, root : BOOLEAN, parent : Nat \cup {Unset},
             link : Pages, cells : Seq(Row)]
  BY DEF Nodes
<1> QED BY <1>1, RowKeys DEF LeafNode, Ordered, NumCells

LEMMA SpareNodes ==
  /\ ZeroNode \in Nodes /\ JunkNode \in Nodes /\ EmptyRootLeaf \in Nodes
  /\ ~IsLeaf(ZeroNode) /\ ~IsJunk(ZeroNode) /\ ~IsLeaf(JunkNode) /\ IsJunk(JunkNode)
  /\ RootLeaf(EmptyRootLeaf) /\ EmptyRootLeaf.cells = <<>>
<1>1. <<>> \in Seq(Row) /\ Len(<<>>) = 0
  OBVIOUS
<1>2. ZeroNode \in Nodes /\ JunkNode \in Nodes
  BY <1>1 DEF ZeroNode, JunkNode, Nodes
<1>3. /\ ~IsLeaf(ZeroNode) /\ ~IsJunk(ZeroNode) /\ ~IsLeaf(JunkNode) /\ IsJunk(JunkNode)
  BY UnsetAssumption DEF ZeroNode, JunkNode, IsLeaf, IsJunk
<1> DEFINE leaf == InitialLeaf(JunkNode)
<1>4. leaf \in Nodes /\ leaf.type = "leaf" /\ leaf.link = 0 /\ leaf.cells = <<>>
  BY <1>2, InitialLeafFacts
<1> HIDE DEF leaf
<1>5. /\ [leaf EXCEPT !.root = TRUE] \in Nodes
      /\ [leaf EXCEPT !.root = TRUE].type = "leaf" /\ [leaf EXCEPT !.root = TRUE].root = TRUE
      /\ [leaf EXCEPT !.root = TRUE].link = 0 /\ [leaf EXCEPT !.root = TRUE].cells = <<>>
  BY <1>4 DEF Nodes
<1>6. /\ EmptyRootLeaf \in Nodes /\ EmptyRootLeaf.type = "leaf" /\ EmptyRootLeaf.root = TRUE
      /\ EmptyRootLeaf.link = 0 /\ EmptyRootLeaf.cells = <<>>
  BY <1>5 DEF EmptyRootLeaf, leaf
<1>7. LeafNode(EmptyRootLeaf)
  <2> DEFINE n == EmptyRootLeaf
  <2>1. /\ n \in Nodes /\ n.type = "leaf" /\ n.root \in BOOLEAN /\ n.link \in Pages
        /\ n.cells \in Seq(Row) /\ Len(n.cells) = 0 /\ n.root
    BY <1>1, <1>6, PageNumbers
  <2> HIDE DEF n
  <2>2. /\ \A i, j \in 1 .. Len(n.cells) : i < j => n.cells[i].key < n.cells[j].key
        /\ Len(n.cells) <= LEAF_NODE_MAX_CELLS
    BY <2>1, LeafSizeAssumption
  <2>3. LeafNode(n)
    BY <2>1, <2>2, LeafNodeFrom
  <2> QED BY <2>3 DEF n
<1> QED BY <1>2, <1>3, <1>6, <1>7 DEF RootLeaf

LEMMA LeafNodeFacts ==
  ASSUME NEW n, LeafNode(n)
  PROVE  /\ n \in Nodes /\ IsLeaf(n) /\ ~IsJunk(n)
         /\ n.cells \in Seq(Row) /\ NumCells(n) \in Nat /\ NumCells(n) = Len(n.cells)
         /\ \A r \in ToSet(n.cells) : r \in Row /\ r.key \in Int
         /\ \A i \in 1 .. NumCells(n) : n.cells[i] \in ToSet(n.cells)
         /\ Children(n) = <<>>
<1>1. /\ n \in [type : {"leaf"}, root : BOOLEAN, parent : Nat \cup {Unset},
                link : Pages, cells : Seq(Row)]
      /\ NumCells(n) = Len(n.cells)
  BY DEF LeafNode, NumCells
<1>2. n \in Nodes
  BY <1>1, PageNumbers DEF Nodes
<1>3. IsLeaf(n) /\ ~IsJunk(n)
  BY <1>1, UnsetAssumption DEF IsLeaf, IsJunk
<1>4. DOMAIN n.cells = 1 .. NumCells(n) /\ NumCells(n) \in Nat /\ \A i \in 1 .. NumCells(n) : n.cells[i] \in Row
  BY <1>1
<1>6. ToSet(n.cells) = {n.cells[i] : i \in 1 .. NumCells(n)}
  BY <1>4 DEF ToSet
<1> QED BY <1>1, <1>2, <1>3, <1>4, RowKeys, <1>6 DEF Children

LEMMA RootOverFacts ==
  ASSUME NEW n, NEW l, NEW r, RootOver(n, l, r)
  PROVE  /\ n \in Nodes /\ ~IsLeaf(n) /\ ~IsJunk(n) /\ n.root
         /\ l \in Pages /\ r \in Pages /\ n.link = r
         /\ n.cells \in Seq(Separator) /\ NumCells(n) = 1
         /\ n.cells[1] \in Separator /\ n.cells[1].child = l
         /\ n.cells[1].key \in Keys /\ n.cells[1].key \in Int
         /\ Ordered(n, Separator)
         /\ Children(n) = <<l, r>>
         /\ Len(Children(n)) = 2 /\ Children(n)[1] = l /\ Children(n)[2] = r
         /\ \A key \in Int : ChildFor(n, key) = IF n.cells[1].key < key THEN r ELSE l
<1>1. /\ n \in [type : {"internal"}, root : {TRUE}, parent : Nat \cup {Unset},
                link : {r}, cells : Seq(Separator)]
      /\ NumCells(n) = 1 /\ Len(n.cells) = 1
      /\ n.cells[1].child = l
      /\ l \in Pages /\ r \in Pages
  BY DEF RootOver, NumCells
<1>2. Separator \subseteq [child : Nat, key : Keys]
  <2>1. \A t \in [child : Pages, key : Keys] : t \in [child : Nat, key : Keys]
    BY PageNumbers
  <2> QED BY <2>1 DEF Separator
<1>3. n.cells \in Seq([child : Nat, key : Keys])
  <2> DEFINE wide == [child : Nat, key : Keys]
  <2>1. Separator \subseteq wide
    BY <1>2
  <2> HIDE DEF wide
  <2>2. \A s \in Seq(Separator) : s \in Seq(wide)
    BY <2>1, WiderSeq
  <2> QED BY <1>1, <2>2 DEF wide
<1>4. n \in Nodes
  BY <1>1, <1>3, PageNumbers DEF Nodes
<1>5. ~IsLeaf(n) /\ ~IsJunk(n) /\ n.root
  BY <1>1, UnsetAssumption DEF IsLeaf, IsJunk
<1>6. n.cells[1] \in Separator
  BY <1>1
<1>7. n.cells[1].key \in Keys /\ n.cells[1].key \in Int
  BY <1>6, SeparatorKeys
<1>8. Ordered(n, Separator)
  BY <1>1, SeparatorKeys DEF Ordered
<1>9. Children(n) = <<l, r>>
  <2>1. ChildAt(n, 0) = l /\ ChildAt(n, 1) = r
    BY <1>1 DEF ChildAt
  <2>2. Children(n) = [i \in 1 .. 2 |-> ChildAt(n, i - 1)]
    BY <1>1, <1>5 DEF Children
  <2> QED BY <2>1, <2>2
<1>10. \A key \in Int : ChildFor(n, key) = IF n.cells[1].key < key THEN r ELSE l
  <2> TAKE key \in Int
  <2>1. IsPlace(n, key, FindChild(n, key))
    BY <1>8, FindChildIsPlace
  <2>2. FindChild(n, key) = IF n.cells[1].key < key THEN 1 ELSE 0
    BY <1>1, <1>7, <2>1 DEF IsPlace
  <2> QED BY <1>1, <2>2 DEF ChildFor, ChildAt
<1>11. Len(Children(n)) = 2 /\ Children(n)[1] = l /\ Children(n)[2] = r
  BY <1>9
<1> QED BY <1>1, <1>4, <1>5, <1>6, <1>7, <1>8, <1>9, <1>10, <1>11

-----------------------------------------------------------------------------
(* The pager under the calls of the tree code.                             *)

\* pg2 is pg with some of the pages S read into memory.
Loads(pg, pg2, S) ==
  /\ Kept(pg2)
  /\ \A q \in Pages : P!Seen(pg2, q) = P!Seen(pg, q)
  /\ \A q \in Pages : pg.pages[q] # Null => pg2.pages[q] = pg.pages[q]
  /\ \A q \in Pages \ S : pg2.pages[q] = pg.pages[q]
  /\ (\A q \in S : pg.pages[q] # Null) => pg2 = pg

\* The pager's variables, as far as get_page reads them.
FileOfNodes == file \in Seq(Nodes)

LEMMA KeptFacts ==
  ASSUME FileOfNodes, NEW pg, Kept(pg)
  PROVE  /\ pg.pages \in [Pages -> Nodes \cup {Null}]
         /\ pg.num_pages \in Nat /\ pg.file_len \in Nat /\ pg.pos \in Nat
         /\ \A q \in Pages : P!ReadSlot(q) \in Nodes /\ P!ReadSlot(q) # Null
         /\ \A q \in Pages : P!Seen(pg, q) \in Nodes
         /\ \A q \in Pages : P!Seen(pg, q) = IF pg.pages[q] # Null THEN pg.pages[q] ELSE P!ReadSlot(q)
         /\ \A q \in Pages : pg.pages[q] # Null => pg.pages[q] \in Nodes
<1>1. /\ pg.pages \in [Pages -> Nodes \cup {Null}]
      /\ pg.num_pages \in Nat /\ pg.file_len \in Nat /\ pg.pos \in Nat
  BY DEF Kept, PagerRecord
<1>2. \A q \in Pages : P!ReadSlot(q) \in Nodes
  <2> TAKE q \in Pages
  <2>1. q \in Nat /\ Len(file) \in Nat /\ JunkNode \in Nodes
    BY PageNumbers, SpareNodes DEF FileOfNodes
  <2>2. q < Len(file) => file[q + 1] \in Nodes
    BY <2>1 DEF FileOfNodes
  <2> QED BY <2>1, <2>2 DEF P!ReadSlot
<1>3. \A n \in Nodes : n # Null
  BY NullAssumption
<1> QED BY <1>1, <1>2, <1>3 DEF P!Seen

\* get_page within the table.
LEMMA LoadPageLoads ==
  ASSUME FileOfNodes, NEW pg, Kept(pg), NEW p \in Pages
  PROVE  /\ Loads(pg, P!LoadPage(pg, p), {p})
         /\ P!LoadPage(pg, p).pages[p] = P!Seen(pg, p)
         /\ P!LoadPage(pg, p).pages[p] # Null
         /\ pg.pages[p] = Null => P!LoadPage(pg, p).num_pages =
              IF p >= pg.num_pages THEN p + 1 ELSE pg.num_pages
<1> DEFINE lp == P!LoadPage(pg, p)
<1>1. CASE pg.pages[p] # Null
  <2>1. lp = pg
    BY <1>1 DEF P!LoadPage
  <2> QED BY <1>1, <2>1, KeptFacts DEF Loads
<1>2. CASE pg.pages[p] = Null
  <2> DEFINE pages == [pg.pages EXCEPT ![p] = P!ReadSlot(p)]
  <2> DEFINE count == IF p >= pg.num_pages THEN p + 1 ELSE pg.num_pages
  <2>1. lp = [pg EXCEPT !.pages = pages, !.pos = P!PosAfterRead(pg, p), !.num_pages = count]
    BY <1>2 DEF P!LoadPage, Kept, PagerRecord
  <2>2. /\ pages \in [Pages -> Nodes \cup {Null}]
        /\ pages[p] = P!ReadSlot(p) /\ pages[p] # Null
        /\ \A q \in Pages \ {p} : pages[q] = pg.pages[q]
    BY KeptFacts
  <2>3. /\ p \in Nat /\ Len(file) \in Nat /\ pg.num_pages \in Nat /\ pg.pos \in Nat
        /\ pg.file_len = Len(file) /\ Len(file) <= pg.num_pages
        /\ pg.pos > 0 <=> Len(file) > 0
        /\ \A q \in Pages : q \in Nat /\ (pg.pages[q] # Null => q < pg.num_pages)
    BY PageNumbers, KeptFacts DEF FileOfNodes, Kept
  <2>4. count \in Nat /\ pg.num_pages <= count /\ p < count
    BY <2>3
  <2>5. /\ P!PosAfterRead(pg, p) \in Nat
        /\ P!PosAfterRead(pg, p) > 0 <=> Len(file) > 0
    BY <2>3 DEF P!PosAfterRead
  <2> HIDE DEF pages, count
  <2>6. /\ lp \in PagerRecord
        /\ lp.pages = pages /\ lp.num_pages = count
        /\ lp.pos = P!PosAfterRead(pg, p) /\ lp.file_len = pg.file_len
    BY <2>1, <2>2, <2>4, <2>5 DEF Kept, PagerRecord
  <2> HIDE DEF lp
  <2>7. \A q \in Pages : lp.pages[q] # Null => q < lp.num_pages
    BY <2>2, <2>3, <2>4, <2>6
  <2>8. Kept(lp)
    BY <2>3, <2>4, <2>5, <2>6, <2>7 DEF Kept
  <2>9. \A q \in Pages : P!Seen(lp, q) = P!Seen(pg, q)
    BY <1>2, <2>2, <2>6 DEF P!Seen
  <2>10. Loads(pg, lp, {p})
    BY <1>2, <2>2, <2>6, <2>8, <2>9 DEF Loads
  <2>11. lp.pages[p] = P!Seen(pg, p)
    BY <1>2, <2>2, <2>6 DEF P!Seen
  <2> QED BY <2>2, <2>6, <2>10, <2>11 DEF lp, count
<1> QED BY <1>1, <1>2

\* Loading twice.
LEMMA LoadsTwice ==
  ASSUME NEW pg, NEW pg1, NEW pg2, NEW S, S \subseteq Pages,
         Loads(pg, pg1, S), Loads(pg1, pg2, S)
  PROVE  Loads(pg, pg2, S)
BY DEF Loads

LEMMA LoadsWider ==
  ASSUME NEW pg, NEW pg2, NEW S, NEW T, S \subseteq T, T \subseteq Pages, Loads(pg, pg2, S)
  PROVE  Loads(pg, pg2, T)
BY DEF Loads

LEMMA LoadsNone ==
  ASSUME FileOfNodes, NEW pg, Kept(pg), NEW S
  PROVE  Loads(pg, pg, S)
BY DEF Loads

\* The caller writes a page it holds.
LEMMA StorePageKept ==
  ASSUME FileOfNodes, NEW pg, Kept(pg), NEW p \in Pages, pg.pages[p] # Null, NEW c \in Nodes
  PROVE  /\ Kept(P!StorePage(pg, p, c))
         /\ P!StorePage(pg, p, c).pages[p] = c
         /\ \A q \in Pages \ {p} : P!StorePage(pg, p, c).pages[q] = pg.pages[q]
         /\ P!StorePage(pg, p, c).num_pages = pg.num_pages
<1> DEFINE pages == [pg.pages EXCEPT ![p] = c]
           sp == P!StorePage(pg, p, c)
<1>1. /\ pages \in [Pages -> Nodes \cup {Null}] /\ pages[p] = c
      /\ \A q \in Pages \ {p} : pages[q] = pg.pages[q]
  BY KeptFacts
<1>2. sp = [pg EXCEPT !.pages = pages]
  BY DEF P!StorePage
<1> HIDE DEF pages
<1>3. /\ sp \in PagerRecord /\ sp.pages = pages
      /\ sp.num_pages = pg.num_pages /\ sp.pos = pg.pos /\ sp.file_len = pg.file_len
  BY <1>1, <1>2 DEF Kept, PagerRecord
<1> HIDE DEF sp
<1>4. \A q \in Pages : sp.pages[q] # Null => q < sp.num_pages
  BY <1>1, <1>3 DEF Kept
<1>5. Kept(sp)
  BY <1>3, <1>4 DEF Kept
<1> QED BY <1>1, <1>3, <1>5 DEF sp

-----------------------------------------------------------------------------
(* The shapes of the tree, and what reading pages leaves of them.          *)

\* From a page in S the way goes on to a page in S.
GoesOn(n, S) ==
  /\ \A key \in Int : ~IsLeaf(n) /\ ~IsJunk(n) => ChildFor(n, key) \in S
  /\ Children(n) \in Seq(S)

LEMMA TreeHasShape ==
  ASSUME NEW pg
  PROVE  /\ TreeIn(pg) <=> \E S \in SUBSET Pages : Shape(pg, S)
         /\ \A S : Shape(pg, S) => TreeIn(pg) /\ S \subseteq Pages /\ 0 \in S
<1>1. \A S : Shape(pg, S) => TreeIn(pg) /\ S \subseteq Pages /\ 0 \in S
  <2> SUFFICES ASSUME NEW S, Shape(pg, S) PROVE TreeIn(pg) /\ S \subseteq Pages /\ 0 \in S
    OBVIOUS
  <2>1. CASE SplitSaved
    <3>1. Saved(pg) /\ S = {0, 1, 2}
      BY <2>1 DEF Shape
    <3>2. 1 \in Pages /\ 2 \in Pages
      BY <3>1 DEF Saved, RootOver
    <3> QED BY <2>1, <3>1, <3>2, PageNumbers DEF TreeIn
  <2>2. CASE ~SplitSaved
    BY <2>2, PageNumbers DEF TreeIn, Shape
  <2> QED BY <2>1, <2>2
<1>2. TreeIn(pg) => \E S : Shape(pg, S)
  BY DEF TreeIn, Shape
<1> QED BY <1>1, <1>2

LEMMA ZeroNodeGoesOn ==
  /\ Children(ZeroNode) = <<0>> /\ Children(JunkNode) = <<>>
  /\ \A key \in Int : ChildFor(ZeroNode, key) = 0
<1>1. NumCells(ZeroNode) = 0 /\ ZeroNode.link = 0 /\ ZeroNode.cells = <<>>
  BY DEF ZeroNode, NumCells
<1>2. Ordered(ZeroNode, Separator)
  BY <1>1, SeparatorKeys DEF Ordered
<1>3. \A key \in Int : FindChild(ZeroNode, key) = 0
  BY <1>1, <1>2, FindChildIsPlace DEF IsPlace
<1>4. ChildAt(ZeroNode, 0) = 0
  BY <1>1 DEF ChildAt
<1>5. Children(ZeroNode) = [i \in 1 .. 1 |-> ChildAt(ZeroNode, i - 1)]
  BY <1>1, SpareNodes DEF Children
<1>6. Children(JunkNode) = <<>>
  BY SpareNodes DEF Children
<1> QED BY <1>3, <1>4, <1>5, <1>6 DEF ChildFor

LEMMA ShapeGoesOn ==
  ASSUME FileOfNodes, NEW pg, Kept(pg), NEW S, Shape(pg, S), NEW q \in S
  PROVE  GoesOn(P!Seen(pg, q), S)
<1> DEFINE n == P!Seen(pg, q)
<1>0. S \subseteq Pages /\ q \in Pages /\ 0 \in S
  BY TreeHasShape
<1>1. ASSUME NEW leaf, LeafNode(leaf) PROVE GoesOn(leaf, S)
  <2>1. IsLeaf(leaf) /\ Children(leaf) = <<>>
    BY <1>1, LeafNodeFacts
  <2>2. <<>> \in Seq(S)
    OBVIOUS
  <2> QED BY <2>1, <2>2 DEF GoesOn
<1>2. ASSUME NEW l \in S, NEW r \in S, NEW root, RootOver(root, l, r) PROVE GoesOn(root, S)
  <2>1. Children(root) = <<l, r>> /\ \A key \in Int : ChildFor(root, key) \in {l, r}
    BY <1>2, RootOverFacts
  <2> QED BY <2>1 DEF GoesOn
<1>3. GoesOn(ZeroNode, S) /\ GoesOn(JunkNode, S)
  BY <1>0, ZeroNodeGoesOn, SpareNodes DEF GoesOn
<1>4. CASE SplitSaved
  <2>1. Saved(pg) /\ S = {0, 1, 2}
    BY <1>4 DEF Shape
  <2>2. RootOver(n, 2, 1) \/ Misplaced(n)
    BY <2>1 DEF Saved
  <2>3. RootOver(n, 2, 1) => GoesOn(n, S)
    BY <1>2, <2>1
  <2> QED BY <1>1, <1>3, <2>2, <2>3 DEF Misplaced, LastLeaf
<1>5. CASE ~SplitSaved /\ S = {0} /\ Single(pg)
  BY <1>1, <1>5 DEF Single, RootLeaf
<1>6. CASE ~SplitSaved /\ ~(S = {0} /\ Single(pg))
  <2>1. PICK l, r \in Pages : Forked(pg, l, r) /\ S = {0, l, r}
    BY <1>6 DEF Shape
  <2>2. n = pg.pages[q]
    BY <2>1 DEF Forked, P!Seen
  <2>3. q = 0 => GoesOn(n, S)
    BY <1>2, <2>1, <2>2 DEF Forked
  <2>4. q # 0 => LeafNode(n)
    BY <2>1, <2>2 DEF Forked, LastLeaf
  <2> QED BY <1>1, <2>3, <2>4
<1> QED BY <1>4, <1>5, <1>6

\* Reading pages of the tree changes nothing about it.
LEMMA LoadsShape ==
  ASSUME FileOfNodes, NEW pg, Kept(pg), NEW S, Shape(pg, S), NEW pg2, Loads(pg, pg2, S)
  PROVE  Shape(pg2, S) /\ Kept(pg2)
<1>0. S \subseteq Pages /\ 0 \in S /\ Kept(pg2)
  BY TreeHasShape DEF Loads
<1>1. CASE SplitSaved
  <2>1. Saved(pg) /\ S = {0, 1, 2}
    BY <1>1 DEF Shape
  <2>2. \A q \in S : P!Seen(pg2, q) = P!Seen(pg, q)
    BY <1>0 DEF Loads
  <2>3. \A p \in Pages : pg2.pages[p] # Null => p \in 0 .. 2
    BY <2>1 DEF Loads, Saved
  <2>4. Saved(pg2)
    BY <2>1, <2>2, <2>3 DEF Saved
  <2> QED BY <1>0, <1>1, <2>1, <2>4 DEF Shape
<1>2. CASE ~SplitSaved /\ Single(pg) /\ S = {0}
  <2>1. P!Seen(pg2, 0) = P!Seen(pg, 0)
    BY <1>0 DEF Loads
  <2>2. Len(file) = 0 => pg2 = pg
    BY <1>2 DEF Loads, Single
  <2>3. Single(pg2)
    BY <1>2, <2>1, <2>2 DEF Single
  <2> QED BY <1>0, <1>2, <2>3 DEF Shape
<1>3. CASE ~SplitSaved /\ ~(Single(pg) /\ S = {0})
  <2>1. PICK l, r \in Pages : Forked(pg, l, r) /\ S = {0, l, r}
    BY <1>3 DEF Shape
  <2>2. pg2 = pg
    BY <2>1 DEF Loads, Forked
  <2> QED BY <1>0, <2>2
<1> QED BY <1>1, <1>2, <1>3

-----------------------------------------------------------------------------
(* What table_find finds.                                                  *)

\* The pager and the page after n steps of the way to key.
Reached(pg, key, n) == Way(pg, key, n)[n]

LEMMA TableFindIs ==
  ASSUME NEW pg, NEW key
  PROVE  /\ TableFind(pg, key).pg = Way(pg, key, TABLE_MAX_PAGES)[TABLE_MAX_PAGES].pg
         /\ TableFind(pg, key).page = Way(pg, key, TABLE_MAX_PAGES)[TABLE_MAX_PAGES].page
         /\ TableFind(pg, key).endless <=> ~IsLeaf(TableFind(pg, key).pg.pages[TableFind(pg, key).page])
         /\ TableFind(pg, key).cell =
              IF IsLeaf(TableFind(pg, key).pg.pages[TableFind(pg, key).page])
              THEN LeafFind(TableFind(pg, key).pg.pages[TableFind(pg, key).page], key) ELSE 0
<1> DEFINE end == Way(pg, key, TABLE_MAX_PAGES)[TABLE_MAX_PAGES]
           leaf == end.pg.pages[end.page]
<1>1. TableFind(pg, key) =
        [pg |-> end.pg, page |-> end.page, endless |-> ~IsLeaf(leaf),
         cell |-> IF IsLeaf(leaf) THEN LeafFind(leaf, key) ELSE 0]
  BY Zenon DEF TableFind, Way
<1>2. leaf = end.pg.pages[end.page]
  OBVIOUS
<1> HIDE DEF end, leaf
<1>3. TableFind(pg, key).pg = end.pg /\ TableFind(pg, key).page = end.page
  BY <1>1
<1>4. TableFind(pg, key).pg.pages[TableFind(pg, key).page] = leaf
  BY <1>2, <1>3
<1>5. TableFind(pg, key).endless <=> ~IsLeaf(leaf)
  <2> DEFINE endless == ~IsLeaf(leaf)
             cell == IF IsLeaf(leaf) THEN LeafFind(leaf, key) ELSE 0
  <2>1. TableFind(pg, key) =
          [pg |-> end.pg, page |-> end.page, endless |-> endless, cell |-> cell]
    BY <1>1, Zenon
  <2> HIDE DEF endless, cell
  <2>2. TableFind(pg, key).endless = endless
    BY <2>1
  <2> QED BY <2>2, Zenon DEF endless
<1>6. TableFind(pg, key).cell = IF IsLeaf(leaf) THEN LeafFind(leaf, key) ELSE 0
  BY <1>1
<1> QED BY <1>3, <1>4, <1>5, <1>6 DEF end

\* A step that stays at a leaf.
LEMMA DescendStays ==
  ASSUME NEW at, NEW key, IsLeaf(at.pg.pages[at.page])
  PROVE  Descend(at, key) = at
BY DEF Descend

\* In every shape the search reads pages of the tree only, and ends at one.
LEMMA FindInShape ==
  ASSUME FileOfNodes, NEW pg, Kept(pg), NEW S, Shape(pg, S), NEW key \in Int,
         NEW find, find = TableFind(pg, key)
  PROVE  /\ Loads(pg, find.pg, S)
         /\ find.page \in S
         /\ find.pg.pages[find.page] = P!Seen(pg, find.page)
         /\ find.pg.pages[find.page] # Null
         /\ find.endless <=> ~IsLeaf(P!Seen(pg, find.page))
         /\ IsLeaf(P!Seen(pg, find.page)) => find.cell = LeafFind(P!Seen(pg, find.page), key)
<1> DEFINE n == TABLE_MAX_PAGES
           way == Way(pg, key, n)
           OnWay(at) == /\ Loads(pg, at.pg, S) /\ at.page \in S
                        /\ at.pg.pages[at.page] = P!Seen(pg, at.page)
                        /\ at.pg.pages[at.page] # Null
           start == [pg |-> P!LoadPage(pg, 0), page |-> 0]
           Good == {way[i] : i \in {j \in 0 .. n : OnWay(way[j])}}
<1>0. S \subseteq Pages /\ 0 \in S /\ n \in Nat
  BY TreeHasShape, TableAssumption
<1>1. ASSUME NEW pg1, NEW q \in S, Loads(pg, pg1, S)
      PROVE  OnWay([pg |-> P!LoadPage(pg1, q), page |-> q])
  <2> DEFINE lp == P!LoadPage(pg1, q)
  <2>1. Kept(pg1) /\ q \in Pages
    BY <1>0, <1>1 DEF Loads
  <2>2. Loads(pg1, lp, {q}) /\ lp.pages[q] = P!Seen(pg1, q) /\ lp.pages[q] # Null
    BY <2>1, LoadPageLoads
  <2>3. Loads(pg1, lp, S)
    BY <1>0, <2>2, LoadsWider
  <2>4. Loads(pg, lp, S)
    BY <1>0, <1>1, <2>3, LoadsTwice
  <2>5. P!Seen(pg1, q) = P!Seen(pg, q)
    BY <1>1, <2>1 DEF Loads
  <2> QED BY <2>2, <2>4, <2>5
<1>2. OnWay(start)
  BY <1>0, <1>1, LoadsNone
<1>3. ASSUME NEW at, OnWay(at) PROVE OnWay(Descend(at, key))
  <2> DEFINE node == at.pg.pages[at.page]
             child == ChildFor(node, key)
  <2>1. CASE IsLeaf(node) \/ IsJunk(node)
    BY <1>3, <2>1 DEF Descend
  <2>2. CASE ~(IsLeaf(node) \/ IsJunk(node))
    <3>1. Descend(at, key) = [pg |-> P!LoadPage(at.pg, child), page |-> child]
      BY <2>2 DEF Descend
    <3>2. child \in S
      BY <1>3, <2>2, ShapeGoesOn DEF GoesOn
    <3> QED BY <1>1, <1>3, <3>1, <3>2
  <2> QED BY <2>1, <2>2
<1>4. way = [i \in 0 .. n |-> IF i = 0 THEN start ELSE Descend(way[i - 1], key)]
  BY <1>0, WayExists
<1>5. way[0] = start /\ \A i \in 1 .. n : way[i] = Descend(way[i - 1], key)
  <2> HIDE DEF start, way
  <2> QED BY <1>0, <1>4
<1> DEFINE wrong == {i \in 0 .. n : ~OnWay(way[i])}
<1>6. OnWay(way[n])
  <2> HIDE DEF OnWay, way, start, Good
  <2>1. SUFFICES ASSUME wrong # {} PROVE FALSE
    BY <1>0
  <2>2. wrong \subseteq Nat
    OBVIOUS
  <2>3. PICK i \in wrong : \A j \in wrong : i <= j
    BY <2>1, <2>2, Least
  <2>4. i # 0
    BY <1>2, <1>5, <2>3
  <2>5. i \in 1 .. n /\ i - 1 \in 0 .. n /\ i - 1 < i
    BY <1>0, <2>3, <2>4
  <2>6. OnWay(way[i - 1])
    BY <2>3, <2>5
  <2> QED BY <1>3, <1>5, <2>3, <2>5, <2>6
<1>7. find.pg = way[n].pg /\ find.page = way[n].page
  BY TableFindIs
<1>8. /\ find.endless <=> ~IsLeaf(find.pg.pages[find.page])
      /\ IsLeaf(find.pg.pages[find.page]) => find.cell = LeafFind(find.pg.pages[find.page], key)
  BY TableFindIs
<1> HIDE DEF way
<1> QED BY <1>6, <1>7, <1>8

\* In a root over two leaves in memory, the separator tells the leaf.
Chosen(pg, left, right, key) == IF pg.pages[0].cells[1].key < key THEN right ELSE left

\* A way of one step, from a root in memory to a leaf in memory.
LEMMA FindBelowRoot ==
  ASSUME NEW pg, NEW key, NEW child, NEW find, find = TableFind(pg, key),
         pg.pages[0] # Null, ~IsLeaf(pg.pages[0]), ~IsJunk(pg.pages[0]),
         ChildFor(pg.pages[0], key) = child, pg.pages[child] # Null, IsLeaf(pg.pages[child])
  PROVE  /\ find.pg = pg /\ find.page = child /\ ~find.endless
         /\ find.cell = LeafFind(pg.pages[child], key)
<1> DEFINE n == TABLE_MAX_PAGES
           way == Way(pg, key, n)
           start == [pg |-> pg, page |-> 0]
           there == [pg |-> pg, page |-> child]
<1>1. P!LoadPage(pg, 0) = pg /\ P!LoadPage(pg, child) = pg
  BY DEF P!LoadPage
<1>2. n \in Nat /\ 1 <= n
  BY TableAssumption
<1>3. Descend(start, key) = there
  BY <1>1 DEF Descend
<1>4. Descend(there, key) = there
  BY DescendStays
<1>5. way = [i \in 0 .. n |-> IF i = 0 THEN [pg |-> P!LoadPage(pg, 0), page |-> 0]
                              ELSE Descend(way[i - 1], key)]
  BY <1>2, WayExists
<1> HIDE DEF way, there
<1>6. way[0] = start /\ \A i \in 1 .. n : way[i] = Descend(way[i - 1], key)
  BY <1>1, <1>2, <1>5
<1>7. way[1] = there
  BY <1>2, <1>3, <1>6
<1>8. \A i \in 2 .. n : way[i - 1] \in {there} => way[i] \in {there}
  BY <1>2, <1>4, <1>6
<1>9. way[n] = there
  <2>1. StaysIn(way, 1, n, {there})
    BY <1>8 DEF StaysIn
  <2>2. 1 \in Nat /\ way[1] \in {there}
    BY <1>7
  <2>3. \A i \in 1 .. n : way[i] \in {there}
    BY <1>2, <2>1, <2>2, EndsIn
  <2> QED BY <1>2, <2>3
<1>10. find.pg = pg /\ find.page = child
  BY <1>9, TableFindIs DEF there, way
<1> QED BY <1>10, TableFindIs

LEMMA FindForked ==
  ASSUME FileOfNodes, ~SplitSaved, NEW pg, Kept(pg), NEW left \in Pages, NEW right \in Pages,
         Forked(pg, left, right), NEW key \in Int, NEW find, find = TableFind(pg, key)
  PROVE  /\ find.pg = pg
         /\ find.page = Chosen(pg, left, right, key)
         /\ ~find.endless
         /\ find.cell = LeafFind(pg.pages[find.page], key)
<1> DEFINE child == Chosen(pg, left, right, key)
<1>1. /\ child \in {left, right} /\ ChildFor(pg.pages[0], key) = child
      /\ ~IsLeaf(pg.pages[0]) /\ ~IsJunk(pg.pages[0])
  BY RootOverFacts DEF Forked, Chosen
<1>2. pg.pages[0] # Null /\ pg.pages[child] # Null /\ IsLeaf(pg.pages[child])
  BY <1>1, LeafNodeFacts DEF Forked, LastLeaf
<1> HIDE DEF child
<1>3. find.pg = pg /\ find.page = child /\ ~find.endless /\ find.cell = LeafFind(pg.pages[child], key)
  BY <1>1, <1>2, FindBelowRoot
<1> QED BY <1>3 DEF child

LEMMA FindSingle ==
  ASSUME FileOfNodes, ~SplitSaved, NEW pg, Kept(pg), Single(pg), NEW key \in Int,
         NEW find, find = TableFind(pg, key)
  PROVE  /\ Loads(pg, find.pg, {0}) /\ find.page = 0 /\ ~find.endless
         /\ Kept(find.pg) /\ Single(find.pg)
         /\ find.pg.pages[0] = P!Seen(pg, 0) /\ find.pg.pages[0] # Null
         /\ find.cell = LeafFind(P!Seen(pg, 0), key)
<1>1. Shape(pg, {0}) /\ {0} \subseteq Pages
  BY PageNumbers DEF Shape
<1>2. /\ Loads(pg, find.pg, {0}) /\ find.page = 0
      /\ find.pg.pages[0] = P!Seen(pg, 0) /\ find.pg.pages[0] # Null
      /\ find.endless <=> ~IsLeaf(P!Seen(pg, 0))
      /\ IsLeaf(P!Seen(pg, 0)) => find.cell = LeafFind(P!Seen(pg, 0), key)
  BY <1>1, FindInShape
<1>3. IsLeaf(P!Seen(pg, 0))
  BY LeafNodeFacts DEF Single, RootLeaf
<1>4. Kept(find.pg)
  BY <1>2 DEF Loads
<1>5. Single(find.pg)
  <2>1. P!Seen(find.pg, 0) = P!Seen(pg, 0)
    BY <1>1, <1>2 DEF Loads
  <2>2. Len(file) = 0 => find.pg = pg
    BY <1>2 DEF Loads, Single
  <2> QED BY <1>2, <2>1, <2>2 DEF Single
<1> QED BY <1>2, <1>3, <1>4, <1>5

LEMMA FindSaved ==
  ASSUME FileOfNodes, SplitSaved, NEW pg, Kept(pg), Saved(pg), NEW key \in Int,
         NEW find, find = TableFind(pg, key)
  PROVE  /\ Loads(pg, find.pg, {0, 1, 2}) /\ find.page \in {0, 1, 2}
         /\ Kept(find.pg) /\ Saved(find.pg)
         /\ find.pg.pages[find.page] = P!Seen(pg, find.page) /\ find.pg.pages[find.page] # Null
         /\ find.endless <=> ~IsLeaf(P!Seen(pg, find.page))
         /\ ~find.endless => /\ find.page # 0 /\ LastLeaf(P!Seen(pg, find.page))
                             /\ find.cell = LeafFind(P!Seen(pg, find.page), key)
<1>1. Shape(pg, {0, 1, 2})
  BY DEF Shape
<1>2. /\ Loads(pg, find.pg, {0, 1, 2}) /\ find.page \in {0, 1, 2}
      /\ find.pg.pages[find.page] = P!Seen(pg, find.page) /\ find.pg.pages[find.page] # Null
      /\ find.endless <=> ~IsLeaf(P!Seen(pg, find.page))
      /\ IsLeaf(P!Seen(pg, find.page)) => find.cell = LeafFind(P!Seen(pg, find.page), key)
  BY <1>1, FindInShape
<1>3. Shape(find.pg, {0, 1, 2}) /\ Kept(find.pg)
  BY <1>1, <1>2, LoadsShape
<1>4. Saved(find.pg)
  BY <1>3 DEF Shape
<1>5. ASSUME IsLeaf(P!Seen(pg, find.page)) PROVE find.page # 0 /\ LastLeaf(P!Seen(pg, find.page))
  <2>1. \A l, r : ~RootOver(P!Seen(pg, find.page), l, r)
    BY <1>5, RootOverFacts
  <2> QED BY <1>2, <1>5, <2>1, SpareNodes DEF Saved, Misplaced
<1> QED BY <1>2, <1>3, <1>4, <1>5

\* The cell table_find points to.
LEMMA CellIsPlace ==
  ASSUME NEW n, LeafNode(n), NEW key \in Int, NEW at, at = LeafFind(n, key)
  PROVE  /\ at \in 0 .. NumCells(n) /\ at \in Nat
         /\ \A i \in 1 .. NumCells(n) : n.cells[i].key < key <=> i <= at
         /\ KeyTaken(n, at, key) <=> \E r \in ToSet(n.cells) : r.key = key
         /\ KeyTaken(n, at, key) => n.cells[at + 1].key = key
         /\ \A r \in ToSet(n.cells) : r.key = key => at < NumCells(n) /\ n.cells[at + 1] = r
<1>1. IsPlace(n, key, at)
  BY LeafFindIsPlace DEF LeafNode
<1>2. /\ NumCells(n) \in Nat /\ at \in 0 .. NumCells(n) /\ at \in Nat
      /\ \A i \in 1 .. NumCells(n) : n.cells[i].key < key <=> i <= at
      /\ \A i \in 1 .. NumCells(n) : n.cells[i] \in ToSet(n.cells)
      /\ \A r \in ToSet(n.cells) : r.key \in Int
  BY <1>1, LeafNodeFacts DEF IsPlace
<1>3. \A i, j \in 1 .. NumCells(n) : i < j => n.cells[i].key < n.cells[j].key
  BY DEF LeafNode, Ordered, NumCells
<1>4. ToSet(n.cells) = {n.cells[i] : i \in 1 .. NumCells(n)}
  <2>1. DOMAIN n.cells = 1 .. NumCells(n)
    BY LeafNodeFacts
  <2> QED BY <2>1 DEF ToSet
<1>5. ASSUME NEW r \in ToSet(n.cells), r.key = key PROVE at < NumCells(n) /\ n.cells[at + 1] = r
  <2>1. PICK i \in 1 .. NumCells(n) : n.cells[i] = r
    BY <1>4
  <2>2. at < i
    BY <1>2, <1>5, <2>1
  <2>3. CASE i = at + 1
    BY <1>2, <2>1, <2>2, <2>3
  <2>4. CASE i # at + 1
    <3>1. at + 1 \in 1 .. NumCells(n) /\ at + 1 < i
      BY <1>2, <2>1, <2>2, <2>4
    <3>2. n.cells[at + 1].key < key /\ ~(at + 1 <= at)
      BY <1>2, <1>3, <1>5, <2>1, <3>1
    <3> QED BY <1>2, <3>1, <3>2
  <2> QED BY <2>3, <2>4
<1>6. KeyTaken(n, at, key) <=> at < NumCells(n) /\ n.cells[at + 1].key = key
  BY DEF KeyTaken, KeyAt
<1>7. at < NumCells(n) => at + 1 \in 1 .. NumCells(n)
  BY <1>2
<1> QED BY <1>2, <1>5, <1>6, <1>7

\* leaf_node_insert of a new key into a leaf with room.
LEMMA LeafGrows ==
  ASSUME NEW n, LeafNode(n), NEW row \in Row, NEW at, at = LeafFind(n, row.key),
         ~KeyTaken(n, at, row.key), NumCells(n) < LEAF_NODE_MAX_CELLS,
         NEW new, new = LeafInsert(n, at, row)
  PROVE  /\ LeafNode(new) /\ new \in Nodes
         /\ new.root = n.root /\ new.link = n.link
         /\ NumCells(new) = NumCells(n) + 1
         /\ ToSet(new.cells) = ToSet(n.cells) \cup {row}
<1>1. row.key \in Int
  BY RowKeys
<1>2. /\ n.cells \in Seq(Row) /\ NumCells(n) \in Nat
      /\ \A i \in 1 .. NumCells(n) : n.cells[i] \in ToSet(n.cells)
  BY LeafNodeFacts
<1>3. \A i \in 1 .. NumCells(n) : n.cells[i].key # row.key
  BY <1>1, <1>2, CellIsPlace
<1>4. /\ n \in [type : {"leaf"}, root : BOOLEAN, parent : Nat \cup {Unset},
                link : Pages, cells : Seq(Row)]
      /\ Ordered(n, Row)
      /\ ~n.root => n.parent = 0
  BY DEF LeafNode
<1>5. "cells" \in DOMAIN n
  BY <1>4
<1>6. /\ Ordered(new, Row) /\ NumCells(new) = NumCells(n) + 1
      /\ ToSet(new.cells) = ToSet(n.cells) \cup {row}
  BY <1>3, <1>4, <1>5, LeafInsertInOrder
<1> DEFINE cells == InsertAt(n.cells, at + 1, row)
<1>7. new = [n EXCEPT !.cells = cells]
  BY DEF LeafInsert
<1>8. new.cells = cells
  <2> HIDE DEF cells
  <2> QED BY <1>4, <1>7
<1>9. cells \in Seq(Row)
  BY <1>6, <1>8 DEF Ordered
<1> HIDE DEF cells
<1>10. /\ new \in [type : {"leaf"}, root : BOOLEAN, parent : Nat \cup {Unset},
                   link : Pages, cells : Seq(Row)]
       /\ new.root = n.root /\ new.link = n.link /\ new.parent = n.parent
  BY <1>4, <1>7, <1>9
<1>11. NumCells(new) <= LEAF_NODE_MAX_CELLS
  BY <1>2, <1>6, LeafSizeAssumption
<1>12. LeafNode(new)
  BY <1>4, <1>6, <1>10, <1>11 DEF LeafNode
<1> QED BY <1>6, <1>10, <1>12, LeafNodeFacts

-----------------------------------------------------------------------------
(* Inserts.                                                                *)

\* execute_insert puts the row in a leaf with room: find is what table_find
\* returned on the pager pg, pg2 the pager it leaves.
InsertsInto(pg, find, row, pg2) ==
  /\ find = TableFind(pg, row.key) /\ Inserts(find, row, FALSE)
  /\ pg2 = P!StorePage(find.pg, find.page, LeafInsert(find.pg.pages[find.page], find.cell, row))

\* It splits the root.
SplitsRoot(pg, find, row, pg2) ==
  /\ find = TableFind(pg, row.key) /\ Inserts(find, row, TRUE) /\ RoomForPage(find.pg)
  /\ LET split == SplitLeaf(find.pg, find.page, find.cell, row)
     IN RoomForPage(split) /\ pg2 = CreateNewRoot(split, P!UnusedPageNum(find.pg))

\* The pages of memory after leaf_node_insert, in each shape.
LEMMA InsertSingle ==
  ASSUME FileOfNodes, ~SplitSaved, NEW pg, Kept(pg), Single(pg), NEW row \in Row,
         NEW find, NEW pg2, InsertsInto(pg, find, row, pg2)
  PROVE  /\ Kept(pg2) /\ Single(pg2)
         /\ ToSet(P!Seen(pg2, 0).cells) = ToSet(P!Seen(pg, 0).cells) \cup {row}
<1> DEFINE leaf == P!Seen(pg, 0)
           new == LeafInsert(leaf, find.cell, row)
<1>0. /\ find = TableFind(pg, row.key) /\ Inserts(find, row, FALSE)
      /\ pg2 = P!StorePage(find.pg, find.page,
                           LeafInsert(find.pg.pages[find.page], find.cell, row))
  BY DEF InsertsInto
<1>1. row.key \in Int /\ 0 \in Pages
  BY RowKeys, PageNumbers
<1>2. /\ find.page = 0 /\ Kept(find.pg) /\ Single(find.pg)
      /\ find.pg.pages[0] = leaf /\ find.pg.pages[0] # Null
      /\ find.cell = LeafFind(leaf, row.key)
  BY <1>0, <1>1, FindSingle
<1>3. /\ RootLeaf(leaf) /\ HoldsFirst(ToSet(leaf.cells))
  BY DEF Single
<1>4. ~KeyTaken(leaf, find.cell, row.key) /\ ~(NumCells(leaf) >= LEAF_NODE_MAX_CELLS)
  BY <1>2, <1>0, Zenon DEF Inserts
<1>5. NumCells(leaf) < LEAF_NODE_MAX_CELLS /\ LeafNode(leaf)
  BY <1>3, <1>4, LeafNodeFacts, LeafSizeAssumption DEF RootLeaf
<1>6. /\ LeafNode(new) /\ new \in Nodes /\ new.root = leaf.root /\ new.link = leaf.link
      /\ ToSet(new.cells) = ToSet(leaf.cells) \cup {row}
  BY <1>2, <1>4, <1>5, LeafGrows
<1> HIDE DEF new
<1>7. pg2 = P!StorePage(find.pg, 0, new)
  BY <1>0, <1>2 DEF new
<1>8. Kept(pg2) /\ pg2.pages[0] = new /\ pg2.num_pages = find.pg.num_pages
  BY <1>1, <1>2, <1>6, <1>7, StorePageKept
<1>9. new # Null
  BY <1>6, NullAssumption
<1>10. P!Seen(pg2, 0) = new
  BY <1>8, <1>9 DEF P!Seen
<1>11. Single(pg2)
  BY <1>2, <1>3, <1>6, <1>8, <1>9, <1>10 DEF Single, RootLeaf, HoldsFirst
<1> QED BY <1>6, <1>8, <1>10, <1>11

LEMMA InsertForked ==
  ASSUME FileOfNodes, ~SplitSaved, NEW pg, Kept(pg), NEW left \in Pages, NEW right \in Pages,
         Forked(pg, left, right), NEW row \in Row,
         NEW find, NEW pg2, InsertsInto(pg, find, row, pg2)
  PROVE  /\ Kept(pg2) /\ Forked(pg2, left, right)
         /\ find.page \in {left, right}
         /\ \A q \in Pages \ {find.page} : pg2.pages[q] = pg.pages[q]
         /\ pg2.num_pages = pg.num_pages
         /\ IsLeaf(pg2.pages[find.page])
         /\ ToSet(pg2.pages[find.page].cells) = ToSet(pg.pages[find.page].cells) \cup {row}
<1> DEFINE page == find.page
           leaf == pg.pages[page]
           new == LeafInsert(leaf, find.cell, row)
           sep == pg.pages[0].cells[1].key
<1>0. /\ find = TableFind(pg, row.key) /\ Inserts(find, row, FALSE)
      /\ pg2 = P!StorePage(find.pg, find.page,
                           LeafInsert(find.pg.pages[find.page], find.cell, row))
  BY DEF InsertsInto
<1>1. row.key \in Int /\ 0 \in Pages
  BY RowKeys, PageNumbers
<1>2. /\ find.pg = pg /\ page = Chosen(pg, left, right, row.key)
      /\ find.cell = LeafFind(leaf, row.key)
  BY <1>0, <1>1, FindForked
<1>3. /\ page \in {left, right} /\ page \in Pages /\ page # 0 /\ leaf # Null /\ LeafNode(leaf)
      /\ sep \in Int
      /\ page = right => row.key > sep
      /\ page = left => row.key <= sep
  <2>1. /\ left # 0 /\ right # 0 /\ left # right
        /\ pg.pages[left] # Null /\ pg.pages[right] # Null
        /\ LeafNode(pg.pages[left]) /\ LeafNode(pg.pages[right])
        /\ RootOver(pg.pages[0], left, right)
    BY DEF Forked, LastLeaf
  <2>2. sep \in Int
    BY <2>1, RootOverFacts
  <2>3. page = IF sep < row.key THEN right ELSE left
    BY <1>2 DEF Chosen
  <2> HIDE DEF page, sep
  <2> QED BY <1>1, <2>1, <2>2, <2>3
<1>4. ~KeyTaken(leaf, find.cell, row.key) /\ ~(NumCells(leaf) >= LEAF_NODE_MAX_CELLS)
  BY <1>2, <1>0, Zenon DEF Inserts
<1>5. NumCells(leaf) < LEAF_NODE_MAX_CELLS
  BY <1>3, <1>4, LeafNodeFacts, LeafSizeAssumption
<1>6. /\ LeafNode(new) /\ new \in Nodes /\ new.root = leaf.root /\ new.link = leaf.link
      /\ NumCells(new) = NumCells(leaf) + 1
      /\ ToSet(new.cells) = ToSet(leaf.cells) \cup {row}
  BY <1>2, <1>3, <1>4, <1>5, LeafGrows
<1>7. NumCells(new) > 0 /\ new # Null
  BY <1>3, <1>6, LeafNodeFacts, NullAssumption
<1> HIDE DEF new, page
<1>8. pg2 = P!StorePage(pg, page, new)
  BY <1>0, <1>2 DEF new, page
<1>9. /\ Kept(pg2) /\ pg2.pages[page] = new /\ pg2.num_pages = pg.num_pages
      /\ \A q \in Pages \ {page} : pg2.pages[q] = pg.pages[q]
  BY <1>3, <1>6, <1>8, StorePageKept
<1>10. pg2.pages[0] = pg.pages[0]
  BY <1>1, <1>3, <1>9
<1>11. /\ left # 0 /\ right # 0 /\ left # right
       /\ pg.pages[0] # Null /\ pg.pages[left] # Null /\ pg.pages[right] # Null
       /\ RootOver(pg.pages[0], left, right)
       /\ LeafNode(pg.pages[left]) /\ ~pg.pages[left].root /\ pg.pages[left].link = right
       /\ LastLeaf(pg.pages[right])
       /\ NumCells(pg.pages[left]) > 0 /\ NumCells(pg.pages[right]) > 0
       /\ \A r \in ToSet(pg.pages[left].cells) : r.key <= sep
       /\ \A r \in ToSet(pg.pages[right].cells) : r.key > sep
       /\ HoldsFirst(ToSet(pg.pages[left].cells) \cup ToSet(pg.pages[right].cells))
       /\ Len(file) = 0 => left = 2 /\ right = 1 /\ pg.num_pages = 3
  BY DEF Forked
<1> HIDE DEF sep
<1>12. pg2.pages[0].cells[1].key = sep
  BY <1>10 DEF sep
<1>13. Forked(pg2, left, right)
  <2>1. CASE page = left
    <3>1. pg2.pages[right] = pg.pages[right] /\ pg2.pages[left] = new /\ leaf = pg.pages[left]
      BY <1>9, <1>11, <2>1
    <3>2. \A r \in ToSet(new.cells) : r.key <= sep
      BY <1>3, <1>6, <1>11, <2>1, <3>1
    <3> QED BY <1>6, <1>7, <1>9, <1>10, <1>11, <1>12, <3>1, <3>2 DEF Forked, HoldsFirst
  <2>2. CASE page = right
    <3>1. pg2.pages[left] = pg.pages[left] /\ pg2.pages[right] = new /\ leaf = pg.pages[right]
      BY <1>9, <1>11, <2>2
    <3>2. \A r \in ToSet(new.cells) : r.key > sep
      BY <1>3, <1>6, <1>11, <2>2, <3>1
    <3> QED BY <1>6, <1>7, <1>9, <1>10, <1>11, <1>12, <3>1, <3>2 DEF Forked, HoldsFirst, LastLeaf
  <2> QED BY <1>3, <2>1, <2>2
<1>14. IsLeaf(new)
  BY <1>6, LeafNodeFacts
<1> QED BY <1>3, <1>6, <1>9, <1>13, <1>14 DEF page

LEMMA InsertSaved ==
  ASSUME FileOfNodes, SplitSaved, NEW pg, Kept(pg), Saved(pg), NEW row \in Row,
         NEW find, NEW pg2, InsertsInto(pg, find, row, pg2)
  PROVE  Kept(pg2) /\ Saved(pg2)
<1> DEFINE page == find.page
           leaf == P!Seen(pg, page)
           new == LeafInsert(leaf, find.cell, row)
<1>0. /\ find = TableFind(pg, row.key) /\ Inserts(find, row, FALSE)
      /\ pg2 = P!StorePage(find.pg, find.page,
                           LeafInsert(find.pg.pages[find.page], find.cell, row))
  BY DEF InsertsInto
<1>1. row.key \in Int
  BY RowKeys
<1>2. ~find.endless
  BY <1>0, Zenon DEF Inserts
<1>3. /\ page \in {1, 2} /\ Kept(find.pg) /\ Saved(find.pg)
      /\ find.pg.pages[page] = leaf /\ find.pg.pages[page] # Null
      /\ LastLeaf(leaf) /\ find.cell = LeafFind(leaf, row.key)
  BY <1>0, <1>1, <1>2, FindSaved
<1>4. ~KeyTaken(leaf, find.cell, row.key) /\ ~(NumCells(leaf) >= LEAF_NODE_MAX_CELLS)
  BY <1>3, <1>0, Zenon DEF Inserts
<1>5. NumCells(leaf) < LEAF_NODE_MAX_CELLS /\ LeafNode(leaf)
  BY <1>3, <1>4, LeafNodeFacts, LeafSizeAssumption DEF LastLeaf
<1>6. LeafNode(new) /\ new \in Nodes /\ new.root = leaf.root /\ new.link = leaf.link
  BY <1>3, <1>4, <1>5, LeafGrows
<1>7. LastLeaf(new) /\ new # Null
  BY <1>3, <1>6, NullAssumption DEF LastLeaf
<1>8. 0 \in Pages /\ 1 \in Pages /\ 2 \in Pages
  BY <1>3, PageNumbers DEF Saved, RootOver
<1> HIDE DEF new, page
<1>9. pg2 = P!StorePage(find.pg, page, new)
  BY <1>0, <1>3 DEF new, page
<1>10. /\ Kept(pg2) /\ pg2.pages[page] = new
       /\ \A q \in Pages \ {page} : pg2.pages[q] = find.pg.pages[q]
  BY <1>3, <1>6, <1>8, <1>9, StorePageKept
<1>11. P!Seen(pg2, page) = new /\ \A q \in Pages \ {page} : P!Seen(pg2, q) = P!Seen(find.pg, q)
  BY <1>7, <1>10 DEF P!Seen
<1>12. P!Seen(pg2, 0) = P!Seen(find.pg, 0)
  BY <1>3, <1>8, <1>11
<1>13. \A q \in {1, 2} : P!Seen(pg2, q) = new \/ P!Seen(pg2, q) = P!Seen(find.pg, q)
  BY <1>8, <1>11
<1>14. Misplaced(P!Seen(pg2, 1)) /\ Misplaced(P!Seen(pg2, 2))
  <2>1. Misplaced(new)
    BY <1>7 DEF Misplaced
  <2>2. Misplaced(P!Seen(find.pg, 1)) /\ Misplaced(P!Seen(find.pg, 2))
    BY <1>3 DEF Saved
  <2> QED BY <1>13, <2>1, <2>2
<1>15. \A p \in Pages : pg2.pages[p] # Null => p \in 0 .. 2
  BY <1>3, <1>10 DEF Saved
<1>16. Saved(pg2)
  BY <1>3, <1>12, <1>14, <1>15 DEF Saved
<1> QED BY <1>10, <1>16

\* The cells of a full leaf and a new one, in two leaves.
SplitOf(cells, row, old, new) ==
  /\ old \in Seq(Row) /\ Len(old) > 0 /\ Len(old) <= LEAF_NODE_MAX_CELLS
  /\ new \in Seq(Row) /\ Len(new) > 0 /\ Len(new) <= LEAF_NODE_MAX_CELLS
  /\ \A i, j \in 1 .. Len(old) : i < j => old[i].key < old[j].key
  /\ \A i, j \in 1 .. Len(new) : i < j => new[i].key < new[j].key
  /\ \A r \in ToSet(old) : r.key <= old[Len(old)].key
  /\ \A r \in ToSet(new) : r.key > old[Len(old)].key
  /\ ToSet(old) \cup ToSet(new) = ToSet(cells) \cup {row}

LEMMA LeafSplits ==
  ASSUME NEW n, LeafNode(n), NEW row \in Row, NEW at, at = LeafFind(n, row.key),
         ~KeyTaken(n, at, row.key), NumCells(n) >= LEAF_NODE_MAX_CELLS
  PROVE  SplitOf(n.cells, row, SplitCells(n.cells, at, row).old, SplitCells(n.cells, at, row).new)
<1> DEFINE old == SplitCells(n.cells, at, row).old
           new == SplitCells(n.cells, at, row).new
           all == LeafInsert(n, at, row).cells
<1>1. row.key \in Int
  BY RowKeys
<1>2. /\ n.cells \in Seq(Row) /\ NumCells(n) \in Nat /\ NumCells(n) = Len(n.cells)
      /\ \A i \in 1 .. NumCells(n) : n.cells[i] \in ToSet(n.cells)
      /\ at \in 0 .. NumCells(n)
  BY <1>1, LeafNodeFacts, CellIsPlace
<1>3. \A i \in 1 .. NumCells(n) : n.cells[i].key # row.key
  <2>1. ~ \E r \in ToSet(n.cells) : r.key = row.key
    BY <1>1, CellIsPlace
  <2> QED BY <1>2, <2>1
<1>4. /\ n \in [type : {"leaf"}, root : BOOLEAN, parent : Nat \cup {Unset},
                link : Pages, cells : Seq(Row)]
      /\ Ordered(n, Row) /\ NumCells(n) <= LEAF_NODE_MAX_CELLS
  BY DEF LeafNode
<1>5. Len(n.cells) = LEAF_NODE_MAX_CELLS /\ at \in 0 .. LEAF_NODE_MAX_CELLS
  BY <1>2, <1>4, LeafSizeAssumption
<1>6. "cells" \in DOMAIN n
  BY <1>4
<1>7. /\ Ordered(LeafInsert(n, at, row), Row)
      /\ NumCells(LeafInsert(n, at, row)) = NumCells(n) + 1
      /\ ToSet(LeafInsert(n, at, row).cells) = ToSet(n.cells) \cup {row}
  BY <1>3, <1>4, <1>6, LeafInsertInOrder
<1>8. /\ all \in Seq(Row) /\ Len(all) = NumCells(n) + 1
      /\ \A i, j \in 1 .. Len(all) : i < j => all[i].key < all[j].key
      /\ ToSet(all) = ToSet(n.cells) \cup {row}
  BY <1>7 DEF Ordered, NumCells
<1>9. all = InsertAt(n.cells, at + 1, row)
  <2> DEFINE cells == InsertAt(n.cells, at + 1, row)
  <2>1. LeafInsert(n, at, row) = [n EXCEPT !.cells = cells]
    BY DEF LeafInsert
  <2> HIDE DEF cells
  <2>2. LeafInsert(n, at, row).cells = cells
    BY <1>4, <2>1
  <2> QED BY <2>2 DEF cells
<1>10. /\ old \in Seq(Row) /\ Len(old) = L
       /\ new \in Seq(Row) /\ Len(new) = R
       /\ old \o new = InsertAt(n.cells, at + 1, row)
  <2> DEFINE cells == n.cells
  <2>1. cells \in Seq(Row) /\ Len(cells) = LEAF_NODE_MAX_CELLS
    BY <1>2, <1>5
  <2> HIDE DEF cells
  <2> DEFINE split == SplitCells(cells, at, row)
  <2>2. /\ split.old \in Seq(Row) /\ Len(split.old) = LEAF_NODE_LEFT_SPLIT_COUNT
        /\ split.new \in Seq(Row) /\ Len(split.new) = LEAF_NODE_RIGHT_SPLIT_COUNT
        /\ split.old \o split.new = InsertAt(cells, at + 1, row)
    BY <1>5, <2>1, SplitInOrder
  <2> QED BY <2>2 DEF cells, L, R
<1>11. L \in Nat /\ R \in Nat /\ 1 <= R /\ 1 <= L /\ L <= LEAF_NODE_MAX_CELLS
       /\ R <= LEAF_NODE_MAX_CELLS /\ LEAF_NODE_MAX_CELLS \in Nat /\ Len(all) = L + R
  BY <1>2, <1>5, <1>8, Counts, LeafSizeAssumption DEF M
<1> HIDE DEF all, old, new
<1>12. /\ \A i \in 1 .. L : old[i] = all[i] /\ i \in 1 .. Len(all)
       /\ \A i \in 1 .. R : new[i] = all[L + i] /\ L + i \in 1 .. Len(all)
  <2>1. \A i \in 1 .. L + R : all[i] = IF i <= L THEN old[i] ELSE new[i - L]
    BY <1>9, <1>10, ConcatProperties
  <2>2. \A i \in 1 .. L : i \in 1 .. L + R /\ i <= L
    BY <1>11
  <2>3. \A i \in 1 .. R : L + i \in 1 .. L + R /\ ~(L + i <= L) /\ (L + i) - L = i
    BY <1>11
  <2> QED BY <1>11, <2>1, <2>2, <2>3
<1>13. \A i \in 1 .. Len(all) : all[i] \in Row /\ all[i].key \in Int
  BY <1>8, RowKeys
<1>14. /\ ToSet(old) = {old[i] : i \in 1 .. L}
       /\ ToSet(new) = {new[i] : i \in 1 .. R}
       /\ ToSet(all) = {all[i] : i \in 1 .. L + R}
  <2>1. DOMAIN old = 1 .. L /\ DOMAIN new = 1 .. R /\ DOMAIN all = 1 .. L + R
    BY <1>8, <1>10, <1>11
  <2> QED BY <2>1 DEF ToSet
<1>15. \A i, j \in 1 .. L : i < j => old[i].key < old[j].key
  BY <1>8, <1>12
<1>16. \A i, j \in 1 .. R : i < j => new[i].key < new[j].key
  <2> TAKE i, j \in 1 .. R
  <2>1. i < j => L + i < L + j
    BY <1>11
  <2> QED BY <1>8, <1>12, <2>1
<1>17. L \in 1 .. L /\ old[L] = all[L]
  BY <1>11, <1>12
<1>18. \A r \in ToSet(old) : r.key <= old[L].key
  <2> SUFFICES ASSUME NEW i \in 1 .. L PROVE old[i].key <= old[L].key
    BY <1>14
  <2>1. old[i].key \in Int
    BY <1>12, <1>13
  <2>2. i = L \/ i < L
    BY <1>11
  <2> QED BY <1>15, <1>17, <2>1, <2>2, <1>12, <1>13
<1>19. \A r \in ToSet(new) : r.key > old[L].key
  <2> SUFFICES ASSUME NEW i \in 1 .. R PROVE new[i].key > old[L].key
    BY <1>14
  <2>1. L < L + i /\ L + i \in 1 .. Len(all) /\ L \in 1 .. Len(all)
    BY <1>11, <1>12
  <2>2. all[L].key < all[L + i].key
    BY <1>8, <2>1
  <2> QED BY <1>12, <1>13, <1>17, <2>1, <2>2
<1>20. ToSet(old) \cup ToSet(new) = ToSet(all)
  <2>1. \A i \in 1 .. L + R : i \in 1 .. L \/ (i - L \in 1 .. R /\ L + (i - L) = i)
    BY <1>11
  <2>2. \A i \in 1 .. L + R : all[i] \in ToSet(old) \cup ToSet(new)
    <3> TAKE i \in 1 .. L + R
    <3>1. CASE i \in 1 .. L
      BY <1>12, <1>14, <3>1
    <3>2. CASE i - L \in 1 .. R /\ L + (i - L) = i
      <4>1. new[i - L] = all[L + (i - L)]
        BY <1>12, <3>2
      <4>2. new[i - L] = all[i]
        BY <3>2, <4>1
      <4> QED BY <1>14, <3>2, <4>2
    <3> QED BY <2>1, <3>1, <3>2
  <2> QED BY <1>11, <1>12, <1>14, <2>2
<1> QED BY <1>8, <1>10, <1>11, <1>15, <1>16, <1>18, <1>19, <1>20 DEF SplitOf, old, new

\* What a split needs, and what it leaves in the pager.
CanSplit(pg, page, at, row) ==
  /\ Kept(pg) /\ RoomForPage(pg)
  /\ page \in Pages /\ pg.pages[page] # Null /\ LeafNode(pg.pages[page])
  /\ row \in Row /\ at = LeafFind(pg.pages[page], row.key)
  /\ ~KeyTaken(pg.pages[page], at, row.key)
  /\ NumCells(pg.pages[page]) >= LEAF_NODE_MAX_CELLS

HasSplit(pg, page, row, split, new, old_cells, new_cells) ==
  /\ Kept(split) /\ split.num_pages = new + 1
  /\ new \in Pages /\ pg.pages[new] = Null /\ new # page
  /\ \A q \in Pages \ {page, new} : split.pages[q] = pg.pages[q]
  /\ split.pages[page] \in Nodes /\ split.pages[new] \in Nodes
  /\ split.pages[page].type = "leaf" /\ split.pages[new].type = "leaf"
  /\ split.pages[page].root = pg.pages[page].root /\ split.pages[new].root = FALSE
  /\ split.pages[page].parent = pg.pages[page].parent
  /\ split.pages[new].parent = pg.pages[page].parent
  /\ split.pages[page].link = new /\ split.pages[new].link = pg.pages[page].link
  /\ split.pages[page].cells = old_cells /\ split.pages[new].cells = new_cells
  /\ SplitOf(pg.pages[page].cells, row, old_cells, new_cells)

\* leaf_node_split_and_insert up to its branch, on a leaf in memory.
LEMMA SplitLeafFacts ==
  ASSUME FileOfNodes, NEW pg, NEW page, NEW at, NEW row, CanSplit(pg, page, at, row)
  PROVE  LET halves == SplitCells(pg.pages[page].cells, at, row)
         IN HasSplit(pg, page, row, SplitLeaf(pg, page, at, row), pg.num_pages,
                     halves.old, halves.new)
<1> DEFINE leaf == pg.pages[page]
           new == pg.num_pages
           old_cells == SplitCells(leaf.cells, at, row).old
           new_cells == SplitCells(leaf.cells, at, row).new
           loaded == P!LoadPage(pg, new)
           empty == InitialLeaf(loaded.pages[new])
           new_node == [empty EXCEPT !.parent = leaf.parent, !.link = leaf.link, !.cells = new_cells]
           old_node == [leaf EXCEPT !.link = new, !.cells = old_cells]
           stored == P!StorePage(loaded, new, new_node)
           split == SplitLeaf(pg, page, at, row)
<1>0. /\ Kept(pg) /\ RoomForPage(pg)
      /\ page \in Pages /\ pg.pages[page] # Null /\ LeafNode(pg.pages[page])
      /\ row \in Row /\ at = LeafFind(pg.pages[page], row.key)
      /\ ~KeyTaken(pg.pages[page], at, row.key)
      /\ NumCells(pg.pages[page]) >= LEAF_NODE_MAX_CELLS
  BY DEF CanSplit
<1>1. split = P!StorePage(stored, page, old_node)
  BY DEF SplitLeaf, P!UnusedPageNum
<1> HIDE DEF split
<1>2. SplitOf(leaf.cells, row, old_cells, new_cells)
  BY <1>0, LeafSplits
<1>3. old_cells \in Seq(Row) /\ new_cells \in Seq(Row)
  BY <1>2 DEF SplitOf
<1> HIDE DEF old_cells, new_cells
<1>4. new \in Pages /\ new \in Nat /\ pg.pages[new] = Null
  <2>1. new \in Nat /\ new < TABLE_MAX_PAGES
    BY <1>0, KeptFacts DEF RoomForPage, P!UnusedPageNum
  <2>2. new \in Pages
    BY <2>1, PageNumbers
  <2>3. pg.pages[new] # Null => new < new
    BY <1>0, <2>2 DEF Kept
  <2> QED BY <2>1, <2>2, <2>3
<1>5. new # page
  BY <1>0, <1>4
<1>6. /\ Kept(loaded) /\ loaded.pages[new] \in Nodes /\ loaded.pages[new] # Null
      /\ \A q \in Pages \ {new} : loaded.pages[q] = pg.pages[q]
      /\ loaded.num_pages = new + 1
  <2>1. Loads(pg, loaded, {new}) /\ loaded.pages[new] = P!Seen(pg, new) /\ loaded.pages[new] # Null
    BY <1>0, <1>4, LoadPageLoads
  <2>2. loaded.num_pages = IF new >= pg.num_pages THEN new + 1 ELSE pg.num_pages
    BY <1>0, <1>4, LoadPageLoads
  <2>3. new >= pg.num_pages
    BY <1>4
  <2>4. P!Seen(pg, new) \in Nodes
    BY <1>0, <1>4, KeptFacts
  <2> QED BY <2>1, <2>2, <2>3, <2>4 DEF Loads
<1>7. /\ empty \in Nodes /\ empty.type = "leaf" /\ empty.root = FALSE
  BY <1>6, InitialLeafFacts
<1>8. leaf \in Nodes /\ leaf.type = "leaf"
  BY <1>0, LeafNodeFacts DEF IsLeaf
<1>9. leaf.parent \in Nat \cup {Unset} /\ leaf.link \in Nat \cup {Unset}
  BY <1>8 DEF Nodes
<1> HIDE DEF empty, leaf
<1>10. /\ new_node \in Nodes
       /\ new_node.type = "leaf" /\ new_node.root = FALSE /\ new_node.parent = leaf.parent
       /\ new_node.link = leaf.link /\ new_node.cells = new_cells
  <2> HIDE DEF new
  <2> QED BY <1>3, <1>7, <1>9 DEF Nodes
<1>11. /\ old_node \in Nodes
       /\ old_node.type = "leaf" /\ old_node.root = leaf.root /\ old_node.parent = leaf.parent
       /\ old_node.link = new /\ old_node.cells = old_cells
  <2> HIDE DEF new
  <2> QED BY <1>3, <1>4, <1>8 DEF Nodes
<1> HIDE DEF new_node, old_node, loaded, new
<1>12. /\ Kept(stored) /\ stored.pages[new] = new_node /\ stored.num_pages = new + 1
       /\ \A q \in Pages \ {new} : stored.pages[q] = loaded.pages[q]
  BY <1>4, <1>6, <1>10, StorePageKept
<1> HIDE DEF stored
<1>13. stored.pages[page] = leaf /\ leaf # Null
  BY <1>0, <1>5, <1>6, <1>12 DEF leaf
<1>14. /\ Kept(split) /\ split.pages[page] = old_node /\ split.num_pages = new + 1
       /\ \A q \in Pages \ {page} : split.pages[q] = stored.pages[q]
  BY <1>0, <1>1, <1>11, <1>12, <1>13, StorePageKept
<1>15. split.pages[new] = new_node
  BY <1>4, <1>5, <1>12, <1>14
<1>16. \A q \in Pages \ {page, new} : split.pages[q] = pg.pages[q]
  BY <1>6, <1>12, <1>14
<1>17. HasSplit(pg, page, row, split, new, old_cells, new_cells)
  BY <1>2, <1>4, <1>5, <1>10, <1>11, <1>14, <1>15, <1>16 DEF HasSplit, leaf
<1> QED BY <1>17 DEF leaf, new, old_cells, new_cells, split

\* What create_new_root needs, and what it leaves in the pager.
CanGrow(pg, right) ==
  /\ Kept(pg) /\ RoomForPage(pg)
  /\ pg.pages[0] # Null /\ pg.pages[0] \in Nodes /\ pg.pages[0].type = "leaf"
  /\ pg.pages[0].cells \in Seq(Row) /\ Len(pg.pages[0].cells) > 0
  /\ right \in Pages /\ right # 0 /\ pg.pages[right] # Null

HasGrown(pg, res, left, right) ==
  /\ Kept(res) /\ res.num_pages = left + 1
  /\ left \in Pages /\ left # 0 /\ left # right
  /\ res.pages[0] # Null /\ res.pages[left] # Null /\ res.pages[right] # Null
  /\ RootOver(res.pages[0], left, right)
  /\ res.pages[0].cells[1].key = pg.pages[0].cells[Len(pg.pages[0].cells)].key
  /\ res.pages[left] \in Nodes /\ res.pages[left].type = "leaf"
  /\ res.pages[left].root = FALSE /\ res.pages[left].parent = 0
  /\ res.pages[left].link = pg.pages[0].link /\ res.pages[left].cells = pg.pages[0].cells
  /\ res.pages[right] \in Nodes /\ res.pages[right].type = pg.pages[right].type
  /\ res.pages[right].root = pg.pages[right].root /\ res.pages[right].parent = 0
  /\ res.pages[right].link = pg.pages[right].link
  /\ res.pages[right].cells = pg.pages[right].cells

\* create_new_root, after a split of the root.
LEMMA NewRootFacts ==
  ASSUME FileOfNodes, NEW pg, NEW right, CanGrow(pg, right)
  PROVE  HasGrown(pg, CreateNewRoot(pg, right), pg.num_pages, right)
<1> DEFINE leaf == pg.pages[0]
           left == pg.num_pages
           left_node == [leaf EXCEPT !.root = FALSE, !.parent = 0]
           bare == InitialInternal(leaf)
           separator == [child |-> left, key |-> MaxKey(left_node)]
           new_root == [bare EXCEPT !.root = TRUE, !.link = right, !.cells = <<separator>>]
           right_node == [pg.pages[right] EXCEPT !.parent = 0]
           loaded == P!LoadPage(pg, left)
           one == P!StorePage(loaded, left, left_node)
           two == P!StorePage(one, 0, new_root)
           res == CreateNewRoot(pg, right)
<1>0. /\ Kept(pg) /\ RoomForPage(pg)
      /\ pg.pages[0] # Null /\ pg.pages[0] \in Nodes /\ pg.pages[0].type = "leaf"
      /\ pg.pages[0].cells \in Seq(Row) /\ Len(pg.pages[0].cells) > 0
      /\ right \in Pages /\ right # 0 /\ pg.pages[right] # Null
  BY DEF CanGrow
<1>1. res = P!StorePage(two, right, right_node)
  BY DEF CreateNewRoot, P!UnusedPageNum
<1> HIDE DEF res
<1>2. left \in Pages /\ left \in Nat /\ pg.pages[left] = Null /\ 0 \in Pages
  <2>1. left \in Nat /\ left < TABLE_MAX_PAGES
    BY <1>0, KeptFacts DEF RoomForPage, P!UnusedPageNum
  <2>2. left \in Pages
    BY <2>1, PageNumbers
  <2>3. pg.pages[left] # Null => left < left
    BY <1>0, <2>2 DEF Kept
  <2> QED BY <2>1, <2>2, <2>3, PageNumbers
<1>3. left # 0 /\ left # right
  BY <1>0, <1>2
<1>4. /\ Kept(loaded) /\ loaded.pages[left] # Null
      /\ \A q \in Pages \ {left} : loaded.pages[q] = pg.pages[q]
      /\ loaded.num_pages = left + 1
  <2>1. Loads(pg, loaded, {left}) /\ loaded.pages[left] # Null
    BY <1>0, <1>2, LoadPageLoads
  <2>2. loaded.num_pages = IF left >= pg.num_pages THEN left + 1 ELSE pg.num_pages
    BY <1>0, <1>2, LoadPageLoads
  <2>3. left >= pg.num_pages
    BY <1>2
  <2> QED BY <2>1, <2>2, <2>3 DEF Loads
<1>5. /\ left_node \in Nodes /\ left_node.type = "leaf" /\ left_node.root = FALSE
      /\ left_node.parent = 0 /\ left_node.link = leaf.link /\ left_node.cells = leaf.cells
  <2> HIDE DEF leaf
  <2>1. leaf \in Nodes /\ leaf.type = "leaf"
    BY <1>0 DEF leaf
  <2> QED BY <2>1 DEF Nodes
<1>6. MaxKey(left_node) = leaf.cells[Len(leaf.cells)].key
  BY <1>5 DEF MaxKey, NumCells
<1>7. MaxKey(left_node) \in Keys
  <2>1. leaf.cells[Len(leaf.cells)] \in Row
    BY <1>0
  <2> QED BY <1>6, <2>1, RowKeys
<1> HIDE DEF left_node
<1>8. separator \in Separator /\ separator.child = left /\ separator.key = MaxKey(left_node)
  BY <1>2, <1>7 DEF Separator
<1> HIDE DEF separator
<1>9. <<separator>> \in Seq(Separator) /\ Len(<<separator>>) = 1 /\ <<separator>>[1] = separator
  BY <1>8
<1>10. /\ bare \in Nodes /\ bare.type = "internal" /\ bare.parent = leaf.parent
  <2> HIDE DEF leaf
  <2>1. leaf \in Nodes
    BY <1>0 DEF leaf
  <2>2. <<>> \in Seq(Row)
    OBVIOUS
  <2> QED BY <2>1, <2>2 DEF Nodes, InitialInternal
<1>11. bare.parent \in Nat \cup {Unset}
  BY <1>10 DEF Nodes
<1> DEFINE cells == <<separator>>
<1> HIDE DEF bare, cells
<1>12. cells \in Seq(Separator) /\ Len(cells) = 1 /\ cells[1] = separator
  BY <1>9 DEF cells
<1>13. /\ new_root \in [type : {"internal"}, root : {TRUE}, parent : Nat \cup {Unset},
                        link : {right}, cells : Seq(Separator)]
       /\ new_root.cells = cells
  <2>1. new_root = [bare EXCEPT !.root = TRUE, !.link = right, !.cells = cells]
    BY DEF cells
  <2> HIDE DEF new_root
  <2> QED BY <1>10, <1>11, <1>12, <2>1 DEF Nodes
<1> HIDE DEF new_root
<1>14. RootOver(new_root, left, right) /\ new_root.cells[1].key = MaxKey(left_node)
  BY <1>0, <1>2, <1>8, <1>12, <1>13 DEF RootOver, NumCells
<1>15. new_root \in Nodes /\ new_root # Null
  BY <1>14, RootOverFacts, NullAssumption
<1>16. /\ right_node \in Nodes /\ right_node.type = pg.pages[right].type
       /\ right_node.root = pg.pages[right].root /\ right_node.parent = 0
       /\ right_node.link = pg.pages[right].link /\ right_node.cells = pg.pages[right].cells
  <2> DEFINE node == pg.pages[right]
  <2>1. node \in Nodes
    BY <1>0, KeptFacts
  <2> HIDE DEF node
  <2>2. LET n == [node EXCEPT !.parent = 0]
        IN /\ n \in Nodes /\ n.type = node.type /\ n.root = node.root /\ n.parent = 0
           /\ n.link = node.link /\ n.cells = node.cells
    BY <2>1 DEF Nodes
  <2> QED BY <2>2 DEF node
<1> HIDE DEF right_node, loaded, left, leaf
<1>17. /\ Kept(one) /\ one.pages[left] = left_node /\ one.num_pages = left + 1
       /\ \A q \in Pages \ {left} : one.pages[q] = loaded.pages[q]
  BY <1>2, <1>4, <1>5, StorePageKept
<1> HIDE DEF one
<1>18. one.pages[0] # Null
  BY <1>0, <1>2, <1>3, <1>4, <1>17
<1>19. /\ Kept(two) /\ two.pages[0] = new_root /\ two.num_pages = left + 1
       /\ \A q \in Pages \ {0} : two.pages[q] = one.pages[q]
  BY <1>2, <1>15, <1>17, <1>18, StorePageKept
<1> HIDE DEF two
<1>20. two.pages[right] # Null
  BY <1>0, <1>3, <1>4, <1>17, <1>19
<1>21. /\ Kept(res) /\ res.pages[right] = right_node /\ res.num_pages = left + 1
       /\ \A q \in Pages \ {right} : res.pages[q] = two.pages[q]
  BY <1>0, <1>1, <1>16, <1>19, <1>20, StorePageKept
<1>22. res.pages[0] = new_root /\ res.pages[left] = left_node
  BY <1>0, <1>2, <1>3, <1>17, <1>19, <1>21
<1>23. left_node # Null /\ right_node # Null
  BY <1>5, <1>16, NullAssumption
<1> QED BY <1>2, <1>3, <1>5, <1>6, <1>14, <1>15, <1>16, <1>21, <1>22, <1>23 DEF HasGrown, leaf, left, res

\* A leaf below the root, from what the splits leave in a page.
LEMMA HalfIsLeaf ==
  ASSUME NEW n \in Nodes, n.type = "leaf", n.root = FALSE, n.parent = 0, n.link \in Pages,
         NEW s \in Seq(Row), n.cells = s, Len(s) <= LEAF_NODE_MAX_CELLS,
         \A i, j \in 1 .. Len(s) : i < j => s[i].key < s[j].key
  PROVE  LeafNode(n)
<1>1. n.root \in BOOLEAN /\ ~n.root /\ n.cells \in Seq(Row)
  OBVIOUS
<1>2. \A i, j \in 1 .. Len(n.cells) : i < j => n.cells[i].key < n.cells[j].key
  OBVIOUS
<1>3. Len(n.cells) <= LEAF_NODE_MAX_CELLS /\ (~n.root => n.parent = 0)
  OBVIOUS
<1> QED BY <1>1, <1>2, <1>3, LeafNodeFrom

\* The split of a table that is one leaf.
LEMMA SplitSingle ==
  ASSUME FileOfNodes, ~SplitSaved, NEW pg, Kept(pg), Single(pg), NEW row \in Row,
         NEW find, NEW pg2, SplitsRoot(pg, find, row, pg2)
  PROVE  LET right == find.pg.num_pages
             left == find.pg.num_pages + 1
         IN /\ Kept(pg2) /\ left \in Pages /\ right \in Pages /\ Forked(pg2, left, right)
            /\ ToSet(pg2.pages[left].cells) \cup ToSet(pg2.pages[right].cells) =
                 ToSet(P!Seen(pg, 0).cells) \cup {row}
<1> DEFINE g == find.pg
           split == SplitLeaf(g, find.page, find.cell, row)
           leaf == P!Seen(pg, 0)
           right == g.num_pages
           left == split.num_pages
           old == SplitCells(leaf.cells, find.cell, row).old
           new == SplitCells(leaf.cells, find.cell, row).new
<1>0. /\ find = TableFind(pg, row.key) /\ Inserts(find, row, TRUE)
      /\ RoomForPage(g) /\ RoomForPage(split) /\ pg2 = CreateNewRoot(split, right)
  BY DEF SplitsRoot, P!UnusedPageNum
<1>1. row.key \in Int /\ 0 \in Pages
  BY RowKeys, PageNumbers
<1>2. /\ find.page = 0 /\ Kept(g) /\ Single(g)
      /\ g.pages[0] = leaf /\ g.pages[0] # Null
      /\ find.cell = LeafFind(leaf, row.key)
  BY <1>0, <1>1, FindSingle
<1>3. RootLeaf(leaf) /\ HoldsFirst(ToSet(leaf.cells)) /\ LeafNode(leaf)
  BY DEF Single, RootLeaf
<1>4. ~KeyTaken(leaf, find.cell, row.key)
  BY <1>2, <1>0, Zenon DEF Inserts
<1>a. NumCells(leaf) >= LEAF_NODE_MAX_CELLS
  BY <1>2, <1>0, Zenon DEF Inserts
<1>5. split = SplitLeaf(g, 0, find.cell, row)
  BY <1>2
<1> HIDE DEF g, leaf, split
<1>6. /\ Kept(split) /\ split.num_pages = right + 1
      /\ right \in Pages /\ g.pages[right] = Null /\ right # 0
      /\ split.pages[0] \in Nodes /\ split.pages[right] \in Nodes
      /\ split.pages[0].type = "leaf" /\ split.pages[right].type = "leaf"
      /\ split.pages[right].root = FALSE
      /\ split.pages[0].link = right /\ split.pages[right].link = leaf.link
      /\ split.pages[0].cells = old /\ split.pages[right].cells = new
      /\ SplitOf(leaf.cells, row, old, new)
  <2>1. CanSplit(g, 0, find.cell, row)
    BY <1>1, <1>2, <1>3, <1>4, <1>0, <1>a DEF CanSplit
  <2>2. HasSplit(g, 0, row, SplitLeaf(g, 0, find.cell, row), g.num_pages,
                 SplitCells(g.pages[0].cells, find.cell, row).old,
                 SplitCells(g.pages[0].cells, find.cell, row).new)
    BY <2>1, SplitLeafFacts
  <2>3. HasSplit(g, 0, row, split, right, old, new)
    BY <1>2, <1>5, <2>2
  <2> HIDE DEF right, old, new
  <2> QED BY <1>2, <2>3 DEF HasSplit
<1> HIDE DEF old, new
<1>7. /\ old \in Seq(Row) /\ Len(old) > 0 /\ Len(old) <= LEAF_NODE_MAX_CELLS
      /\ new \in Seq(Row) /\ Len(new) > 0 /\ Len(new) <= LEAF_NODE_MAX_CELLS
      /\ \A i, j \in 1 .. Len(old) : i < j => old[i].key < old[j].key
      /\ \A i, j \in 1 .. Len(new) : i < j => new[i].key < new[j].key
      /\ \A r \in ToSet(old) : r.key <= old[Len(old)].key
      /\ \A r \in ToSet(new) : r.key > old[Len(old)].key
      /\ ToSet(old) \cup ToSet(new) = ToSet(leaf.cells) \cup {row}
  BY <1>6 DEF SplitOf
<1>8. split.pages[0] # Null /\ split.pages[right] # Null
  BY <1>6, NullAssumption
<1>9. pg2 = CreateNewRoot(split, right)
  BY <1>0
<1> DEFINE l == pg2.pages[left]
           r == pg2.pages[right]
           sep == pg2.pages[0].cells[1].key
<1> HIDE DEF right
<1>10. HasGrown(split, pg2, left, right)
  <2>1. split.pages[0].cells \in Seq(Row) /\ Len(split.pages[0].cells) > 0
    BY <1>6, <1>7
  <2>2. CanGrow(split, right)
    BY <1>0, <1>6, <1>8, <2>1 DEF CanGrow
  <2> QED BY <1>0, <1>9, <2>2, NewRootFacts
<1> HIDE DEF left
<1>b. /\ Kept(pg2) /\ pg2.num_pages = left + 1
      /\ left \in Pages /\ left # 0 /\ left # right
      /\ pg2.pages[0] # Null /\ l # Null /\ r # Null
      /\ RootOver(pg2.pages[0], left, right)
  BY <1>10 DEF HasGrown
<1>c. sep = old[Len(old)].key
  BY <1>6, <1>10 DEF HasGrown
<1>d. /\ l \in Nodes /\ l.type = "leaf" /\ l.root = FALSE /\ l.parent = 0
      /\ l.link = right /\ l.cells = old
  BY <1>6, <1>10 DEF HasGrown
<1>e. /\ r \in Nodes /\ r.type = split.pages[right].type
      /\ r.root = split.pages[right].root /\ r.parent = 0
      /\ r.link = split.pages[right].link /\ r.cells = split.pages[right].cells
  BY <1>10 DEF HasGrown
<1>11. leaf.link = 0 /\ 0 \in Pages
  BY <1>1, <1>3 DEF RootLeaf
<1> HIDE DEF l, r, sep
<1>f. r.type = "leaf" /\ r.root = FALSE /\ r.link = 0 /\ r.cells = new
  BY <1>6, <1>11, <1>e
<1>12. LeafNode(l)
  BY <1>6, <1>7, <1>d, HalfIsLeaf
<1>13. LeafNode(r)
  <2>1. r.link \in Pages
    BY <1>11, <1>f
  <2> QED BY <1>7, <1>e, <1>f, <2>1, HalfIsLeaf
<1>14. NumCells(l) > 0 /\ NumCells(r) > 0
  BY <1>7, <1>d, <1>f DEF NumCells
<1>15. /\ \A x \in ToSet(l.cells) : x.key <= sep
       /\ \A x \in ToSet(r.cells) : x.key > sep
       /\ ToSet(l.cells) \cup ToSet(r.cells) = ToSet(leaf.cells) \cup {row}
  BY <1>7, <1>c, <1>d, <1>f
<1>16. HoldsFirst(ToSet(l.cells) \cup ToSet(r.cells))
  BY <1>3, <1>15 DEF HoldsFirst
<1>17. Len(file) = 0 => left = 2 /\ right = 1 /\ pg2.num_pages = 3
  <2>1. Len(file) = 0 => right = 1
    BY <1>2 DEF Single, right, g
  <2>2. left = right + 1
    BY <1>6 DEF left
  <2> QED BY <1>b, <2>1, <2>2
<1>18. ~l.root /\ l.link = right /\ LastLeaf(r)
  BY <1>d, <1>f, <1>13 DEF LastLeaf
<1>19. Forked(pg2, left, right)
  BY <1>6, <1>b, <1>12, <1>14, <1>15, <1>16, <1>17, <1>18 DEF Forked, l, r, sep
<1>20. left = g.num_pages + 1
  BY <1>6 DEF left, right
<1> QED BY <1>6, <1>b, <1>15, <1>19, <1>20 DEF leaf, right, g, l, r

LEMMA MaxKeyIsKey ==
  ASSUME NEW n \in Nodes, NumCells(n) # 0
  PROVE  MaxKey(n) \in Keys
<1>1. n.cells \in Seq(Row) \cup Seq([child : Nat, key : Keys])
  BY DEF Nodes
<1>2. CASE n.cells \in Seq(Row)
  <2>1. Len(n.cells) \in 1 .. Len(n.cells)
    BY <1>2 DEF NumCells
  <2>2. n.cells[Len(n.cells)] \in Row
    BY <1>2, <2>1
  <2> QED BY <2>2, RowKeys DEF MaxKey, NumCells
<1>3. CASE n.cells \in Seq([child : Nat, key : Keys])
  <2>1. Len(n.cells) \in 1 .. Len(n.cells)
    BY <1>3 DEF NumCells
  <2> DEFINE T == [child : Nat, key : Keys]
             s == n.cells
  <2>2. \A t \in T : t.key \in Keys
    OBVIOUS
  <2>3. s \in Seq(T) /\ Len(s) \in 1 .. Len(s)
    BY <1>3, <2>1
  <2> HIDE DEF T, s
  <2>4. s[Len(s)] \in T
    BY <2>3
  <2>5. s[Len(s)].key \in Keys
    BY <2>2, <2>4
  <2> QED BY <2>5 DEF MaxKey, NumCells, s
<1> QED BY <1>1, <1>2, <1>3

\* update_internal_node_key of a root over two leaves.
LEMMA RenamedRoot ==
  ASSUME NEW n, NEW l, NEW r, RootOver(n, l, r), NEW old \in Int, NEW new \in Keys
  PROVE  /\ RootOver(UpdateKey(n, old, new), l, r)
         /\ UpdateKey(n, old, new).cells[1].key = IF n.cells[1].key < old THEN n.cells[1].key ELSE new
<1> DEFINE i == FindChild(n, old)
           u == UpdateKey(n, old, new)
<1>1. /\ n.cells \in Seq(Separator) /\ NumCells(n) = 1 /\ Len(n.cells) = 1
      /\ n.cells[1] \in Separator /\ n.cells[1].child = l /\ l \in Pages /\ r \in Pages
      /\ n.cells[1].key \in Int
      /\ Ordered(n, Separator)
  BY RootOverFacts DEF NumCells
<1>2. i = IF n.cells[1].key < old THEN 1 ELSE 0
  <2>1. IsPlace(n, old, i)
    BY <1>1, FindChildIsPlace
  <2> QED BY <1>1, <2>1 DEF IsPlace
<1>3. n \in [type : {"internal"}, root : {TRUE}, parent : Nat \cup {Unset},
             link : {r}, cells : Seq(Separator)]
  BY DEF RootOver
<1>4. CASE n.cells[1].key < old
  <2>1. u = n
    BY <1>1, <1>2, <1>4 DEF UpdateKey
  <2> QED BY <1>4, <2>1
<1>5. CASE ~(n.cells[1].key < old)
  <2> DEFINE sep == [n.cells[1] EXCEPT !.key = new]
             cells == [n.cells EXCEPT ![1] = sep]
  <2>1. sep \in Separator /\ sep.child = l /\ sep.key = new
    BY <1>1 DEF Separator
  <2>2. u = [n EXCEPT !.cells = cells]
    <3>1. i = 0 /\ i < NumCells(n)
      BY <1>1, <1>2, <1>5
    <3>2. u = [n EXCEPT !.cells[i + 1].key = new]
      BY <3>1 DEF UpdateKey
    <3>3. i + 1 = 1
      BY <3>1
    <3> HIDE DEF i
    <3>4. u = [n EXCEPT !.cells[1].key = new]
      BY <3>2, <3>3
    <3> QED BY <3>4
  <2> HIDE DEF sep
  <2>3. cells \in Seq(Separator) /\ Len(cells) = 1 /\ cells[1] = sep
    BY <1>1, <2>1
  <2> HIDE DEF cells, u
  <2>4. /\ u \in [type : {"internal"}, root : {TRUE}, parent : Nat \cup {Unset},
                  link : {r}, cells : Seq(Separator)]
        /\ u.cells = cells
    BY <1>3, <2>2, <2>3
  <2>5. RootOver(u, l, r)
    BY <1>1, <2>1, <2>3, <2>4 DEF RootOver, NumCells
  <2> QED BY <1>5, <2>1, <2>3, <2>4, <2>5 DEF u
<1> QED BY <1>4, <1>5

\* The node m with two cells that n with one becomes, over its child, its right
\* child r and the child inserted.
Grown(n, m, r, child, child_max, right_max) ==
  LET sep == n.cells[1]
      last == [child |-> r, key |-> right_max]
      added == [child |-> child, key |-> child_max]
  IN /\ m \in [type : {"internal"}, root : {TRUE}, parent : Nat \cup {Unset},
               link : Pages, cells : Seq(Separator)]
     /\ m \in Nodes
     /\ NumCells(m) = 2
     /\ child_max > right_max => m.link = child /\ m.cells = <<sep, last>>
     /\ ~(child_max > right_max) =>
          m.link = r /\ m.cells = IF sep.key < child_max THEN <<sep, added>> ELSE <<added, sep>>

\* internal_node_insert into it.
LEMMA GrownRoot ==
  ASSUME NEW n, NEW l, NEW r, RootOver(n, l, r), NEW child \in Pages,
         NEW child_max \in Keys, NEW right_max \in Keys
  PROVE  Grown(n, InternalInsert(n, child, child_max, right_max), r, child, child_max, right_max)
<1> DEFINE new == InternalInsert(n, child, child_max, right_max)
           sep == n.cells[1]
           last == [child |-> r, key |-> right_max]
           added == [child |-> child, key |-> child_max]
<1>1. /\ n.cells \in Seq(Separator) /\ NumCells(n) = 1 /\ Len(n.cells) = 1
      /\ sep \in Separator /\ r \in Pages /\ n.link = r
      /\ sep.key \in Int
      /\ Ordered(n, Separator)
  BY RootOverFacts DEF NumCells
<1>2. n \in [type : {"internal"}, root : {TRUE}, parent : Nat \cup {Unset},
             link : {r}, cells : Seq(Separator)]
  BY DEF RootOver
<1>3. last \in Separator /\ added \in Separator
  BY <1>1 DEF Separator
<1>4. child_max \in Int
  BY KeysAssumption
<1>5. n.cells = <<sep>>
  BY <1>1
<1>6. ASSUME NEW m, m.cells \in Seq(Separator), Len(m.cells) = 2, m.link \in Pages,
             m = [n EXCEPT !.cells = m.cells] \/ m = [n EXCEPT !.cells = m.cells, !.link = m.link]
      PROVE  /\ m \in [type : {"internal"}, root : {TRUE}, parent : Nat \cup {Unset},
                       link : Pages, cells : Seq(Separator)]
             /\ m \in Nodes /\ NumCells(m) = 2
  <2>1. m \in [type : {"internal"}, root : {TRUE}, parent : Nat \cup {Unset},
               link : Pages, cells : Seq(Separator)]
    <3> DEFINE cells == m.cells
               link == m.link
    <3>1. cells \in Seq(Separator) /\ link \in Pages
          /\ (m = [n EXCEPT !.cells = cells] \/ m = [n EXCEPT !.cells = cells, !.link = link])
      BY <1>6
    <3> HIDE DEF cells, link
    <3> QED BY <1>1, <1>2, <3>1
  <2>2. Separator \subseteq [child : Nat, key : Keys]
    <3>1. \A t \in [child : Pages, key : Keys] : t \in [child : Nat, key : Keys]
      BY PageNumbers
    <3> QED BY <3>1 DEF Separator
  <2>3. m.cells \in Seq([child : Nat, key : Keys])
    <3> DEFINE wide == [child : Nat, key : Keys]
    <3>1. Separator \subseteq wide
      BY <2>2
    <3> HIDE DEF wide
    <3>2. \A s \in Seq(Separator) : s \in Seq(wide)
      BY <3>1, WiderSeq
    <3> QED BY <1>6, <3>2 DEF wide
  <2>4. m \in Nodes
    BY <2>1, <2>3, PageNumbers DEF Nodes
  <2> QED BY <1>6, <2>1, <2>4 DEF NumCells
<1> HIDE DEF sep, last, added
<1>7. CASE child_max > right_max
  <2> DEFINE cells == Append(n.cells, last)
  <2>1. new = [n EXCEPT !.cells = cells, !.link = child]
    BY <1>1, <1>7 DEF InternalInsert, last
  <2>2. cells = <<sep, last>> /\ cells \in Seq(Separator) /\ Len(cells) = 2
    <3>1. cells \in Seq(Separator) /\ Len(cells) = 2 /\ cells[1] = sep /\ cells[2] = last
      <4>1. /\ cells \in Seq(Separator) /\ Len(cells) = Len(n.cells) + 1
            /\ \A k \in 1 .. Len(n.cells) : cells[k] = n.cells[k]
            /\ cells[Len(n.cells) + 1] = last
        <5>1. \A s \in Seq(Separator), e \in Separator :
                /\ Append(s, e) \in Seq(Separator) /\ Len(Append(s, e)) = Len(s) + 1
                /\ \A k \in 1 .. Len(s) : Append(s, e)[k] = s[k]
                /\ Append(s, e)[Len(s) + 1] = e
          BY AppendSet
        <5> QED BY <1>1, <1>3, <5>1
      <4> HIDE DEF cells
      <4> QED BY <1>1, <4>1 DEF sep
    <3> HIDE DEF cells
    <3>2. cells = <<cells[1], cells[2]>>
      BY <3>1
    <3> QED BY <3>1, <3>2
  <2> HIDE DEF cells, new
  <2>3. new.cells = cells /\ new.link = child
    BY <1>2, <2>1
  <2>4. /\ new \in [type : {"internal"}, root : {TRUE}, parent : Nat \cup {Unset},
                    link : Pages, cells : Seq(Separator)]
        /\ new \in Nodes /\ NumCells(new) = 2
    BY <1>6, <2>1, <2>2, <2>3
  <2> QED BY <1>7, <2>2, <2>3, <2>4 DEF new, sep, last, added, Grown
<1>8. CASE ~(child_max > right_max)
  <2> DEFINE i == FindChild(n, child_max)
             cells == InsertAt(n.cells, i + 1, added)
  <2>1. new = [n EXCEPT !.cells = cells]
    BY <1>8 DEF InternalInsert, added
  <2>2. i = IF sep.key < child_max THEN 1 ELSE 0
    <3>1. IsPlace(n, child_max, i)
      BY <1>1, <1>4, FindChildIsPlace
    <3> QED BY <1>1, <1>4, <3>1 DEF IsPlace, sep
  <2>3. IsInsert(Separator, n.cells, i, added, cells)
    <3>1. i \in 0 .. Len(n.cells)
      BY <1>1, <2>2
    <3> QED BY <1>1, <1>3, <3>1, InsertAtFacts
  <2> HIDE DEF i, cells, new
  <2>4. /\ cells \in Seq(Separator) /\ Len(cells) = 2
        /\ cells[1] = IF 1 <= i THEN n.cells[1] ELSE added
        /\ cells[2] = IF 2 = i + 1 THEN added ELSE n.cells[1]
    <3>1. /\ cells \in Seq(Separator) /\ Len(cells) = 2
          /\ \A k \in 1 .. 2 : cells[k] = IF k <= i THEN n.cells[k]
                                          ELSE IF k = i + 1 THEN added ELSE n.cells[k - 1]
      BY <1>1, <2>3 DEF IsInsert
    <3> QED BY <2>2, <3>1
  <2>5. cells = IF sep.key < child_max THEN <<sep, added>> ELSE <<added, sep>>
    <3>1. cells = <<cells[1], cells[2]>>
      BY <2>4
    <3> QED BY <2>2, <2>4, <3>1 DEF sep
  <2>6. new.cells = cells /\ new.link = r
    BY <1>1, <1>2, <2>1
  <2>7. /\ new \in [type : {"internal"}, root : {TRUE}, parent : Nat \cup {Unset},
                    link : Pages, cells : Seq(Separator)]
        /\ new \in Nodes /\ NumCells(new) = 2
    BY <1>1, <1>6, <2>1, <2>4, <2>6
  <2> QED BY <1>8, <2>5, <2>6, <2>7 DEF new, sep, last, added, Grown
<1> QED BY <1>7, <1>8

\* The parent of a split leaf is page 0, and has room or not.
LEMMA InParentKept ==
  ASSUME FileOfNodes, NEW pg, Kept(pg), NEW l, NEW r, RootOver(P!Seen(pg, 0), l, r),
         NEW page \in Pages, pg.pages[page] \in Nodes, NumCells(pg.pages[page]) # 0,
         pg.pages[page].parent = 0,
         NEW new \in Pages, pg.pages[new] \in Nodes, NumCells(pg.pages[new]) # 0,
         NEW old_max \in Int
  PROVE  Kept(InsertInParent(pg, page, new, old_max))
<1> DEFINE max == MaxKey(pg.pages[page])
           new_max == MaxKey(pg.pages[new])
           loaded == P!LoadPage(pg, 0)
           renamed == UpdateKey(loaded.pages[0], old_max, max)
           all == P!LoadPage(loaded, renamed.link)
           right == all.pages[renamed.link]
<1>1. max \in Keys /\ new_max \in Keys /\ 0 \in Pages
  BY MaxKeyIsKey, PageNumbers
<1>2. InsertInParent(pg, page, new, old_max) =
        IF NumCells(renamed) >= INTERNAL_NODE_MAX_CELLS THEN P!StorePage(loaded, 0, renamed)
        ELSE IF NumCells(right) = 0 THEN P!StorePage(all, 0, renamed)
        ELSE P!StorePage(all, 0, InternalInsert(renamed, new, new_max, MaxKey(right)))
  BY DEF InsertInParent
<1> HIDE DEF max, new_max, loaded
<1>3. Kept(loaded) /\ loaded.pages[0] = P!Seen(pg, 0) /\ loaded.pages[0] # Null
  BY <1>1, LoadPageLoads DEF loaded, Loads
<1>4. RootOver(renamed, l, r)
  BY <1>1, <1>3, RenamedRoot
<1> HIDE DEF renamed
<1>5. renamed \in Nodes /\ renamed.link \in Pages
  BY <1>4, RootOverFacts
<1>6. /\ Kept(all) /\ right \in Nodes
      /\ all.pages[0] # Null
  <2>1. /\ Loads(loaded, all, {renamed.link}) /\ all.pages[renamed.link] = P!Seen(loaded, renamed.link)
    BY <1>3, <1>5, LoadPageLoads
  <2>2. P!Seen(loaded, renamed.link) \in Nodes
    BY <1>3, <1>5, KeptFacts
  <2> QED BY <1>1, <1>3, <2>1, <2>2 DEF Loads
<1> HIDE DEF all, right
<1>7. Kept(P!StorePage(loaded, 0, renamed)) /\ Kept(P!StorePage(all, 0, renamed))
  BY <1>1, <1>3, <1>5, <1>6, StorePageKept
<1>8. CASE NumCells(right) # 0
  <2>1. MaxKey(right) \in Keys
    BY <1>6, <1>8, MaxKeyIsKey
  <2>2. InternalInsert(renamed, new, new_max, MaxKey(right)) \in Nodes
    BY <1>1, <1>4, <2>1, GrownRoot DEF Grown
  <2>3. Kept(P!StorePage(all, 0, InternalInsert(renamed, new, new_max, MaxKey(right))))
    BY <1>1, <1>6, <2>2, StorePageKept
  <2> QED BY <1>2, <1>7, <2>3
<1>9. CASE NumCells(right) = 0
  BY <1>2, <1>7, <1>9
<1> QED BY <1>8, <1>9

-----------------------------------------------------------------------------
(* The statements keep the invariant.                                      *)

\* What every statement finds.
SessionInv == DatabaseInv /\ pc = "open"

LEMMA SessionFacts ==
  ASSUME SessionInv
  PROVE  /\ FileOfNodes /\ FileInv /\ Kept(pager) /\ TreeIn(pager) /\ CursorInv
         /\ flushing \in Nat /\ printed \in Row \cup {Null}
         /\ result \in {"none", "executed", "duplicate"}
BY DEF SessionInv, DatabaseInv, FileInv, FileOfNodes

\* The shape of the tree, as one of three cases.
LEMMA ThreeShapes ==
  ASSUME NEW pg, TreeIn(pg)
  PROVE  \/ SplitSaved /\ Saved(pg)
         \/ ~SplitSaved /\ Single(pg)
         \/ ~SplitSaved /\ \E left, right \in Pages : Forked(pg, left, right)
BY DEF TreeIn

\* The file stays, the process goes on: what is left to show of a statement.
LEMMA StatementInv ==
  ASSUME DatabaseInv, pc = "open", UNCHANGED <<file, pc, flushing>>,
         Kept(pager'), TreeIn(pager'), CursorInv',
         printed' \in Row \cup {Null}, result' \in {"none", "executed", "duplicate"}
  PROVE  DatabaseInv'
BY DEF DatabaseInv, FileInv, SplitSaved, Kept, TreeIn, Single, Forked, Saved, HoldsFirst,
       P!Seen, P!ReadSlot

LEMMA NoCursorInv ==
  ASSUME cursor = NoCursor, printed = Null
  PROVE  CursorInv
BY PageNumbers DEF CursorInv, NoCursor

LEMMA NoCursorInvNext ==
  ASSUME cursor' = NoCursor, printed' = Null
  PROVE  CursorInv'
BY PageNumbers DEF CursorInv, NoCursor

\* The process exits in a statement; what was in memory is still a pager.
LEMMA ExitsInv ==
  ASSUME SessionInv, NEW pg, Kept(pg), Exits(pg)
  PROVE  DatabaseInv'
<1>1. /\ file' = file /\ flushing' = flushing /\ pc' = "down" /\ pager' \in PagerRecord
      /\ cursor' = NoCursor /\ printed' = Null /\ result' = "none"
  BY DEF Exits, EndsStatement, Kept
<1>2. FileInv' /\ flushing' \in Nat
  BY <1>1 DEF SessionInv, DatabaseInv, FileInv, SplitSaved
<1>3. CursorInv'
  BY <1>1, NoCursorInvNext
<1> QED BY <1>1, <1>2, <1>3 DEF DatabaseInv

\* An insert or a table_find that returns to the prompt.
LEMMA ReturnsInv ==
  ASSUME SessionInv, Ready, NEW pg, Kept(pg), TreeIn(pg), NEW r \in {"executed", "duplicate"},
         Returns(pg, r)
  PROVE  DatabaseInv'
<1>1. /\ file' = file /\ flushing' = flushing /\ pc' = pc /\ pager' = pg
      /\ cursor' = cursor /\ printed' = printed /\ result' = r /\ pc = "open"
  BY DEF Returns, Ready
<1>2. cursor = NoCursor /\ printed = Null
  BY SessionFacts DEF Ready, CursorInv
<1>3. CursorInv'
  BY <1>1, <1>2, NoCursorInvNext
<1> QED BY <1>1, <1>2, <1>3, StatementInv DEF SessionInv

\* table_find leaves the tree as it is.
LEMMA FindKeepsTree ==
  ASSUME SessionInv, NEW key \in Int, NEW find, find = TableFind(pager, key)
  PROVE  Kept(find.pg) /\ TreeIn(find.pg)
<1>1. PICK S : Shape(pager, S)
  BY SessionFacts, TreeHasShape
<1>2. Loads(pager, find.pg, S)
  BY <1>1, SessionFacts, FindInShape
<1>3. Shape(find.pg, S) /\ Kept(find.pg)
  BY <1>1, <1>2, SessionFacts, LoadsShape
<1> QED BY <1>3, TreeHasShape

LEMMA InsertInLeafInv ==
  ASSUME SessionInv, Ready, NEW row \in Row, NEW find, find = TableFind(pager, row.key),
         InsertInLeaf(find, row)
  PROVE  DatabaseInv'
<1> DEFINE pg2 == P!StorePage(find.pg, find.page,
                              LeafInsert(find.pg.pages[find.page], find.cell, row))
<1>1. Inserts(find, row, FALSE) /\ Returns(pg2, "executed")
  BY DEF InsertInLeaf
<1>2. FileOfNodes /\ Kept(pager) /\ TreeIn(pager)
  BY SessionFacts
<1> HIDE DEF pg2
<1>3. InsertsInto(pager, find, row, pg2)
  BY <1>1 DEF InsertsInto, pg2
<1>4. CASE SplitSaved /\ Saved(pager)
  <2>1. Kept(pg2) /\ Saved(pg2)
    BY <1>1, <1>2, <1>3, <1>4, InsertSaved
  <2>2. TreeIn(pg2)
    BY <1>4, <2>1 DEF TreeIn
  <2> QED BY <1>1, <2>1, <2>2, ReturnsInv
<1>5. CASE ~SplitSaved /\ Single(pager)
  <2>1. Kept(pg2) /\ Single(pg2)
    BY <1>1, <1>2, <1>3, <1>5, InsertSingle
  <2>2. TreeIn(pg2)
    BY <1>5, <2>1 DEF TreeIn
  <2> QED BY <1>1, <2>1, <2>2, ReturnsInv
<1>6. CASE ~SplitSaved /\ \E left, right \in Pages : Forked(pager, left, right)
  <2>1. PICK left, right \in Pages : Forked(pager, left, right)
    BY <1>6
  <2>2. Kept(pg2) /\ Forked(pg2, left, right)
    BY <1>1, <1>2, <1>3, <1>6, <2>1, InsertForked
  <2>3. TreeIn(pg2)
    BY <1>6, <2>2 DEF TreeIn
  <2> QED BY <1>1, <2>2, <2>3, ReturnsInv
<1> QED BY <1>2, <1>4, <1>5, <1>6, ThreeShapes

\* Only a table that is one leaf has a leaf that is the root.
LEMMA RootIsSingle ==
  ASSUME SessionInv, NEW key \in Int, NEW find, find = TableFind(pager, key), ~find.endless
  PROVE  IF find.pg.pages[find.page].root THEN ~SplitSaved /\ Single(pager)
         ELSE \/ SplitSaved /\ Saved(pager)
              \/ ~SplitSaved /\ \E left, right \in Pages : Forked(pager, left, right)
<1>1. FileOfNodes /\ Kept(pager) /\ TreeIn(pager)
  BY SessionFacts
<1>2. CASE SplitSaved /\ Saved(pager)
  <2>1. find.pg.pages[find.page] = P!Seen(pager, find.page) /\ LastLeaf(P!Seen(pager, find.page))
    BY <1>1, <1>2, FindSaved
  <2> QED BY <1>2, <2>1 DEF LastLeaf
<1>3. CASE ~SplitSaved /\ Single(pager)
  <2>1. find.pg.pages[find.page] = P!Seen(pager, 0) /\ RootLeaf(P!Seen(pager, 0))
    BY <1>1, <1>3, FindSingle DEF Single
  <2> QED BY <1>3, <2>1 DEF RootLeaf
<1>4. CASE ~SplitSaved /\ \E left, right \in Pages : Forked(pager, left, right)
  <2>1. PICK left, right \in Pages : Forked(pager, left, right)
    BY <1>4
  <2>2. find.pg = pager /\ find.page \in {left, right}
    BY <1>1, <1>4, <2>1, FindForked DEF Chosen
  <2>3. ~find.pg.pages[find.page].root
    BY <2>1, <2>2 DEF Forked, LastLeaf
  <2> QED BY <1>4, <2>3
<1> QED BY <1>1, <1>2, <1>3, <1>4, ThreeShapes

LEMMA InsertSplittingRootInv ==
  ASSUME SessionInv, Ready, NEW row \in Row, NEW find, find = TableFind(pager, row.key),
         InsertSplittingRoot(find, row)
  PROVE  DatabaseInv'
<1> DEFINE split == SplitLeaf(find.pg, find.page, find.cell, row)
           pg2 == CreateNewRoot(split, P!UnusedPageNum(find.pg))
<1>1. /\ Inserts(find, row, TRUE) /\ find.pg.pages[find.page].root /\ RoomForPage(find.pg)
      /\ RoomForPage(split) /\ Returns(pg2, "executed")
  BY DEF InsertSplittingRoot
<1>2. ~find.endless
  BY <1>1, Zenon DEF Inserts
<1>3. ~SplitSaved /\ Single(pager) /\ FileOfNodes /\ Kept(pager)
  BY <1>1, <1>2, RootIsSingle, SessionFacts, RowKeys
<1> HIDE DEF split, pg2
<1>4. SplitsRoot(pager, find, row, pg2)
  BY <1>1 DEF SplitsRoot, split, pg2
<1>5. Kept(pg2) /\ \E left, right \in Pages : Forked(pg2, left, right)
  BY <1>1, <1>3, <1>4, SplitSingle
<1>6. TreeIn(pg2)
  BY <1>3, <1>5 DEF TreeIn
<1> QED BY <1>1, <1>5, <1>6, ReturnsInv

\* The leaf table_find ends at, if it ends.
LEMMA FoundLeaf ==
  ASSUME SessionInv, NEW key \in Int, NEW find, find = TableFind(pager, key), ~find.endless
  PROVE  LET leaf == find.pg.pages[find.page]
         IN /\ find.page \in Pages /\ leaf # Null /\ LeafNode(leaf)
            /\ find.cell = LeafFind(leaf, key) /\ find.cell \in 0 .. NumCells(leaf)
            /\ P!Seen(find.pg, find.page) = leaf
            /\ \E S \in SUBSET Pages : Shape(find.pg, S) /\ find.page \in S
            /\ ~leaf.root => find.page # 0 /\ \E l, r : RootOver(P!Seen(find.pg, 0), l, r)
<1> DEFINE leaf == find.pg.pages[find.page]
<1>1. FileOfNodes /\ Kept(pager) /\ TreeIn(pager)
  BY SessionFacts
<1>2. leaf # Null => P!Seen(find.pg, find.page) = leaf
  BY DEF P!Seen
<1>6. \E S \in SUBSET Pages : Shape(find.pg, S) /\ find.page \in S
  <2>1. PICK S : Shape(pager, S)
    BY <1>1, TreeHasShape
  <2>2. Loads(pager, find.pg, S) /\ find.page \in S
    BY <1>1, <2>1, FindInShape
  <2>3. Shape(find.pg, S)
    BY <1>1, <2>1, <2>2, LoadsShape
  <2> QED BY <2>2, <2>3, TreeHasShape
<1>3. CASE SplitSaved /\ Saved(pager)
  <2>1. /\ leaf = P!Seen(pager, find.page) /\ leaf # Null /\ find.page \in {0, 1, 2}
        /\ find.page # 0 /\ LastLeaf(leaf) /\ find.cell = LeafFind(leaf, key)
        /\ Saved(find.pg)
    BY <1>1, <1>3, FindSaved
  <2>2. find.page \in Pages /\ RootOver(P!Seen(find.pg, 0), 2, 1)
    BY <2>1 DEF Saved, RootOver
  <2>3. LeafNode(leaf) /\ find.cell \in 0 .. NumCells(leaf)
    BY <2>1, CellIsPlace DEF LastLeaf
  <2> QED BY <1>2, <1>3, <1>6, <2>1, <2>2, <2>3
<1>4. CASE ~SplitSaved /\ Single(pager)
  <2>1. /\ leaf = P!Seen(pager, 0) /\ leaf # Null /\ find.page = 0
        /\ find.cell = LeafFind(leaf, key) /\ RootLeaf(leaf)
    BY <1>1, <1>4, FindSingle DEF Single
  <2>2. LeafNode(leaf) /\ leaf.root /\ find.cell \in 0 .. NumCells(leaf)
    BY <2>1, CellIsPlace DEF RootLeaf
  <2> QED BY <1>2, <1>4, <1>6, <2>1, <2>2, PageNumbers
<1>5. CASE ~SplitSaved /\ \E left, right \in Pages : Forked(pager, left, right)
  <2>1. PICK left, right \in Pages : Forked(pager, left, right)
    BY <1>5
  <2>2. find.pg = pager /\ find.page \in {left, right} /\ find.cell = LeafFind(leaf, key)
    BY <1>1, <1>5, <2>1, FindForked DEF Chosen
  <2>3. /\ left # 0 /\ right # 0 /\ leaf # Null /\ LeafNode(leaf) /\ ~leaf.root
        /\ RootOver(P!Seen(find.pg, 0), left, right)
    BY <2>1, <2>2 DEF Forked, LastLeaf, P!Seen
  <2>4. find.cell \in 0 .. NumCells(leaf)
    BY <2>2, <2>3, CellIsPlace
  <2> QED BY <1>2, <1>5, <1>6, <2>1, <2>2, <2>3, <2>4
<1> QED BY <1>1, <1>3, <1>4, <1>5, ThreeShapes

LEMMA InsertSplittingLeafInv ==
  ASSUME SessionInv, Ready, NEW row \in Row, NEW find, find = TableFind(pager, row.key),
         InsertSplittingLeaf(find, row)
  PROVE  DatabaseInv'
<1> DEFINE g == find.pg
           page == find.page
           leaf == g.pages[page]
           split == SplitLeaf(g, page, find.cell, row)
           new == g.num_pages
           old_cells == SplitCells(leaf.cells, find.cell, row).old
           new_cells == SplitCells(leaf.cells, find.cell, row).new
           res == InsertInParent(split, page, new, MaxKey(leaf))
<1>1. /\ Inserts(find, row, TRUE) /\ ~leaf.root /\ RoomForPage(g) /\ Exits(res)
  BY DEF InsertSplittingLeaf, P!UnusedPageNum
<1>2. /\ ~find.endless /\ ~KeyTaken(leaf, find.cell, row.key)
  BY <1>1, Zenon DEF Inserts
<1>3. NumCells(leaf) >= LEAF_NODE_MAX_CELLS
  BY <1>1, Zenon DEF Inserts
<1>4. row.key \in Int /\ FileOfNodes /\ Kept(g)
  BY SessionFacts, RowKeys, FindKeepsTree
<1>5. /\ page \in Pages /\ leaf # Null /\ LeafNode(leaf) /\ find.cell = LeafFind(leaf, row.key)
      /\ page # 0 /\ \E l, r : RootOver(P!Seen(g, 0), l, r)
  BY <1>1, <1>2, <1>4, FoundLeaf
<1>6. CanSplit(g, page, find.cell, row)
  BY <1>1, <1>2, <1>3, <1>4, <1>5 DEF CanSplit
<1>7. HasSplit(g, page, row, split, new, old_cells, new_cells)
  BY <1>4, <1>6, SplitLeafFacts
<1>8. leaf.parent = 0
  BY <1>1, <1>5 DEF LeafNode
<1>9. MaxKey(leaf) \in Int
  <2>1. leaf \in Nodes /\ NumCells(leaf) # 0
    BY <1>3, <1>5, LeafNodeFacts, LeafSizeAssumption
  <2>2. MaxKey(leaf) \in Keys
    BY <2>1, MaxKeyIsKey
  <2>3. \A k \in Keys : k \in Int
    BY KeysAssumption
  <2> HIDE DEF leaf
  <2> QED BY <2>2, <2>3
<1> HIDE DEF g, page, split, new, old_cells, new_cells, leaf
<1>10. /\ Kept(split) /\ new \in Pages /\ new # page
       /\ \A q \in Pages \ {page, new} : split.pages[q] = g.pages[q]
       /\ split.pages[page] \in Nodes /\ split.pages[new] \in Nodes
       /\ split.pages[page].cells = old_cells /\ split.pages[new].cells = new_cells
       /\ Len(old_cells) > 0 /\ Len(new_cells) > 0
       /\ old_cells \in Seq(Row) /\ new_cells \in Seq(Row)
  BY <1>7 DEF HasSplit, SplitOf
<1>11. split.pages[page].parent = 0
  BY <1>7, <1>8 DEF HasSplit, leaf
<1>12. NumCells(split.pages[page]) # 0 /\ NumCells(split.pages[new]) # 0
  BY <1>10 DEF NumCells
<1>13. new # 0
  <2>1. page < new /\ page \in Nat /\ new \in Nat
    BY <1>4, <1>5, PageNumbers DEF Kept, PagerRecord, leaf, new
  <2> QED BY <2>1
<1>14. P!Seen(split, 0) = P!Seen(g, 0)
  <2>1. split.pages[0] = g.pages[0]
    BY <1>5, <1>10, <1>13, PageNumbers
  <2> QED BY <2>1 DEF P!Seen
<1>15. Kept(res)
  <2>1. PICK l, r : RootOver(P!Seen(split, 0), l, r)
    BY <1>5, <1>14
  <2> QED BY <1>4, <1>5, <1>9, <1>10, <1>11, <1>12, <2>1, InParentKept
<1> QED BY <1>1, <1>15, ExitsInv

\* Every insert.
LEMMA InsertInv ==
  ASSUME DatabaseInv, NEW row \in Entered, Insert(row)
  PROVE  DatabaseInv'
<1> DEFINE find == TableFind(pager, row.key)
<1>1. Ready /\ SessionInv
  BY DEF Insert, Ready, SessionInv
<1>2. row \in Row /\ row.key \in Int
  BY EnteredAssumption, RowKeys DEF Row
<1>3. Kept(find.pg) /\ TreeIn(find.pg)
  BY <1>1, <1>2, FindKeepsTree
<1>4. \/ InsertEndless(find) \/ InsertDuplicate(find, row) \/ InsertInLeaf(find, row)
      \/ InsertSplittingRoot(find, row) \/ InsertOutOfPages(find, row)
      \/ InsertSplittingLeaf(find, row)
  BY DEF Insert
<1>5. find = TableFind(pager, row.key)
  OBVIOUS
<1> HIDE DEF find
<1>6. CASE InsertEndless(find)
  BY <1>1, <1>3, <1>6, ExitsInv DEF InsertEndless
<1>7. CASE InsertDuplicate(find, row)
  BY <1>1, <1>3, <1>7, ReturnsInv DEF InsertDuplicate
<1>8. CASE InsertInLeaf(find, row)
  BY <1>1, <1>2, <1>5, <1>8, InsertInLeafInv
<1>9. CASE InsertSplittingRoot(find, row)
  BY <1>1, <1>2, <1>5, <1>9, InsertSplittingRootInv
<1>10. CASE InsertOutOfPages(find, row)
  BY <1>1, <1>3, <1>10, ExitsInv DEF InsertOutOfPages
<1>11. CASE InsertSplittingLeaf(find, row)
  BY <1>1, <1>2, <1>5, <1>11, InsertSplittingLeafInv
<1> QED BY <1>4, <1>6, <1>7, <1>8, <1>9, <1>10, <1>11

\* The cursor's leaf, and the next.
LEMMA LeafAtCursor ==
  ASSUME FileOfNodes, NEW pg, Kept(pg), NEW S, Shape(pg, S), NEW p \in S, IsLeaf(P!Seen(pg, p))
  PROVE  LET node == P!Seen(pg, p)
         IN /\ LeafNode(node)
            /\ node.link # 0 => node.link \in S /\ IsLeaf(P!Seen(pg, node.link))
<1>0. S \subseteq Pages
  BY TreeHasShape
<1>1. CASE SplitSaved /\ Saved(pg) /\ S = {0, 1, 2}
  <2>1. \A l, r : ~RootOver(P!Seen(pg, p), l, r)
    BY RootOverFacts
  <2>2. LastLeaf(P!Seen(pg, p))
    BY <1>1, <2>1, SpareNodes DEF Saved, Misplaced
  <2> QED BY <2>2 DEF LastLeaf
<1>2. CASE ~SplitSaved /\ Single(pg) /\ S = {0}
  BY <1>2 DEF Single, RootLeaf
<1>3. CASE ~SplitSaved /\ \E left, right \in Pages : Forked(pg, left, right) /\ S = {0, left, right}
  <2>1. PICK left, right \in Pages : Forked(pg, left, right) /\ S = {0, left, right}
    BY <1>3
  <2>2. /\ P!Seen(pg, 0) = pg.pages[0] /\ P!Seen(pg, left) = pg.pages[left]
        /\ P!Seen(pg, right) = pg.pages[right]
    BY <2>1 DEF Forked, P!Seen
  <2>3. ~IsLeaf(pg.pages[0])
    BY <2>1, RootOverFacts DEF Forked
  <2>4. /\ LeafNode(pg.pages[left]) /\ pg.pages[left].link = right
        /\ LeafNode(pg.pages[right]) /\ pg.pages[right].link = 0
        /\ IsLeaf(pg.pages[right])
    BY <2>1, LeafNodeFacts DEF Forked, LastLeaf
  <2>5. p = left \/ p = right
    BY <2>1, <2>2, <2>3
  <2> QED BY <2>1, <2>2, <2>4, <2>5
<1> QED BY <1>1, <1>2, <1>3 DEF Shape

LEMMA SelectStartInv ==
  ASSUME DatabaseInv, SelectStart
  PROVE  DatabaseInv'
<1> DEFINE find == TableFind(pager, 0)
           leaf == find.pg.pages[find.page]
<1>1. Ready /\ SessionInv
  BY DEF SelectStart, Ready, SessionInv
<1>2. /\ ~find.endless /\ pager' = find.pg
      /\ cursor' = [page |-> find.page, cell |-> find.cell, open |-> TRUE,
                    end |-> NumCells(leaf) = 0]
      /\ file' = file /\ pc' = pc /\ flushing' = flushing /\ printed' = printed
      /\ result' = result /\ pc = "open"
  BY DEF SelectStart, Ready
<1>3. Kept(find.pg) /\ TreeIn(find.pg)
  BY <1>1, FindKeepsTree
<1>4. /\ find.page \in Pages /\ LeafNode(leaf) /\ find.cell \in 0 .. NumCells(leaf)
      /\ P!Seen(find.pg, find.page) = leaf
      /\ \E S \in SUBSET Pages : Shape(find.pg, S) /\ find.page \in S
  BY <1>1, <1>2, FoundLeaf
<1>5. IsLeaf(leaf) /\ find.cell \in Nat
  BY <1>4, LeafNodeFacts
<1> HIDE DEF find
<1>6. /\ cursor' \in [page : Pages, cell : Nat, end : BOOLEAN, open : BOOLEAN]
      /\ cursor'.open /\ cursor'.page = find.page
  BY <1>2, <1>4, <1>5
<1>7. P!Seen(pager, cursor.page)' = leaf
  BY <1>2, <1>4, <1>6 DEF P!Seen, P!ReadSlot
<1>8. (\E S \in SUBSET Pages : Shape(pager, S) /\ cursor.page \in S)'
  <2>1. PICK S \in SUBSET Pages : Shape(find.pg, S) /\ find.page \in S
    BY <1>4
  <2>2. Shape(pager, S)'
    BY <1>2, <2>1 DEF Shape, SplitSaved, Saved, Single, Forked, HoldsFirst, P!Seen, P!ReadSlot
  <2> QED BY <1>6, <2>1, <2>2
<1>9. CursorInv'
  BY <1>2, <1>5, <1>6, <1>7, <1>8 DEF CursorInv
<1>10. printed \in Row \cup {Null} /\ result \in {"none", "executed", "duplicate"}
  BY <1>1, SessionFacts
<1> QED BY <1>1, <1>2, <1>3, <1>9, <1>10, StatementInv DEF SessionInv

LEMMA SelectEndlessInv ==
  ASSUME DatabaseInv, SelectEndless
  PROVE  DatabaseInv'
<1>1. Ready /\ SessionInv /\ Exits(TableFind(pager, 0).pg)
  BY DEF SelectEndless, Ready, SessionInv
<1>2. Kept(TableFind(pager, 0).pg)
  BY <1>1, FindKeepsTree
<1> QED BY <1>1, <1>2, ExitsInv

LEMMA SelectEndInv ==
  ASSUME DatabaseInv, SelectEnd
  PROVE  DatabaseInv'
<1>1. SessionInv /\ file' = file /\ pc' = pc /\ flushing' = flushing /\ pager' = pager
      /\ cursor' = NoCursor /\ printed' = Null /\ result' = "executed"
  BY DEF SelectEnd, SessionInv
<1>2. CursorInv'
  BY <1>1, NoCursorInvNext
<1>3. Kept(pager) /\ TreeIn(pager)
  BY <1>1, SessionFacts
<1> QED BY <1>1, <1>2, <1>3, StatementInv DEF SessionInv

LEMMA SelectRowInv ==
  ASSUME DatabaseInv, SelectRow
  PROVE  DatabaseInv'
<1> DEFINE p == cursor.page
           loaded == P!LoadPage(pager, p)
           node == loaded.pages[p]
<1>1. /\ SessionInv /\ pc = "open" /\ cursor.open /\ ~cursor.end
      /\ pager' = loaded /\ printed' = RowAt(node, cursor.cell) /\ cursor' = Advance(cursor, node)
      /\ file' = file /\ pc' = pc /\ flushing' = flushing /\ result' = result
  BY DEF SelectRow, SessionInv
<1>2. FileOfNodes /\ Kept(pager) /\ result \in {"none", "executed", "duplicate"}
  BY <1>1, SessionFacts
<1>3. /\ cursor \in [page : Pages, cell : Nat, end : BOOLEAN, open : BOOLEAN]
      /\ IsLeaf(P!Seen(pager, p))
      /\ \E S \in SUBSET Pages : Shape(pager, S) /\ p \in S
  BY <1>1, SessionFacts DEF CursorInv
<1>4. PICK S \in SUBSET Pages : Shape(pager, S) /\ p \in S
  BY <1>3
<1>5. Loads(pager, loaded, S) /\ node = P!Seen(pager, p)
  <2>1. Loads(pager, loaded, {p}) /\ node = P!Seen(pager, p)
    BY <1>2, <1>4, LoadPageLoads
  <2> QED BY <1>4, <2>1, LoadsWider
<1>6. Shape(loaded, S) /\ Kept(loaded) /\ TreeIn(loaded)
  BY <1>2, <1>4, <1>5, LoadsShape, TreeHasShape
<1>7. /\ LeafNode(node) /\ IsLeaf(node)
      /\ node.link # 0 => node.link \in S /\ IsLeaf(P!Seen(pager, node.link))
  BY <1>2, <1>3, <1>4, <1>5, LeafAtCursor
<1>8. \A q \in S : P!Seen(loaded, q) = P!Seen(pager, q)
  BY <1>4, <1>5 DEF Loads
<1>9. /\ cursor' \in [page : Pages, cell : Nat, end : BOOLEAN, open : BOOLEAN]
      /\ cursor'.open
      /\ cursor'.page = p \/ (node.link # 0 /\ cursor'.page = node.link)
  <2> DEFINE next == Advance(cursor, node)
  <2>1. CASE cursor.cell + 1 < NumCells(node)
    <3>1. next = [cursor EXCEPT !.cell = cursor.cell + 1]
      BY <2>1 DEF Advance
    <3> DEFINE more == cursor.cell + 1
    <3>2. more \in Nat
      BY <1>3
    <3> HIDE DEF next, more
    <3>3. next = [cursor EXCEPT !.cell = more]
      BY <3>1 DEF more
    <3>4. /\ next \in [page : Pages, cell : Nat, end : BOOLEAN, open : BOOLEAN]
          /\ next.open = cursor.open /\ next.page = cursor.page
      BY <1>3, <3>2, <3>3
    <3> QED BY <1>1, <3>4 DEF next
  <2>2. CASE ~(cursor.cell + 1 < NumCells(node)) /\ node.link = 0
    <3>1. next = [cursor EXCEPT !.cell = cursor.cell + 1, !.end = TRUE]
      BY <2>2 DEF Advance
    <3> DEFINE more == cursor.cell + 1
    <3>2. more \in Nat
      BY <1>3
    <3> HIDE DEF next, more
    <3>3. next = [cursor EXCEPT !.cell = more, !.end = TRUE]
      BY <3>1 DEF more
    <3>4. /\ next \in [page : Pages, cell : Nat, end : BOOLEAN, open : BOOLEAN]
          /\ next.open = cursor.open /\ next.page = cursor.page
      BY <1>3, <3>2, <3>3
    <3> QED BY <1>1, <3>4 DEF next
  <2>3. CASE ~(cursor.cell + 1 < NumCells(node)) /\ node.link # 0
    <3> DEFINE link == node.link
    <3>1. next = [cursor EXCEPT !.page = link, !.cell = 0]
      BY <2>3 DEF Advance
    <3>2. link \in Pages
      BY <1>4, <1>7, <2>3
    <3> HIDE DEF link, next
    <3>3. /\ next \in [page : Pages, cell : Nat, end : BOOLEAN, open : BOOLEAN]
          /\ next.open = cursor.open /\ next.page = link
      BY <1>3, <3>1, <3>2
    <3> QED BY <1>1, <2>3, <3>3 DEF link, next
  <2> QED BY <2>1, <2>2, <2>3
<1>10. cursor'.page \in S /\ IsLeaf(P!Seen(loaded, cursor'.page))
  BY <1>3, <1>4, <1>7, <1>8, <1>9
<1>11. printed' \in Row \cup {Null}
  <2>1. cursor.cell < NumCells(node) => node.cells[cursor.cell + 1] \in Row
    <3>1. NumCells(node) \in Nat /\ cursor.cell \in Nat
          /\ node.cells \in Seq(Row) /\ NumCells(node) = Len(node.cells)
      BY <1>3, <1>7, LeafNodeFacts
    <3> HIDE DEF node
    <3> QED BY <3>1
  <2> QED BY <1>1, <1>7, <2>1 DEF RowAt
<1>12. IsLeaf(P!Seen(pager, cursor.page))'
  BY <1>1, <1>10 DEF P!Seen, P!ReadSlot
<1>13. (\E T \in SUBSET Pages : Shape(pager, T) /\ cursor.page \in T)'
  <2>1. Shape(pager, S)'
    BY <1>1, <1>6 DEF Shape, SplitSaved, Saved, Single, Forked, HoldsFirst, P!Seen, P!ReadSlot
  <2> QED BY <1>10, <2>1
<1>14. CursorInv'
  BY <1>1, <1>9, <1>12, <1>13 DEF CursorInv
<1> HIDE DEF loaded
<1> QED BY <1>1, <1>2, <1>6, <1>11, <1>14, StatementInv DEF SessionInv

-----------------------------------------------------------------------------
(* Walks down the tree.                                                    *)

\* One level of the recursions of Preorder and of LeavesUnder, given the next.
VisitLevel(pg, d, below) ==
  [q \in P!PageNums |->
     LET children == Children(P!Seen(pg, q))
     IN IF d = 0 THEN <<q>>
        ELSE <<q>> \o FlattenSeq([i \in DOMAIN children |-> below[children[i]]])]
LeavesLevel(d, below) ==
  [q \in P!PageNums |->
     LET children == Children(NodeOf(q))
     IN IF IsLeaf(NodeOf(q)) THEN <<q>> ELSE IF d = 0 THEN <<>>
        ELSE FlattenSeq([i \in DOMAIN children |-> below[children[i]]])]
Level(walk, pg, d, below) == IF walk = "visit" THEN VisitLevel(pg, d, below) ELSE LeavesLevel(d, below)

Walks(f, walk, pg, n) == f = [d \in 0 .. n |-> Level(walk, pg, d, f[d - 1])]

LEMMA BottomLevel ==
  ASSUME NEW walk, NEW pg, NEW below
  PROVE  Level(walk, pg, 0, below) = Level(walk, pg, 0, <<>>)
<1>1. VisitLevel(pg, 0, below) = VisitLevel(pg, 0, <<>>)
  BY DEF VisitLevel
<1>2. LeavesLevel(0, below) = LeavesLevel(0, <<>>)
  BY DEF LeavesLevel
<1> QED BY <1>1, <1>2 DEF Level

\* Both recursions have a value.
LEMMA LevelsExist ==
  ASSUME NEW walk, NEW pg, NEW n \in Nat
  PROVE  \E f : Walks(f, walk, pg, n)
<1> DEFINE bottom == Level(walk, pg, 0, <<>>)
           Good(f, k) == f = [d \in 0 .. k |-> IF d = 0 THEN bottom ELSE Level(walk, pg, d, f[d - 1])]
           wrong == {k \in Nat : ~ \E f : Good(f, k)}
<1>1. \E f : Good(f, n)
  <2> HIDE DEF bottom
  <2>1. SUFFICES ASSUME wrong # {} PROVE FALSE
    OBVIOUS
  <2>2. PICK k \in wrong : \A j \in wrong : k <= j
    BY <2>1, Least
  <2>3. CASE k = 0
    <3>1. Good([d \in 0 .. 0 |-> bottom], 0)
      OBVIOUS
    <3> QED BY <2>2, <2>3, <3>1
  <2>4. CASE k # 0
    <3>1. k - 1 \in Nat /\ k - 1 \notin wrong
      BY <2>2, <2>4
    <3>2. PICK f : Good(f, k - 1)
      BY <3>1
    <3> DEFINE g == [d \in 0 .. k |-> IF d = k THEN Level(walk, pg, d, f[k - 1]) ELSE f[d]]
    <3>3. \A d \in 0 .. k : g[d] = IF d = 0 THEN bottom ELSE Level(walk, pg, d, g[d - 1])
      <4> TAKE d \in 0 .. k
      <4>1. CASE d = k
        BY <4>1, <2>2, <2>4
      <4>2. CASE d # k
        <5>1. d \in 0 .. k - 1 /\ g[d] = f[d]
          BY <4>2, <2>2
        <5>2. f[d] = IF d = 0 THEN bottom ELSE Level(walk, pg, d, f[d - 1])
          BY <3>2, <5>1
        <5>3. d # 0 => g[d - 1] = f[d - 1]
          BY <4>2, <2>2
        <5> QED BY <5>1, <5>2, <5>3
      <4> QED BY <4>1, <4>2
    <3>4. Good(g, k)
      <4> HIDE DEF g
      <4>1. g = [d \in 0 .. k |-> g[d]]
        BY DEF g
      <4> QED BY <3>3, <4>1
    <3> QED BY <2>2, <3>4
  <2> QED BY <2>3, <2>4
<1>2. PICK f : Good(f, n)
  BY <1>1
<1>3. \A d \in 0 .. n : (IF d = 0 THEN bottom ELSE Level(walk, pg, d, f[d - 1])) = Level(walk, pg, d, f[d - 1])
  BY BottomLevel
<1>4. f = [d \in 0 .. n |-> Level(walk, pg, d, f[d - 1])]
  <2> HIDE DEF bottom
  <2> QED BY <1>2, <1>3
<1> QED BY <1>4 DEF Walks

Visit(pg, n) == CHOOSE f : f = [d \in 0 .. n |-> VisitLevel(pg, d, f[d - 1])]
Leaves(n) == CHOOSE f : f = [d \in 0 .. n |-> LeavesLevel(d, f[d - 1])]

LEMMA VisitExists ==
  ASSUME NEW pg, NEW n \in Nat
  PROVE  \A d \in 0 .. n : Visit(pg, n)[d] = VisitLevel(pg, d, Visit(pg, n)[d - 1])
<1>1. PICK f : Walks(f, "visit", pg, n)
  BY LevelsExist
<1>2. f = [d \in 0 .. n |-> VisitLevel(pg, d, f[d - 1])]
  BY <1>1 DEF Walks, Level
<1>3. Visit(pg, n) = [d \in 0 .. n |-> VisitLevel(pg, d, Visit(pg, n)[d - 1])]
  BY <1>2, Zenon DEF Visit
<1> HIDE DEF Visit
<1> QED BY <1>3

LEMMA LeavesExist ==
  ASSUME NEW n \in Nat
  PROVE  \A d \in 0 .. n : Leaves(n)[d] = LeavesLevel(d, Leaves(n)[d - 1])
<1>1. PICK f : Walks(f, "leaves", pager, n)
  BY LevelsExist
<1>2. f = [d \in 0 .. n |-> LeavesLevel(d, f[d - 1])]
  BY <1>1 DEF Walks, Level
<1>3. Leaves(n) = [d \in 0 .. n |-> LeavesLevel(d, Leaves(n)[d - 1])]
  BY <1>2, Zenon DEF Leaves
<1> QED BY <1>3

LEMMA PreorderIs ==
  ASSUME NEW pg, NEW p, NEW n
  PROVE  Preorder(pg, p, n) = Visit(pg, n)[n][p]
BY Zenon DEF Preorder, Visit, VisitLevel

LEMMA LeavesUnderIs ==
  ASSUME NEW p
  PROVE  LeavesUnder(p) = Leaves(TABLE_MAX_PAGES)[TABLE_MAX_PAGES][p]
BY Zenon DEF LeavesUnder, Leaves, LeavesLevel

\* print_tree visits pages of S only, if S has the children of its pages.
LEMMA PreorderIn ==
  ASSUME NEW pg, NEW S, S \subseteq Pages, NEW n \in Nat, NEW p \in S,
         \A q \in S : Children(P!Seen(pg, q)) \in Seq(S)
  PROVE  Preorder(pg, p, n) \in Seq(S)
<1> DEFINE v == Visit(pg, n)
           Inside(level) == \A q \in S : level[q] \in Seq(S)
           wrong == {d \in 0 .. n : ~Inside(v[d])}
<1>1. \A d \in 0 .. n : v[d] = VisitLevel(pg, d, v[d - 1])
  BY VisitExists
<1> HIDE DEF v
<1>2. \A q \in S : <<q>> \in Seq(S) /\ q \in P!PageNums
  BY DEF Pages
<1>3. ASSUME NEW d, NEW below, d = 0 \/ Inside(below)
      PROVE  Inside(VisitLevel(pg, d, below))
  <2> SUFFICES ASSUME NEW q \in S PROVE VisitLevel(pg, d, below)[q] \in Seq(S)
    OBVIOUS
  <2> DEFINE children == Children(P!Seen(pg, q))
             seqs == [i \in DOMAIN children |-> below[children[i]]]
  <2>1. VisitLevel(pg, d, below)[q] = IF d = 0 THEN <<q>> ELSE <<q>> \o FlattenSeq(seqs)
    BY <1>2 DEF VisitLevel
  <2>2. CASE d = 0
    BY <1>2, <2>1, <2>2
  <2>3. CASE d # 0
    <3>1. children \in Seq(S)
      OBVIOUS
    <3> HIDE DEF children
    <3>2. DOMAIN children = 1 .. Len(children) /\ Len(children) \in Nat
          /\ \A i \in DOMAIN children : children[i] \in S
      BY <3>1
    <3>3. \A i \in DOMAIN children : below[children[i]] \in Seq(S)
      BY <1>3, <2>3, <3>2
    <3>4. seqs \in Seq(Seq(S))
      BY <3>2, <3>3
    <3> HIDE DEF seqs
    <3>5. FlattenSeq(seqs) \in Seq(S)
      BY <3>4, FlattenFacts
    <3>6. <<q>> \o FlattenSeq(seqs) \in Seq(S)
      BY <1>2, <3>5
    <3> QED BY <2>1, <2>3, <3>6
  <2> QED BY <2>2, <2>3
<1>4. Inside(v[n])
  <2> HIDE DEF Inside
  <2>1. SUFFICES ASSUME wrong # {} PROVE FALSE
    OBVIOUS
  <2>2. wrong \subseteq Nat
    OBVIOUS
  <2>3. PICK d \in wrong : \A j \in wrong : d <= j
    BY <2>1, <2>2, Least
  <2>4. d # 0 => d - 1 \in 0 .. n /\ d - 1 < d
    BY <2>3
  <2>5. d = 0 \/ Inside(v[d - 1])
    BY <2>3, <2>4
  <2>6. Inside(VisitLevel(pg, d, v[d - 1]))
    BY <1>3, <2>5
  <2> QED BY <1>1, <2>3, <2>6
<1> QED BY <1>4, PreorderIs DEF v

\* Reading them all leaves the tree as it is.
LEMMA LoadPagesLoads ==
  ASSUME FileOfNodes, NEW pg, Kept(pg), NEW S, S \subseteq Pages, NEW pages \in Seq(S)
  PROVE  Loads(pg, LoadPages(pg, pages), S)
<1> DEFINE N == Len(pages)
           Record == {g \in PagerRecord : Kept(g)}
           step == [x \in Nat \X Record |-> IF x[1] \in 1 .. N THEN P!LoadPage(x[2], pages[x[1]]) ELSE x[2]]
           h == CHOOSE f : f = [n \in 0 .. N |-> IF n = 0 THEN pg ELSE P!LoadPage(f[n - 1], pages[n])]
           Good(g) == Loads(pg, g, S)
           wrong == {n \in 0 .. N : ~Good(h[n])}
<1>1. N \in Nat /\ \A n \in 1 .. N : pages[n] \in S
  OBVIOUS
<1>2. pg \in Record /\ \A g : Kept(g) => g \in Record
  BY DEF Kept
<1>3. \A g \in Record, q \in S : P!LoadPage(g, q) \in Record
  BY <1>2, LoadPageLoads DEF Loads
<1>4. step \in [Nat \X Record -> Record]
  BY <1>1, <1>3
<1>5. \A n \in 1 .. N, g \in Record : step[<<n, g>>] = P!LoadPage(g, pages[n])
  <2> TAKE n \in 1 .. N, g \in Record
  <2>1. <<n, g>> \in Nat \X Record
    BY <1>1
  <2> QED BY <2>1
<1> HIDE DEF step, Record, N
<1>6. PICK f \in [0 .. N -> Record] : Iteration(f, 0, N, pg, step)
  <2>1. 0 \in Nat /\ 0 <= N
    BY <1>1
  <2> QED BY <1>1, <1>2, <1>4, <2>1, Iterates
<1>7. \A n \in 0 .. N : f[n] = IF n = 0 THEN pg ELSE P!LoadPage(f[n - 1], pages[n])
  <2> TAKE n \in 0 .. N
  <2>1. n # 0 => n \in 1 .. N /\ f[n - 1] \in Record
    BY <1>1
  <2> QED BY <1>5, <1>6, <2>1 DEF Iteration
<1>8. f = [n \in 0 .. N |-> IF n = 0 THEN pg ELSE P!LoadPage(f[n - 1], pages[n])]
  BY <1>7
<1>9. h = [n \in 0 .. N |-> IF n = 0 THEN pg ELSE P!LoadPage(h[n - 1], pages[n])]
  BY <1>8, Zenon
<1>10. LoadPages(pg, pages) = h[N]
  BY Zenon DEF LoadPages, N
<1> HIDE DEF h
<1>11. h[0] = pg /\ \A n \in 1 .. N : h[n] = P!LoadPage(h[n - 1], pages[n])
  BY <1>1, <1>9
<1>12. Good(pg)
  BY LoadsNone
<1>13. ASSUME NEW g, Good(g), NEW q \in S PROVE Good(P!LoadPage(g, q))
  <2>1. Kept(g)
    BY <1>13 DEF Loads
  <2>2. Loads(g, P!LoadPage(g, q), {q})
    BY <2>1, LoadPageLoads
  <2>3. Loads(g, P!LoadPage(g, q), S)
    BY <2>2, LoadsWider
  <2> QED BY <1>13, <2>3, LoadsTwice
<1>14. Good(h[N])
  <2> HIDE DEF Good
  <2>1. SUFFICES ASSUME wrong # {} PROVE FALSE
    BY <1>1
  <2>2. wrong \subseteq Nat
    OBVIOUS
  <2>3. PICK n \in wrong : \A j \in wrong : n <= j
    BY <2>1, <2>2, Least
  <2>4. n # 0
    BY <1>11, <1>12, <2>3
  <2>5. n \in 1 .. N /\ n - 1 \in 0 .. N /\ n - 1 < n
    BY <1>1, <2>3, <2>4
  <2>6. Good(h[n - 1])
    BY <2>3, <2>5
  <2> QED BY <1>1, <1>11, <1>13, <2>3, <2>5, <2>6
<1> QED BY <1>10, <1>14

LEMMA PrintTreeInv ==
  ASSUME DatabaseInv, PrintTree
  PROVE  DatabaseInv'
<1> DEFINE pages == Preorder(pager, 0, TABLE_MAX_PAGES)
           loaded == LoadPages(pager, pages)
<1>1. Ready /\ SessionInv
  BY DEF PrintTree, Ready, SessionInv
<1>2. FileOfNodes /\ Kept(pager) /\ TreeIn(pager) /\ CursorInv
      /\ printed \in Row \cup {Null} /\ result \in {"none", "executed", "duplicate"}
  BY <1>1, SessionFacts
<1>3. PICK S : Shape(pager, S)
  BY <1>2, TreeHasShape
<1>4. S \subseteq Pages /\ 0 \in S
  BY <1>3, TreeHasShape
<1>5. pages \in Seq(S)
  <2>1. \A q \in S : Children(P!Seen(pager, q)) \in Seq(S)
    BY <1>2, <1>3, ShapeGoesOn DEF GoesOn
  <2> QED BY <1>4, <2>1, PreorderIn, TableAssumption
<1> HIDE DEF pages
<1>6. Loads(pager, loaded, S)
  BY <1>2, <1>4, <1>5, LoadPagesLoads
<1>7. Kept(loaded) /\ TreeIn(loaded)
  BY <1>2, <1>3, <1>6, LoadsShape, TreeHasShape
<1> HIDE DEF loaded
<1>8. IF EndlessTree(pager) THEN Exits(loaded)
      ELSE pager' = loaded /\ UNCHANGED <<file, pc, flushing>> /\ UNCHANGED statementVars
  BY Zenon DEF PrintTree, loaded, pages
<1>9. CASE EndlessTree(pager)
  BY <1>1, <1>7, <1>8, <1>9, ExitsInv
<1>10. CASE ~EndlessTree(pager)
  <2>1. /\ pager' = loaded /\ file' = file /\ pc' = pc /\ flushing' = flushing
        /\ cursor' = cursor /\ printed' = printed /\ result' = result
    BY <1>8, <1>10 DEF statementVars
  <2>2. cursor = NoCursor /\ printed = Null
    BY <1>1, <1>2 DEF Ready, CursorInv
  <2>3. CursorInv'
    BY <2>1, <2>2, NoCursorInvNext
  <2> QED BY <1>1, <1>2, <1>7, <2>1, <2>3, StatementInv DEF SessionInv
<1> QED BY <1>9, <1>10

-----------------------------------------------------------------------------
(* Opening and closing.                                                    *)

LEMMA OpenedFacts ==
  ASSUME FileOfNodes
  PROVE  /\ Kept(P!OpenedPager) /\ P!OpenedPager.num_pages = Len(file)
         /\ \A q \in Pages : P!OpenedPager.pages[q] = Null
<1>1. Len(file) \in Nat
  BY DEF FileOfNodes
<1>2. /\ P!OpenedPager \in PagerRecord
      /\ P!OpenedPager.file_len = Len(file) /\ P!OpenedPager.num_pages = Len(file)
      /\ P!OpenedPager.pos = Len(file)
      /\ \A q \in Pages : P!OpenedPager.pages[q] = Null
  BY <1>1 DEF P!OpenedPager, PagerRecord, Pages
<1> QED BY <1>1, <1>2 DEF Kept

\* db_open finds the root of a table that was closed, or writes one.
LEMMA OpenInv ==
  ASSUME DatabaseInv, Open
  PROVE  DatabaseInv'
<1> DEFINE op == P!OpenedPager
           lp == P!LoadPage(op, 0)
<1>1. /\ pc = "down" /\ pc' = "open" /\ flushing' = 0 /\ file' = file
      /\ cursor' = cursor /\ printed' = printed /\ result' = result
      /\ pager' = IF op.num_pages = 0 THEN P!StorePage(lp, 0, EmptyRootLeaf) ELSE op
  BY DEF Open, P!Open, statementVars
<1>2. /\ FileInv /\ FileOfNodes /\ CursorInv
      /\ printed \in Row \cup {Null} /\ result \in {"none", "executed", "duplicate"}
  BY DEF DatabaseInv, FileInv, FileOfNodes
<1>3. cursor = NoCursor /\ printed = Null
  BY <1>1, <1>2 DEF CursorInv
<1>4. CursorInv'
  BY <1>1, <1>3, NoCursorInvNext
<1>5. /\ Kept(op) /\ op.num_pages = Len(file) /\ Len(file) \in Nat
      /\ \A q \in Pages : op.pages[q] = Null
  BY <1>2, OpenedFacts DEF FileOfNodes
<1> HIDE DEF op
<1>6. Kept(pager') /\ TreeIn(pager')
  <2>1. CASE Len(file) > 0 /\ ~SplitSaved
    <3>1. pager' = op
      BY <1>1, <1>5, <2>1
    <3>2. P!Seen(op, 0) = file[1]
      BY <1>5, <2>1, PageNumbers DEF P!Seen, P!ReadSlot
    <3>3. Single(op)
      BY <1>2, <2>1, <3>2 DEF Single, FileInv, HoldsFirst
    <3> QED BY <1>5, <2>1, <3>1, <3>3 DEF TreeIn
  <2>2. CASE Len(file) > 0 /\ SplitSaved
    <3>1. pager' = op
      BY <1>1, <1>5, <2>2
    <3>2. RootOver(file[1], 2, 1) /\ \A s \in 2 .. 3 : s <= Len(file) => Misplaced(file[s])
      BY <1>2, <2>2 DEF FileInv
    <3>3. 1 \in Pages /\ 2 \in Pages
      BY <3>2 DEF RootOver
    <3>4. P!Seen(op, 0) = file[1]
      BY <1>5, <2>2, PageNumbers DEF P!Seen, P!ReadSlot
    <3>5. Misplaced(JunkNode)
      BY DEF Misplaced
    <3>6. /\ P!Seen(op, 1) = IF 1 < Len(file) THEN file[2] ELSE JunkNode
          /\ P!Seen(op, 2) = IF 2 < Len(file) THEN file[3] ELSE JunkNode
      BY <1>5, <3>3 DEF P!Seen, P!ReadSlot
    <3>7. Misplaced(P!Seen(op, 1)) /\ Misplaced(P!Seen(op, 2))
      <4>1. 1 < Len(file) => Misplaced(file[2])
        BY <1>5, <3>2
      <4>2. 2 < Len(file) => Misplaced(file[3])
        BY <1>5, <3>2
      <4> QED BY <3>5, <3>6, <4>1, <4>2
    <3>8. Saved(op)
      BY <1>5, <3>2, <3>4, <3>7 DEF Saved
    <3> QED BY <1>5, <2>2, <3>1, <3>8 DEF TreeIn
  <2>3. CASE Len(file) = 0
    <3>1. ~SplitSaved
      BY <2>3 DEF SplitSaved
    <3>2. pager' = P!StorePage(lp, 0, EmptyRootLeaf)
      BY <1>1, <1>5, <2>3
    <3>3. Kept(lp) /\ lp.pages[0] # Null /\ lp.num_pages = 1
      BY <1>2, <1>5, <2>3, PageNumbers, LoadPageLoads DEF Loads
    <3> HIDE DEF lp
    <3>4. EmptyRootLeaf \in Nodes /\ RootLeaf(EmptyRootLeaf) /\ EmptyRootLeaf # Null
      BY SpareNodes, NullAssumption
    <3>5. Kept(pager') /\ pager'.pages[0] = EmptyRootLeaf /\ pager'.num_pages = 1
      BY <1>2, <3>2, <3>3, <3>4, PageNumbers, StorePageKept
    <3>6. Single(pager')
      BY <2>3, <3>4, <3>5 DEF Single, HoldsFirst, P!Seen
    <3> QED BY <3>1, <3>5, <3>6 DEF TreeIn
  <2> QED BY <1>5, <2>1, <2>2, <2>3
<1>7. FileInv' /\ Kept(pager)' /\ TreeIn(pager)'
  BY <1>1, <1>2, <1>6 DEF FileInv, SplitSaved, Kept, TreeIn, Single, Forked, Saved, HoldsFirst,
       P!Seen, P!ReadSlot
<1> QED BY <1>1, <1>2, <1>4, <1>7 DEF DatabaseInv

\* A root that is not the file's is a leaf, or lies over pages 2 and 1.
LEMMA StartCloseInv ==
  ASSUME DatabaseInv, StartClose
  PROVE  DatabaseInv'
<1>1. /\ pc = "open" /\ pc' = "closing" /\ flushing' = 0 /\ file' = file /\ pager' = pager
      /\ cursor' = NoCursor /\ printed' = Null /\ result' = "none"
  BY DEF StartClose, P!StartClose, EndsStatement
<1>2. SessionInv
  BY <1>1 DEF SessionInv
<1>3. FileOfNodes /\ FileInv /\ Kept(pager) /\ TreeIn(pager)
  BY <1>2, SessionFacts
<1>4. \A p \in Pages : pager.pages[p] # Null => 0 <= p /\ p < pager.num_pages
  BY <1>3, PageNumbers DEF Kept
<1>5. SplitSaved => \A p \in Pages : p < 2 /\ pager.pages[p] # Null => Misplaced(pager.pages[p])
  <2> SUFFICES ASSUME SplitSaved, NEW p \in Pages, p < 2, pager.pages[p] # Null
               PROVE  Misplaced(pager.pages[p])
    OBVIOUS
  <2>1. Saved(pager)
    BY <1>3 DEF TreeIn
  <2>2. p = 0 \/ p = 1
    BY PageNumbers
  <2>3. pager.pages[p] = P!Seen(pager, p)
    BY DEF P!Seen
  <2> QED BY <2>1, <2>2, <2>3 DEF Saved, Misplaced
<1>6. ClosingInv'
  BY <1>1, <1>3, <1>4, <1>5 DEF ClosingInv, Kept, TreeIn, SplitSaved, Single, Forked, Saved,
       HoldsFirst, P!Seen, P!ReadSlot
<1>7. CursorInv' /\ FileInv'
  BY <1>1, <1>3, NoCursorInvNext DEF FileInv, SplitSaved
<1> QED BY <1>1, <1>6, <1>7 DEF DatabaseInv

\* write() of c at slot s turns the file old into f.
Writes(old, s, c, f) ==
  /\ f \in Seq(Nodes) /\ Len(f) \in Nat
  /\ Len(f) = IF s < Len(old) THEN Len(old) ELSE s + 1
  /\ f[s + 1] = c
  /\ \A i \in 1 .. Len(old) : i # s + 1 => f[i] = old[i]
  /\ \A i \in Len(old) + 1 .. Len(f) : i # s + 1 => f[i] = ZeroNode

LEMMA SlotWritten ==
  ASSUME FileOfNodes, NEW s \in Nat, NEW c \in Nodes
  PROVE  Writes(file, s, c, P!WriteSlot(file, s, c))
<1> DEFINE n == IF s < Len(file) THEN Len(file) ELSE s + 1
<1> DEFINE g == [i \in 1 .. n |-> IF i = s + 1 THEN c
                                  ELSE IF i <= Len(file) THEN file[i] ELSE ZeroNode]
<1>0. file \in Seq(Nodes) /\ ZeroNode \in Nodes /\ Len(file) \in Nat
  BY SpareNodes DEF FileOfNodes
<1>1. n \in Nat /\ s + 1 \in 1 .. n /\ Len(file) <= n
  BY <1>0
<1>2. g \in [1 .. n -> Nodes]
  BY <1>0
<1>3. g \in Seq(Nodes) /\ Len(g) = n
  BY <1>1, <1>2
<1>4. P!WriteSlot(file, s, c) = g
  BY DEF P!WriteSlot
<1> HIDE DEF n
<1>5. /\ g[s + 1] = c /\ \A i \in 1 .. Len(file) : i # s + 1 => g[i] = file[i]
      /\ \A i \in Len(file) + 1 .. n : i # s + 1 => g[i] = ZeroNode
  BY <1>0, <1>1
<1> HIDE DEF g
<1>6. Writes(file, s, c, g)
  BY <1>1, <1>3, <1>5 DEF n, Writes
<1> QED BY <1>4, <1>6

\* While db_close runs no select does.
LEMMA ClosingFacts ==
  ASSUME DatabaseInv, pc = "closing"
  PROVE  /\ FileInv /\ FileOfNodes /\ ClosingInv /\ cursor = NoCursor /\ printed = Null
         /\ result \in {"none", "executed", "duplicate"} /\ flushing \in Nat
BY DEF DatabaseInv, FileInv, FileOfNodes, CursorInv

\* The root of a new file goes to slot 0, which no later flush reaches.
LEMMA FlushPageInv ==
  ASSUME DatabaseInv, P!FlushPage, UNCHANGED statementVars
  PROVE  DatabaseInv'
<1> DEFINE slot == pager.pos + flushing
           node == pager.pages[flushing]
<1>1. /\ pc = "closing" /\ pc' = pc /\ flushing' = flushing + 1
      /\ flushing < TABLE_MAX_PAGES /\ node # Null
      /\ file' = P!WriteSlot(file, slot, node)
      /\ pager' = [pager EXCEPT !.pos = slot + 1, !.pages[flushing] = Null]
      /\ cursor' = cursor /\ printed' = printed /\ result' = result
  BY DEF P!FlushPage, P!FlushSlot, statementVars
<1>2. /\ FileInv /\ FileOfNodes /\ ClosingInv /\ cursor = NoCursor /\ printed = Null
      /\ result \in {"none", "executed", "duplicate"} /\ flushing \in Nat
  BY <1>1, ClosingFacts
<1>3. flushing \in Pages /\ Len(file) \in Nat
  BY <1>1, <1>2, PageNumbers DEF FileOfNodes
<1>4. /\ pager \in PagerRecord /\ pager.pos \in Nat /\ (pager.pos > 0 <=> Len(file) > 0)
      /\ node \in Nodes
      /\ \A p \in Pages : pager.pages[p] # Null => flushing <= p /\ p < pager.num_pages
  BY <1>1, <1>2, <1>3 DEF ClosingInv, PagerRecord
<1>5. slot \in Nat
  BY <1>2, <1>4
<1>6. /\ pager' \in PagerRecord /\ pager'.pos = slot + 1
      /\ pager'.num_pages = pager.num_pages
      /\ pager'.pages[flushing] = Null
      /\ \A q \in Pages : pager'.pages[q] # Null =>
            q # flushing /\ pager.pages[q] # Null /\ pager'.pages[q] = pager.pages[q]
  <2> DEFINE left == [pager.pages EXCEPT ![flushing] = Null]
             pos == slot + 1
  <2>1. pager' = [pos |-> pos, file_len |-> pager.file_len,
                  num_pages |-> pager.num_pages, pages |-> left]
    BY <1>1, <1>4 DEF PagerRecord
  <2>2. /\ left \in [Pages -> Nodes \cup {Null}] /\ left[flushing] = Null
        /\ \A q \in Pages : left[q] # Null =>
              q # flushing /\ pager.pages[q] # Null /\ left[q] = pager.pages[q]
    BY <1>3, <1>4 DEF PagerRecord
  <2>3. pos \in Nat
    BY <1>5
  <2> HIDE DEF left, pos
  <2>4. pager' \in PagerRecord
    BY <1>4, <2>1, <2>2, <2>3 DEF PagerRecord
  <2>5. /\ pager'.pos = pos /\ pager'.pages = left
        /\ pager'.num_pages = pager.num_pages
    BY <2>1
  <2> QED BY <2>2, <2>4, <2>5 DEF pos
<1> HIDE DEF slot, node
<1>7. /\ file' \in Seq(Nodes) /\ Len(file') \in Nat
      /\ Len(file') = IF slot < Len(file) THEN Len(file) ELSE slot + 1
      /\ file'[slot + 1] = node
      /\ \A i \in 1 .. Len(file) : i # slot + 1 => file'[i] = file[i]
      /\ \A i \in Len(file) + 1 .. Len(file') : i # slot + 1 => file'[i] = ZeroNode
  <2>1. Writes(file, slot, node, P!WriteSlot(file, slot, node))
    BY <1>2, <1>4, <1>5, SlotWritten
  <2> QED BY <1>1, <2>1 DEF Writes
<1>8. /\ Len(file') > 0 /\ pager'.pos > 0
      /\ \A p \in Pages : pager'.pages[p] # Null => flushing + 1 <= p /\ p < pager'.num_pages
  <2>1. Len(file') > 0 /\ pager'.pos > 0
    BY <1>3, <1>5, <1>6, <1>7
  <2>2. \A p \in Pages : pager'.pages[p] # Null => flushing + 1 <= p
    BY <1>2, <1>3, <1>4, <1>6, PageNumbers
  <2> QED BY <1>4, <1>6, <2>1, <2>2
<1>9. CASE Len(file) = 0
  <2>1. flushing = 0 /\ slot = 0 /\ TreeIn(pager) /\ ~SplitSaved /\ Len(file') = 1 /\ file'[1] = node
    <3>1. flushing = 0 /\ TreeIn(pager) /\ pager.pos = 0 /\ ~SplitSaved
      BY <1>2, <1>4, <1>9 DEF ClosingInv, SplitSaved
    <3>2. slot = 0
      BY <3>1 DEF slot
    <3> QED BY <1>7, <1>9, <3>1, <3>2
  <2>2. P!Seen(pager, 0) = node
    BY <1>1, <2>1 DEF P!Seen, node
  <2>3. CASE Single(pager)
    <3>1. RootLeaf(file'[1]) /\ IsLeaf(file'[1])
      BY <2>1, <2>2, <2>3, LeafNodeFacts DEF Single, RootLeaf
    <3>2. ~SplitSaved'
      BY <3>1 DEF SplitSaved
    <3>3. FileInv'
      BY <1>7, <3>1, <3>2 DEF FileInv
    <3> QED BY <1>1, <1>2, <1>6, <1>8, <3>2, <3>3, NoCursorInvNext DEF DatabaseInv, ClosingInv
  <2>4. CASE ~Single(pager)
    <3>1. PICK left, right \in Pages : Forked(pager, left, right)
      BY <2>1, <2>4 DEF TreeIn
    <3>2. Forked(pager, 2, 1)
      BY <1>9, <3>1 DEF Forked
    <3>3. RootOver(file'[1], 2, 1)
      BY <2>1, <3>2 DEF Forked, node
    <3>4. SplitSaved'
      BY <1>8, <3>3, RootOverFacts DEF SplitSaved
    <3>5. FileInv'
      BY <1>7, <2>1, <3>3, <3>4 DEF FileInv
    <3>6. \A p \in Pages : p < 2 /\ pager'.pages[p] # Null => Misplaced(pager'.pages[p])
      <4> SUFFICES ASSUME NEW p \in Pages, p < 2, pager'.pages[p] # Null
                   PROVE  Misplaced(pager'.pages[p])
        OBVIOUS
      <4>1. p = 1 /\ pager'.pages[p] = pager.pages[p]
        BY <1>6, <1>8, <2>1, PageNumbers
      <4>2. LastLeaf(pager.pages[1])
        BY <3>2 DEF Forked
      <4> QED BY <4>1, <4>2 DEF Misplaced
    <3> QED BY <1>1, <1>2, <1>6, <1>8, <3>5, <3>6, NoCursorInvNext DEF DatabaseInv, ClosingInv
  <2> QED BY <2>3, <2>4
<1>10. CASE Len(file) > 0
  <2>1. pager.pos >= 1 /\ slot >= 1 /\ file'[1] = file[1]
    <3>1. pager.pos >= 1
      BY <1>4, <1>10
    <3>2. slot >= 1
      BY <1>2, <1>4, <3>1 DEF slot
    <3> QED BY <1>3, <1>5, <1>7, <1>10, <3>1, <3>2
  <2>2. SplitSaved' <=> SplitSaved
    BY <1>8, <1>10, <2>1 DEF SplitSaved
  <2>3. SplitSaved => \A s \in 2 .. 3 : s <= Len(file') => Misplaced(file'[s])
    <3> SUFFICES ASSUME SplitSaved, NEW s \in 2 .. 3, s <= Len(file')
                 PROVE  Misplaced(file'[s])
      OBVIOUS
    <3>1. CASE s = slot + 1
      <4>1. flushing < 2
        BY <1>2, <1>4, <2>1, <3>1 DEF slot
      <4>2. Misplaced(node)
        BY <1>1, <1>2, <1>3, <4>1 DEF ClosingInv, node
      <4> QED BY <1>7, <3>1, <4>2
    <3>2. CASE s # slot + 1 /\ s <= Len(file)
      <4>1. Misplaced(file[s])
        BY <1>2, <3>2 DEF FileInv
      <4> QED BY <1>3, <1>7, <3>2, <4>1
    <3>3. CASE s # slot + 1 /\ ~(s <= Len(file))
      BY <1>3, <1>7, <3>3 DEF Misplaced
    <3> QED BY <3>1, <3>2, <3>3
  <2>4. FileInv'
    BY <1>2, <1>7, <1>10, <2>1, <2>2, <2>3 DEF FileInv
  <2>5. SplitSaved => \A p \in Pages : p < 2 /\ pager'.pages[p] # Null => Misplaced(pager'.pages[p])
    BY <1>2, <1>6 DEF ClosingInv
  <2> QED BY <1>1, <1>2, <1>6, <1>8, <2>2, <2>4, <2>5, NoCursorInvNext DEF DatabaseInv, ClosingInv
<1> QED BY <1>3, <1>9, <1>10

\* The first page of a new file is in memory, so its flush is not skipped.
LEMMA SkipPageInv ==
  ASSUME DatabaseInv, P!SkipPage, UNCHANGED statementVars
  PROVE  DatabaseInv'
<1>1. /\ pc = "closing" /\ pc' = pc /\ flushing' = flushing + 1 /\ file' = file /\ pager' = pager
      /\ flushing < TABLE_MAX_PAGES => pager.pages[flushing] = Null
      /\ cursor' = cursor /\ printed' = printed /\ result' = result
  BY DEF P!SkipPage, statementVars
<1>2. /\ FileInv /\ FileOfNodes /\ ClosingInv /\ cursor = NoCursor /\ printed = Null
      /\ result \in {"none", "executed", "duplicate"} /\ flushing \in Nat
  BY <1>1, ClosingFacts
<1>3. Len(file) # 0
  <2> SUFFICES ASSUME Len(file) = 0 PROVE FALSE
    OBVIOUS
  <2>1. flushing = 0 /\ TreeIn(pager) /\ ~SplitSaved
    BY <1>2 DEF ClosingInv, SplitSaved
  <2>2. pager.pages[0] # Null
    BY <2>1 DEF TreeIn, Single, Forked
  <2> QED BY <1>1, <2>1, <2>2, TableAssumption
<1>4. \A p \in Pages : pager.pages[p] # Null => flushing + 1 <= p /\ p < pager.num_pages
  <2> SUFFICES ASSUME NEW p \in Pages, pager.pages[p] # Null
               PROVE  flushing + 1 <= p /\ p < pager.num_pages
    OBVIOUS
  <2>1. flushing <= p /\ p < pager.num_pages /\ p \in Nat /\ p < TABLE_MAX_PAGES
    BY <1>2, PageNumbers DEF ClosingInv
  <2>2. p # flushing
    BY <1>1, <2>1
  <2> QED BY <1>2, <2>1, <2>2
<1>5. ClosingInv'
  BY <1>1, <1>2, <1>3, <1>4 DEF ClosingInv, SplitSaved
<1> QED BY <1>1, <1>2, <1>5, NoCursorInvNext DEF DatabaseInv, FileInv, SplitSaved

\* The process ends between two steps.
LEMMA EndsInv ==
  ASSUME DatabaseInv, P!Ends, UNCHANGED file, cursor' = NoCursor, printed' = Null,
         result' \in {"none", "executed", "duplicate"}
  PROVE  DatabaseInv'
<1>1. P!NoPager \in PagerRecord
  BY DEF P!NoPager, PagerRecord, Pages
<1>2. pc' = "down" /\ pager' \in PagerRecord /\ flushing' = 0
  BY <1>1 DEF P!Ends
<1>3. CursorInv'
  BY NoCursorInvNext
<1> QED BY <1>2, <1>3 DEF DatabaseInv, FileInv, SplitSaved

LEMMA CloseStepInv ==
  ASSUME DatabaseInv, CloseStep
  PROVE  DatabaseInv'
<1>1. P!CloseStep /\ UNCHANGED statementVars
  BY DEF CloseStep
<1>2. CASE P!OverrunExit \/ P!FinishClose
  <2>1. P!Ends /\ file' = file /\ pc = "closing"
        /\ cursor' = cursor /\ printed' = printed /\ result' = result
    BY <1>1, <1>2 DEF P!OverrunExit, P!FinishClose, statementVars
  <2> QED BY <2>1, ClosingFacts, EndsInv
<1> QED BY <1>1, <1>2, FlushPageInv, SkipPageInv DEF P!CloseStep

LEMMA KillInv ==
  ASSUME DatabaseInv, Kill
  PROVE  DatabaseInv'
BY EndsInv DEF Kill, P!Kill, EndsStatement

LEMMA DatabaseInvInit == Init => DatabaseInv
<1> SUFFICES ASSUME Init PROVE DatabaseInv
  OBVIOUS
<1>1. /\ file = <<>> /\ pager = P!NoPager /\ pc = "down" /\ flushing = 0
      /\ cursor = NoCursor /\ printed = Null /\ result = "none"
  BY DEF Init, P!Init
<1>2. P!NoPager \in PagerRecord
  BY DEF P!NoPager, PagerRecord, Pages
<1>3. file \in Seq(Nodes) /\ Len(file) = 0
  BY <1>1
<1>4. FileInv
  BY <1>3 DEF FileInv, SplitSaved
<1>5. CursorInv
  BY <1>1, NoCursorInv
<1> QED BY <1>1, <1>2, <1>4, <1>5 DEF DatabaseInv

LEMMA DatabaseInvStep == DatabaseInv /\ [Next]_vars => DatabaseInv'
<1> SUFFICES ASSUME DatabaseInv, [Next]_vars PROVE DatabaseInv'
  OBVIOUS
<1>1. CASE Open
  BY <1>1, OpenInv
<1>2. ASSUME NEW row \in Entered, Insert(row) PROVE DatabaseInv'
  BY <1>2, InsertInv, EnteredAssumption DEF Row
<1>3. CASE SelectStart
  BY <1>3, SelectStartInv
<1>4. CASE SelectEndless
  BY <1>4, SelectEndlessInv
<1>5. CASE SelectStep
  BY <1>5, SelectRowInv, SelectEndInv DEF SelectStep
<1>6. CASE PrintTree
  BY <1>6, PrintTreeInv
<1>7. CASE StartClose
  BY <1>7, StartCloseInv
<1>8. CASE CloseStep
  BY <1>8, CloseStepInv
<1>9. CASE Kill
  BY <1>9, KillInv
<1>10. CASE UNCHANGED vars
  <2>1. /\ file' = file /\ pager' = pager /\ pc' = pc /\ flushing' = flushing
        /\ cursor' = cursor /\ printed' = printed /\ result' = result
    BY <1>10 DEF vars
  <2>2. FileInv'
    BY <2>1 DEF DatabaseInv, FileInv, SplitSaved
  <2>3. pc = "open" => Kept(pager)'
    BY <2>1 DEF DatabaseInv, Kept
  <2>4. TreeIn(pager)' <=> TreeIn(pager)
    BY <2>1 DEF TreeIn, SplitSaved, Single, Forked, Saved, HoldsFirst, P!Seen, P!ReadSlot
  <2>5. pc = "closing" => ClosingInv'
    BY <2>1, <2>4 DEF DatabaseInv, ClosingInv, SplitSaved
  <2>6. CursorInv'
    BY <2>1 DEF DatabaseInv, CursorInv, Shape, SplitSaved, Single, Forked, Saved, HoldsFirst, P!Seen, P!ReadSlot
  <2> QED BY <2>1, <2>2, <2>3, <2>4, <2>5, <2>6 DEF DatabaseInv
<1> QED BY <1>1, <1>2, <1>3, <1>4, <1>5, <1>6, <1>7, <1>8, <1>9, <1>10 DEF Next

\* Every state of every execution has a file and a tree of the kinds the
\* invariant lists: a leaf, a root over two leaves, or what a session finds in a
\* file that was closed after a split.
THEOREM DatabaseInvariant == Spec => []DatabaseInv
BY DatabaseInvInit, DatabaseInvStep, PTL DEF Spec

LEMMA PagerInRecord ==
  ASSUME DatabaseInv
  PROVE  pager \in PagerRecord
BY DEF DatabaseInv, Kept, ClosingInv

LEMMA InvGivesTypes == DatabaseInv => TypeOK
<1> SUFFICES ASSUME DatabaseInv PROVE TypeOK
  OBVIOUS
<1>1. P!TypeOK
  BY PagerInRecord DEF DatabaseInv, FileInv, P!TypeOK, PagerRecord, Pages
<1>2. cursor \in [page : Nat, cell : Nat, end : BOOLEAN, open : BOOLEAN]
  BY PageNumbers DEF DatabaseInv, CursorInv
<1> QED BY <1>1, <1>2 DEF DatabaseInv, TypeOK

\* The variables keep their types: whatever file a session finds, every page it
\* reads, makes or writes is a node.
THEOREM DatabaseTypes == Spec => []TypeOK
BY InvGivesTypes, DatabaseInvariant, PTL

LEMMA InvGivesPager == DatabaseInv => PagerKept
<1> SUFFICES ASSUME DatabaseInv PROVE P!PagerInv
  BY DEF PagerKept
<1>1. P!TypeOK
  BY InvGivesTypes DEF TypeOK
<1>2. pc = "open" => Kept(pager)
  BY DEF DatabaseInv
<1>3. pc = "closing" => ClosingInv
  BY DEF DatabaseInv
<1>4. P!UnusedIsUnused
  BY <1>2 DEF P!UnusedIsUnused, P!Cached, P!UnusedPageNum, Kept, Pages
<1>5. P!NothingLeftUnflushed
  BY <1>3 DEF P!NothingLeftUnflushed, P!Cached, ClosingInv, Pages
<1>6. pc = "open" => pager.file_len = Len(file)
  BY <1>2 DEF Kept
<1> QED BY <1>1, <1>4, <1>5, <1>6 DEF P!PagerInv

\* The tree code keeps the pager's invariant: a statement loads and stores
\* several pages, and takes numbers for new ones, without ever losing track of
\* the pages in use.
THEOREM PagerStaysKept == Spec => []PagerKept
BY InvGivesPager, DatabaseInvariant, PTL

-----------------------------------------------------------------------------
(* The tree of an open database, as the walks see it.                      *)

LEMMA Tuples ==
  ASSUME NEW a, NEW b, NEW c
  PROVE  <<b>> \o <<c>> = <<b, c>> /\ <<a>> \o (<<b>> \o <<c>>) = <<a, b, c>>
<1> DEFINE T == {a, b, c}
           x == <<a>>
           y == <<b>>
           z == <<c>>
           yz == <<b, c>>
           xyz == <<a, b, c>>
<1>1. /\ x \in Seq(T) /\ Len(x) = 1 /\ x[1] = a
      /\ y \in Seq(T) /\ Len(y) = 1 /\ y[1] = b
      /\ z \in Seq(T) /\ Len(z) = 1 /\ z[1] = c
      /\ yz \in Seq(T) /\ Len(yz) = 2 /\ yz[1] = b /\ yz[2] = c
      /\ xyz \in Seq(T) /\ Len(xyz) = 3 /\ xyz[1] = a /\ xyz[2] = b /\ xyz[3] = c
  OBVIOUS
<1> HIDE DEF T, x, y, z, yz, xyz
<1>2. \A s, t \in Seq(T) : Len(s) = Len(t) /\ (\A i \in 1 .. Len(s) : s[i] = t[i]) => s = t
  OBVIOUS
<1>3. \A s, t \in Seq(T) :
        /\ s \o t \in Seq(T)
        /\ Len(s) = 1 /\ Len(t) = 1 =>
             Len(s \o t) = 2 /\ (s \o t)[1] = s[1] /\ (s \o t)[2] = t[1]
        /\ Len(s) = 1 /\ Len(t) = 2 =>
             Len(s \o t) = 3 /\ (s \o t)[1] = s[1] /\ (s \o t)[2] = t[1] /\ (s \o t)[3] = t[2]
  <2> TAKE s \in Seq(T), t \in Seq(T)
  <2> DEFINE st == s \o t
             m == Len(s)
             n == Len(t)
  <2>1. /\ st \in Seq(T) /\ Len(st) = m + n /\ m \in Nat /\ n \in Nat
        /\ \A i \in 1 .. m + n : st[i] = IF i <= m THEN s[i] ELSE t[i - m]
    BY ConcatProperties
  <2> HIDE DEF st, m, n
  <2>2. \A i : i = 1 /\ m = 1 /\ (n = 1 \/ n = 2) => i \in 1 .. m + n /\ i <= m
    OBVIOUS
  <2>3. \A i : i = 2 /\ m = 1 /\ (n = 1 \/ n = 2) => i \in 1 .. m + n /\ ~(i <= m) /\ i - m = 1
    OBVIOUS
  <2>4. \A i : i = 3 /\ m = 1 /\ n = 2 => i \in 1 .. m + n /\ ~(i <= m) /\ i - m = 2
    OBVIOUS
  <2>5. m = 1 /\ n = 1 => Len(st) = 2 /\ st[1] = s[1] /\ st[2] = t[1]
    BY <2>1, <2>2, <2>3
  <2>6. m = 1 /\ n = 2 => Len(st) = 3 /\ st[1] = s[1] /\ st[2] = t[1] /\ st[3] = t[2]
    BY <2>1, <2>2, <2>3, <2>4
  <2> QED BY <2>1, <2>5, <2>6 DEF st, m, n
<1>4. y \o z = yz
  <2>1. /\ y \o z \in Seq(T) /\ Len(y \o z) = 2 /\ (y \o z)[1] = b /\ (y \o z)[2] = c
    BY <1>1, <1>3
  <2>2. Len(y \o z) = Len(yz) /\ \A i \in 1 .. Len(yz) : (y \o z)[i] = yz[i]
    BY <1>1, <2>1
  <2> QED BY <1>1, <1>2, <2>1, <2>2
<1>5. x \o yz = xyz
  <2>1. /\ x \o yz \in Seq(T) /\ Len(x \o yz) = 3
        /\ (x \o yz)[1] = a /\ (x \o yz)[2] = b /\ (x \o yz)[3] = c
    BY <1>1, <1>3
  <2>2. Len(x \o yz) = Len(xyz) /\ \A i \in 1 .. Len(xyz) : (x \o yz)[i] = xyz[i]
    BY <1>1, <2>1
  <2> QED BY <1>1, <1>2, <2>1, <2>2
<1> QED BY <1>4, <1>5 DEF x, y, z, yz, xyz

\* What a level of a walk makes of the children, given what is below them.
Below(f, children) == FlattenSeq([i \in DOMAIN children |-> f[children[i]]])

\* No children, no further pages.
LEMMA NoChildren ==
  ASSUME NEW f
  PROVE  Below(f, <<>>) = <<>>
<1> DEFINE seqs == [i \in DOMAIN <<>> |-> f[<<>>[i]]]
<1>1. seqs \in Seq(Seq({})) /\ Len(seqs) = 0
  OBVIOUS
<1> HIDE DEF seqs
<1>2. FlattenSeq(seqs) = <<>>
  BY <1>1, FlattenFacts
<1> QED BY <1>2 DEF seqs, Below

\* The walks below two children.
IsPair(children, l, r) == children = <<l, r>>

LEMMA TwoChildren ==
  ASSUME NEW f, NEW l, NEW r, f[l] \in Seq(Pages), f[r] \in Seq(Pages),
         NEW children, IsPair(children, l, r)
  PROVE  Below(f, children) = f[l] \o f[r]
<1> DEFINE seqs == [i \in DOMAIN children |-> f[children[i]]]
<1>1. DOMAIN children = 1 .. 2 /\ children[1] = l /\ children[2] = r
  BY DEF IsPair
<1>2. seqs \in Seq(Seq(Pages)) /\ Len(seqs) = 2 /\ seqs[1] = f[l] /\ seqs[2] = f[r]
  <2> DEFINE S == Seq(Pages)
  <2> HIDE DEF S
  <2>1. f[l] \in S /\ f[r] \in S
    BY DEF S
  <2>2. seqs \in Seq(S) /\ Len(seqs) = 2 /\ seqs[1] = f[l] /\ seqs[2] = f[r]
    BY <1>1, <2>1
  <2> QED BY <2>2 DEF S
<1> HIDE DEF seqs
<1>3. FlattenSeq(seqs) = f[l] \o f[r]
  BY <1>2, FlattenFacts
<1> QED BY <1>3 DEF seqs, Below

LEMMA VisitLeaf ==
  ASSUME NEW pg, NEW n \in Nat, NEW q \in Pages, Children(P!Seen(pg, q)) = <<>>, NEW d \in 0 .. n
  PROVE  Visit(pg, n)[d][q] = <<q>>
<1> DEFINE below == Visit(pg, n)[d - 1]
           children == Children(P!Seen(pg, q))
<1>1. Visit(pg, n)[d] = VisitLevel(pg, d, below)
  BY VisitExists
<1> HIDE DEF below
<1>2. VisitLevel(pg, d, below)[q] = IF d = 0 THEN <<q>>
        ELSE <<q>> \o Below(below, children)
  BY DEF VisitLevel, Pages, Below
<1>3. Below(below, children) = <<>>
  BY NoChildren
<1>4. <<q>> \o <<>> = <<q>>
  OBVIOUS
<1> QED BY <1>1, <1>2, <1>3, <1>4

LEMMA VisitRoot ==
  ASSUME NEW pg, NEW q \in Pages, NEW l \in Pages, NEW r \in Pages,
         Children(P!Seen(pg, q)) = <<l, r>>,
         Children(P!Seen(pg, l)) = <<>>, Children(P!Seen(pg, r)) = <<>>
  PROVE  Preorder(pg, q, TABLE_MAX_PAGES) = <<q, l, r>>
<1> DEFINE n == TABLE_MAX_PAGES
           below == Visit(pg, n)[n - 1]
           children == Children(P!Seen(pg, q))
<1>1. n \in Nat /\ n # 0 /\ n \in 0 .. n /\ n - 1 \in 0 .. n
  BY TableAssumption
<1>2. Visit(pg, n)[n] = VisitLevel(pg, n, below)
  BY <1>1, VisitExists
<1>3. below[l] = <<l>> /\ below[r] = <<r>>
  BY <1>1, VisitLeaf
<1>4. Preorder(pg, q, n) = Visit(pg, n)[n][q]
  BY PreorderIs
<1> HIDE DEF below, n
<1>5. VisitLevel(pg, n, below)[q] =
        <<q>> \o Below(below, children)
  BY <1>1 DEF VisitLevel, Pages, Below
<1>6. Below(below, children) = below[l] \o below[r]
  <2>1. below[l] \in Seq(Pages) /\ below[r] \in Seq(Pages)
    BY <1>3
  <2>2. IsPair(children, l, r)
    BY DEF IsPair
  <2> HIDE DEF children
  <2> QED BY <2>1, <2>2, TwoChildren
<1>7. <<q>> \o (<<l>> \o <<r>>) = <<q, l, r>>
  BY Tuples
<1> QED BY <1>2, <1>3, <1>4, <1>5, <1>6, <1>7 DEF n

LEMMA LeafWalk ==
  ASSUME NEW n \in Nat, NEW q \in Pages, IsLeaf(NodeOf(q)), NEW d \in 0 .. n
  PROVE  Leaves(n)[d][q] = <<q>>
<1> DEFINE below == Leaves(n)[d - 1]
<1>1. Leaves(n)[d] = LeavesLevel(d, below)
  BY LeavesExist
<1> HIDE DEF below
<1>2. LeavesLevel(d, below)[q] = <<q>>
  BY DEF LeavesLevel, Pages, Below
<1> QED BY <1>1, <1>2

LEMMA RootWalk ==
  ASSUME NEW q \in Pages, NEW l \in Pages, NEW r \in Pages, ~IsLeaf(NodeOf(q)),
         Children(NodeOf(q)) = <<l, r>>, IsLeaf(NodeOf(l)), IsLeaf(NodeOf(r))
  PROVE  LeavesUnder(q) = <<l, r>>
<1> DEFINE n == TABLE_MAX_PAGES
           below == Leaves(n)[n - 1]
           children == Children(NodeOf(q))
<1>1. n \in Nat /\ n # 0 /\ n \in 0 .. n /\ n - 1 \in 0 .. n
  BY TableAssumption
<1>2. Leaves(n)[n] = LeavesLevel(n, below)
  BY <1>1, LeavesExist
<1>3. below[l] = <<l>> /\ below[r] = <<r>>
  BY <1>1, LeafWalk
<1>4. LeavesUnder(q) = Leaves(n)[n][q]
  BY LeavesUnderIs
<1> HIDE DEF below, n
<1>5. LeavesLevel(n, below)[q] = Below(below, children)
  BY <1>1 DEF LeavesLevel, Pages, Below
<1>6. Below(below, children) = below[l] \o below[r]
  <2>1. below[l] \in Seq(Pages) /\ below[r] \in Seq(Pages)
    BY <1>3
  <2>2. IsPair(children, l, r)
    BY DEF IsPair
  <2> HIDE DEF children
  <2> QED BY <2>1, <2>2, TwoChildren
<1>7. <<l>> \o <<r>> = <<l, r>>
  BY Tuples
<1> QED BY <1>2, <1>3, <1>4, <1>5, <1>6, <1>7

LEMMA LeafAlone ==
  ASSUME NEW q \in Pages, IsLeaf(NodeOf(q)), NodeOf(q).cells \in Seq(Row)
  PROVE  LeavesUnder(q) = <<q>> /\ RowsUnder(q) = NodeOf(q).cells
<1>1. LeavesUnder(q) = <<q>>
  <2>1. Leaves(TABLE_MAX_PAGES)[TABLE_MAX_PAGES][q] = <<q>>
    BY TableAssumption, LeafWalk
  <2> QED BY <2>1, LeavesUnderIs
<1> DEFINE leaves == LeavesUnder(q)
           seqs == [i \in DOMAIN leaves |-> NodeOf(leaves[i]).cells]
           S == Seq(Row)
<1>2. RowsUnder(q) = FlattenSeq(seqs)
  BY DEF RowsUnder
<1>3. DOMAIN leaves = 1 .. 1 /\ leaves[1] = q
  BY <1>1
<1> HIDE DEF S, leaves
<1>4. seqs \in Seq(S) /\ Len(seqs) = 1 /\ seqs[1] = NodeOf(q).cells
  BY <1>3 DEF S
<1> HIDE DEF seqs
<1>5. FlattenSeq(seqs) = NodeOf(q).cells
  BY <1>4, FlattenFacts DEF S
<1> QED BY <1>1, <1>2, <1>5

LEMMA TwoLeaves ==
  ASSUME NEW q \in Pages, NEW l \in Pages, NEW r \in Pages, LeavesUnder(q) = <<l, r>>,
         NodeOf(l).cells \in Seq(Row), NodeOf(r).cells \in Seq(Row)
  PROVE  RowsUnder(q) = NodeOf(l).cells \o NodeOf(r).cells
<1> DEFINE leaves == LeavesUnder(q)
           seqs == [i \in DOMAIN leaves |-> NodeOf(leaves[i]).cells]
           S == Seq(Row)
<1>2. RowsUnder(q) = FlattenSeq(seqs)
  BY DEF RowsUnder
<1>3. DOMAIN leaves = 1 .. 2 /\ leaves[1] = l /\ leaves[2] = r
  OBVIOUS
<1> HIDE DEF S, leaves
<1>4. seqs \in Seq(S) /\ Len(seqs) = 2 /\ seqs[1] = NodeOf(l).cells /\ seqs[2] = NodeOf(r).cells
  BY <1>3 DEF S
<1> HIDE DEF seqs
<1>5. FlattenSeq(seqs) = NodeOf(l).cells \o NodeOf(r).cells
  BY <1>4, FlattenFacts DEF S
<1> QED BY <1>2, <1>5

LEMMA SingleTree ==
  ASSUME SessionInv, ~SplitSaved, Single(pager)
  PROVE  /\ Visited = <<0>> /\ LeavesUnder(0) = <<0>> /\ RowsUnder(0) = NodeOf(0).cells
         /\ RootLeaf(NodeOf(0)) /\ LeafNode(NodeOf(0)) /\ Children(NodeOf(0)) = <<>>
<1>1. RootLeaf(NodeOf(0)) /\ LeafNode(NodeOf(0)) /\ 0 \in Pages
  BY PageNumbers DEF Single, NodeOf, RootLeaf
<1>2. Children(NodeOf(0)) = <<>> /\ IsLeaf(NodeOf(0)) /\ NodeOf(0).cells \in Seq(Row)
  BY <1>1, LeafNodeFacts
<1>3. Visited = <<0>>
  <2>1. Visit(pager, TABLE_MAX_PAGES)[TABLE_MAX_PAGES][0] = <<0>>
    BY <1>1, <1>2, TableAssumption, VisitLeaf DEF NodeOf
  <2> QED BY <2>1, PreorderIs DEF Visited
<1> QED BY <1>1, <1>2, <1>3, LeafAlone

LEMMA ForkedTree ==
  ASSUME SessionInv, ~SplitSaved, NEW l \in Pages, NEW r \in Pages, Forked(pager, l, r)
  PROVE  /\ Visited = <<0, l, r>> /\ LeavesUnder(0) = <<l, r>>
         /\ LeavesUnder(l) = <<l>> /\ LeavesUnder(r) = <<r>>
         /\ RowsUnder(l) = NodeOf(l).cells /\ RowsUnder(r) = NodeOf(r).cells
         /\ RowsUnder(0) = NodeOf(l).cells \o NodeOf(r).cells
         /\ NodeOf(0) = pager.pages[0] /\ NodeOf(l) = pager.pages[l] /\ NodeOf(r) = pager.pages[r]
         /\ RootOver(NodeOf(0), l, r) /\ LeafNode(NodeOf(l)) /\ LeafNode(NodeOf(r))
         /\ Children(NodeOf(0)) = <<l, r>>
         /\ Children(NodeOf(l)) = <<>> /\ Children(NodeOf(r)) = <<>>
<1>1. /\ NodeOf(0) = pager.pages[0] /\ NodeOf(l) = pager.pages[l] /\ NodeOf(r) = pager.pages[r]
      /\ RootOver(NodeOf(0), l, r) /\ LeafNode(NodeOf(l)) /\ LeafNode(NodeOf(r)) /\ 0 \in Pages
  BY PageNumbers DEF Forked, NodeOf, P!Seen, LastLeaf
<1>2. /\ Children(NodeOf(l)) = <<>> /\ IsLeaf(NodeOf(l)) /\ NodeOf(l).cells \in Seq(Row)
      /\ Children(NodeOf(r)) = <<>> /\ IsLeaf(NodeOf(r)) /\ NodeOf(r).cells \in Seq(Row)
  BY <1>1, LeafNodeFacts
<1>3. Children(NodeOf(0)) = <<l, r>> /\ ~IsLeaf(NodeOf(0))
  BY <1>1, RootOverFacts
<1>4. Visited = <<0, l, r>>
  BY <1>1, <1>2, <1>3, VisitRoot DEF NodeOf, Visited
<1>5. LeavesUnder(0) = <<l, r>>
  BY <1>1, <1>2, <1>3, RootWalk
<1>6. RowsUnder(0) = NodeOf(l).cells \o NodeOf(r).cells
  BY <1>1, <1>2, <1>5, TwoLeaves
<1>7. /\ LeavesUnder(l) = <<l>> /\ RowsUnder(l) = NodeOf(l).cells
      /\ LeavesUnder(r) = <<r>> /\ RowsUnder(r) = NodeOf(r).cells
  BY <1>2, LeafAlone
<1> QED BY <1>1, <1>2, <1>3, <1>4, <1>5, <1>6, <1>7

\* The two trees a property about a sound file has to look at.
LEMMA SoundTrees ==
  ASSUME DatabaseInv, pc = "open", ~SplitSaved
  PROVE  SessionInv /\ (Single(pager) \/ \E l, r \in Pages : Forked(pager, l, r))
<1>1. SessionInv
  BY DEF SessionInv
<1> QED BY <1>1, SessionFacts DEF TreeIn

LEMMA CellFound ==
  ASSUME NEW n, LeafNode(n), NEW r, r \in ToSet(n.cells), NEW at, at = LeafFind(n, r.key)
  PROVE  at < NumCells(n) /\ n.cells[at + 1] = r
<1>1. r.key \in Int
  BY LeafNodeFacts
<1> DEFINE key == r.key
<1>2. key \in Int /\ at = LeafFind(n, key)
  BY <1>1
<1> HIDE DEF key
<1>3. \A s \in ToSet(n.cells) : s.key = key => at < NumCells(n) /\ n.cells[at + 1] = s
  BY <1>2, CellIsPlace
<1> QED BY <1>3 DEF key

LEMMA InvGivesFirstRows == DatabaseInv => FirstRowsFound
<1> SUFFICES ASSUME DatabaseInv, pc = "open", Len(file) > 0, IsLeaf(file[1]),
                    NEW r \in ToSet(file[1].cells), NEW find, find = TableFind(pager, r.key)
             PROVE  ~find.endless /\ find.cell < NumCells(find.pg.pages[find.page])
                    /\ find.pg.pages[find.page].cells[find.cell + 1] = r
  BY DEF FirstRowsFound
<1>1. ~SplitSaved
  BY DEF SplitSaved
<1>2. SessionInv /\ FileOfNodes /\ FileInv /\ Kept(pager)
  BY <1>1, SoundTrees, SessionFacts
<1>3. r.key \in Int
  <2>1. LeafNode(file[1])
    BY <1>1, <1>2 DEF FileInv, RootLeaf
  <2> QED BY <2>1, LeafNodeFacts
<1>4. CASE Single(pager)
  <2> DEFINE leaf == P!Seen(pager, 0)
  <2>1. /\ find.page = 0 /\ ~find.endless /\ find.pg.pages[0] = leaf /\ find.cell = LeafFind(leaf, r.key)
    BY <1>1, <1>2, <1>3, <1>4, FindSingle
  <2>2. LeafNode(leaf) /\ r \in ToSet(leaf.cells)
    BY <1>4 DEF Single, RootLeaf, HoldsFirst
  <2>3. find.cell < NumCells(leaf) /\ leaf.cells[find.cell + 1] = r
    BY <2>1, <2>2, CellFound
  <2> QED BY <2>1, <2>3
<1>5. ASSUME NEW left \in Pages, NEW right \in Pages, Forked(pager, left, right)
      PROVE  ~find.endless /\ find.cell < NumCells(find.pg.pages[find.page])
             /\ find.pg.pages[find.page].cells[find.cell + 1] = r
  <2> DEFINE leaf == pager.pages[find.page]
  <2>1. /\ find.pg = pager /\ ~find.endless /\ find.page = Chosen(pager, left, right, r.key)
        /\ find.cell = LeafFind(leaf, r.key) /\ leaf = find.pg.pages[find.page]
    BY <1>1, <1>2, <1>3, <1>5, FindForked
  <2>2. LeafNode(leaf) /\ r \in ToSet(leaf.cells)
    <3>1. /\ LeafNode(pager.pages[left]) /\ LeafNode(pager.pages[right])
          /\ r \in ToSet(pager.pages[left].cells) \/ r \in ToSet(pager.pages[right].cells)
          /\ \A s \in ToSet(pager.pages[left].cells) : s.key <= pager.pages[0].cells[1].key
          /\ \A s \in ToSet(pager.pages[right].cells) : s.key > pager.pages[0].cells[1].key
          /\ pager.pages[0].cells[1].key \in Int
      BY <1>5, RootOverFacts DEF Forked, LastLeaf, HoldsFirst
    <3> QED BY <1>3, <2>1, <3>1 DEF Chosen
  <2> HIDE DEF leaf
  <2>3. find.cell < NumCells(leaf) /\ leaf.cells[find.cell + 1] = r
    BY <2>1, <2>2, CellFound
  <2> QED BY <2>1, <2>3
<1> QED BY <1>1, <1>4, <1>5, SoundTrees

\* The rows of a table that was closed as a single leaf are found by every later
\* session: whatever it inserts and however the leaf splits, the search for the
\* key of such a row ends in the cell that holds it.
THEOREM FirstRowsStay == Spec => []FirstRowsFound
BY InvGivesFirstRows, DatabaseInvariant, PTL

LEMMA InvGivesParents == DatabaseInv => ParentsKnown
<1> SUFFICES ASSUME DatabaseInv, pc = "open", ~SplitSaved
             PROVE  /\ IsInjective(Visited)
                    /\ \A p \in ToSet(Visited) :
                         /\ NodeOf(p).root <=> p = 0
                         /\ \A c \in ToSet(Children(NodeOf(p))) : NodeOf(c).parent = p
  BY DEF ParentsKnown, Sound
<1>1. CASE Single(pager)
  <2>1. /\ Visited = <<0>> /\ NodeOf(0).root /\ Children(NodeOf(0)) = <<>>
    BY <1>1, SoundTrees, SingleTree DEF RootLeaf
  <2>2. IsInjective(<<0>>) /\ ToSet(<<0>>) = {0} /\ ToSet(<<>>) = {}
    BY DEF IsInjective, ToSet
  <2> QED BY <2>1, <2>2
<1>2. ASSUME NEW l \in Pages, NEW r \in Pages, Forked(pager, l, r)
      PROVE  /\ IsInjective(Visited)
             /\ \A p \in ToSet(Visited) :
                  /\ NodeOf(p).root <=> p = 0
                  /\ \A c \in ToSet(Children(NodeOf(p))) : NodeOf(c).parent = p
  <2>1. /\ Visited = <<0, l, r>>
        /\ NodeOf(0) = pager.pages[0] /\ NodeOf(l) = pager.pages[l] /\ NodeOf(r) = pager.pages[r]
        /\ RootOver(NodeOf(0), l, r) /\ LeafNode(NodeOf(l)) /\ LeafNode(NodeOf(r))
        /\ Children(NodeOf(0)) = <<l, r>>
        /\ Children(NodeOf(l)) = <<>> /\ Children(NodeOf(r)) = <<>>
    BY <1>2, SoundTrees, ForkedTree
  <2>2. l # 0 /\ r # 0 /\ l # r /\ ~NodeOf(l).root /\ ~NodeOf(r).root
    BY <1>2, <2>1 DEF Forked, LastLeaf
  <2>3. NodeOf(0).root /\ NodeOf(l).parent = 0 /\ NodeOf(r).parent = 0
    BY <2>1, <2>2, RootOverFacts DEF LeafNode
  <2>4. /\ ToSet(<<0, l, r>>) = {0, l, r} /\ ToSet(<<l, r>>) = {l, r} /\ ToSet(<<>>) = {}
    BY DEF ToSet
  <2>5. IsInjective(<<0, l, r>>)
    BY <2>2 DEF IsInjective
  <2> QED BY <2>1, <2>2, <2>3, <2>4, <2>5
<1> QED BY <1>1, <1>2, SoundTrees

\* In every tree of a sound file no page is reached twice, only page 0 carries
\* the root flag, and every other node names its parent.
THEOREM EveryParentKnown == Spec => []ParentsKnown
BY InvGivesParents, DatabaseInvariant, PTL

LEMMA InvGivesChain == DatabaseInv => LeavesChained
<1> SUFFICES ASSUME DatabaseInv, pc = "open", ~SplitSaved, NEW leaves, leaves = LeavesUnder(0),
                    NEW i \in DOMAIN leaves
             PROVE  NodeOf(leaves[i]).link = IF i = Len(leaves) THEN 0 ELSE leaves[i + 1]
  BY DEF LeavesChained, Sound
<1>1. CASE Single(pager)
  <2>1. leaves = <<0>> /\ NodeOf(0).link = 0
    BY <1>1, SoundTrees, SingleTree DEF RootLeaf
  <2>2. Len(leaves) = 1 /\ DOMAIN leaves = 1 .. 1 /\ leaves[1] = 0
    BY <2>1
  <2>3. i = 1
    BY <2>2
  <2> QED BY <2>1, <2>2, <2>3
<1>2. ASSUME NEW l \in Pages, NEW r \in Pages, Forked(pager, l, r)
      PROVE  NodeOf(leaves[i]).link = IF i = Len(leaves) THEN 0 ELSE leaves[i + 1]
  <2>1. /\ leaves = <<l, r>> /\ NodeOf(l) = pager.pages[l] /\ NodeOf(r) = pager.pages[r]
    BY <1>2, SoundTrees, ForkedTree
  <2>2. NodeOf(l).link = r /\ NodeOf(r).link = 0
    BY <1>2, <2>1 DEF Forked, LastLeaf
  <2>3. Len(leaves) = 2 /\ DOMAIN leaves = 1 .. 2 /\ leaves[1] = l /\ leaves[2] = r
    BY <2>1
  <2>4. i = 1 \/ i = 2
    BY <2>3
  <2>5. \A j : j = 1 => j + 1 = 2 /\ j # 2
    OBVIOUS
  <2>6. CASE i = 1
    BY <2>1, <2>2, <2>3, <2>5, <2>6
  <2>7. CASE i = 2
    BY <2>1, <2>2, <2>3, <2>7
  <2> QED BY <2>4, <2>6, <2>7
<1> QED BY <1>1, <1>2, SoundTrees

\* next_leaf leads from each leaf of a sound tree to the next, and ends at the last.
THEOREM EveryLeafChained == Spec => []LeavesChained
BY InvGivesChain, DatabaseInvariant, PTL

\* Rows in the order of their keys.
Ascending(rows) == \A i, j \in 1 .. Len(rows) : i < j => rows[i].key < rows[j].key

LEMMA LeafAscends ==
  ASSUME NEW n, LeafNode(n)
  PROVE  Ascending(n.cells)
BY DEF LeafNode, Ordered, Ascending

\* Two such sequences, on the two sides of a key, make one.
Apart(a, k, b) ==
  /\ a \in Seq(Row) /\ b \in Seq(Row) /\ Ascending(a) /\ Ascending(b) /\ k \in Int
  /\ \A r \in ToSet(a) : r.key <= k
  /\ \A r \in ToSet(b) : r.key > k

LEMMA Joined ==
  ASSUME NEW a, NEW k, NEW b, Apart(a, k, b)
  PROVE  Ascending(a \o b) /\ ToSet(a \o b) = ToSet(a) \cup ToSet(b)
<1> DEFINE ab == a \o b
           m == Len(a)
           n == Len(b)
<1>0. a \in Seq(Row) /\ b \in Seq(Row) /\ k \in Int
  BY DEF Apart
<1>1. /\ ab \in Seq(Row) /\ Len(ab) = m + n /\ m \in Nat /\ n \in Nat
      /\ \A i \in 1 .. m + n : ab[i] = IF i <= m THEN a[i] ELSE b[i - m]
  BY <1>0, ConcatProperties
<1>2. /\ \A i \in 1 .. m : a[i] \in ToSet(a) /\ a[i] \in Row /\ a[i].key \in Int
      /\ \A i \in 1 .. n : b[i] \in ToSet(b) /\ b[i] \in Row /\ b[i].key \in Int
      /\ ToSet(a) = {a[i] : i \in 1 .. m} /\ ToSet(b) = {b[i] : i \in 1 .. n}
  BY <1>0, RowKeys DEF ToSet
<1>3. ToSet(ab) = {ab[i] : i \in 1 .. m + n}
  BY <1>1 DEF ToSet
<1>4. /\ \A i, j \in 1 .. m : i < j => a[i].key < a[j].key
      /\ \A i, j \in 1 .. n : i < j => b[i].key < b[j].key
  BY DEF Ascending, Apart
<1> HIDE DEF ab, m, n
<1>5. \A i, j \in 1 .. m + n : i < j => ab[i].key < ab[j].key
  <2> SUFFICES ASSUME NEW i \in 1 .. m + n, NEW j \in 1 .. m + n, i < j
               PROVE  ab[i].key < ab[j].key
    OBVIOUS
  <2>1. CASE j <= m
    <3>1. i \in 1 .. m /\ j \in 1 .. m
      BY <1>1, <2>1
    <3>2. ab[i] = a[i] /\ ab[j] = a[j]
      BY <1>1, <3>1
    <3> QED BY <1>4, <3>1, <3>2
  <2>2. CASE i <= m /\ ~(j <= m)
    <3>1. i \in 1 .. m /\ j - m \in 1 .. n
      BY <1>1, <2>2
    <3>2. ab[i] = a[i] /\ ab[j] = b[j - m]
      BY <1>1, <2>2
    <3>3. a[i].key <= k /\ b[j - m].key > k /\ a[i].key \in Int /\ b[j - m].key \in Int
      BY <1>2, <3>1 DEF Apart
    <3>4. \A x, y \in Int : x <= k /\ y > k => x < y
      BY <1>0
    <3> QED BY <3>2, <3>3, <3>4
  <2>3. CASE ~(i <= m)
    <3>1. i - m \in 1 .. n /\ j - m \in 1 .. n /\ i - m < j - m /\ ~(j <= m)
      BY <1>1, <2>3
    <3>2. ab[i] = b[i - m] /\ ab[j] = b[j - m]
      BY <1>1, <2>3, <3>1
    <3> QED BY <1>4, <3>1, <3>2
  <2> QED BY <1>1, <2>1, <2>2, <2>3
<1>6. ToSet(ab) = ToSet(a) \cup ToSet(b)
  <2>1. \A i \in 1 .. m + n : ab[i] \in ToSet(a) \cup ToSet(b)
    <3> TAKE i \in 1 .. m + n
    <3>1. i <= m => i \in 1 .. m
      BY <1>1
    <3>2. ~(i <= m) => i - m \in 1 .. n
      BY <1>1
    <3> QED BY <1>1, <1>2, <3>1, <3>2
  <2>2. \A i \in 1 .. m : a[i] \in ToSet(ab)
    <3> TAKE i \in 1 .. m
    <3>1. i \in 1 .. m + n /\ i <= m
      BY <1>1
    <3> QED BY <1>1, <1>3, <3>1
  <2>3. \A i \in 1 .. n : b[i] \in ToSet(ab)
    <3> TAKE i \in 1 .. n
    <3> DEFINE j == m + i
    <3>1. j \in 1 .. m + n /\ ~(j <= m) /\ j - m = i
      BY <1>1
    <3> HIDE DEF j
    <3>2. ab[j] = b[i]
      BY <1>1, <3>1
    <3> QED BY <1>3, <3>1, <3>2
  <2> QED BY <1>2, <1>3, <2>1, <2>2, <2>3
<1> QED BY <1>1, <1>5, <1>6 DEF Ascending, ab

LEMMA AscendsStepwise ==
  ASSUME NEW rows \in Seq(Row), Ascending(rows)
  PROVE  \A i \in 1 .. Len(rows) - 1 : rows[i].key < rows[i + 1].key
<1> TAKE i \in 1 .. Len(rows) - 1
<1>1. i \in 1 .. Len(rows) /\ i + 1 \in 1 .. Len(rows) /\ i < i + 1
  OBVIOUS
<1> QED BY <1>1 DEF Ascending

\* A root over two leaves has one key, and the leaves on its two sides.
LEMMA ForkedKeys ==
  ASSUME SessionInv, ~SplitSaved, NEW l \in Pages, NEW r \in Pages, Forked(pager, l, r)
  PROVE  LET node == NodeOf(0)
             sep == node.cells[1].key
         IN /\ NumCells(node) = 1 /\ ~IsLeaf(node) /\ sep \in Int
            /\ ChildAt(node, 0) = l /\ ChildAt(node, 1) = r /\ KeyAt(node, 0) = sep
            /\ NodeOf(l).cells \in Seq(Row) /\ NodeOf(r).cells \in Seq(Row)
            /\ Ascending(NodeOf(l).cells) /\ Ascending(NodeOf(r).cells)
            /\ \A s \in ToSet(NodeOf(l).cells) : s.key <= sep
            /\ \A s \in ToSet(NodeOf(r).cells) : s.key > sep
<1>1. /\ NodeOf(0) = pager.pages[0] /\ NodeOf(l) = pager.pages[l] /\ NodeOf(r) = pager.pages[r]
      /\ RootOver(NodeOf(0), l, r) /\ LeafNode(NodeOf(l)) /\ LeafNode(NodeOf(r))
  BY ForkedTree
<1>2. /\ NumCells(NodeOf(0)) = 1 /\ ~IsLeaf(NodeOf(0)) /\ NodeOf(0).cells[1].key \in Int
      /\ NodeOf(0).link = r /\ NodeOf(0).cells[1].child = l
  BY <1>1, RootOverFacts
<1>3. ChildAt(NodeOf(0), 0) = l /\ ChildAt(NodeOf(0), 1) = r /\ KeyAt(NodeOf(0), 0) = NodeOf(0).cells[1].key
  BY <1>2 DEF ChildAt, KeyAt
<1>4. /\ NodeOf(l).cells \in Seq(Row) /\ NodeOf(r).cells \in Seq(Row)
      /\ Ascending(NodeOf(l).cells) /\ Ascending(NodeOf(r).cells)
  BY <1>1, LeafNodeFacts, LeafAscends
<1>5. /\ \A s \in ToSet(NodeOf(l).cells) : s.key <= NodeOf(0).cells[1].key
      /\ \A s \in ToSet(NodeOf(r).cells) : s.key > NodeOf(0).cells[1].key
  BY <1>1 DEF Forked
<1> QED BY <1>2, <1>3, <1>4, <1>5

LEMMA InvGivesOrder == DatabaseInv => TreeOrdered
<1> DEFINE Separates(p) ==
             LET node == NodeOf(p) IN
             ~IsLeaf(node) => \A i \in 1 .. NumCells(node) :
               /\ \A k \in KeysUnder(ChildAt(node, i - 1)) : k <= KeyAt(node, i - 1)
               /\ \A k \in KeysUnder(ChildAt(node, i)) : k > KeyAt(node, i - 1)
<1> SUFFICES ASSUME DatabaseInv, pc = "open", ~SplitSaved, NEW rows, rows = RowsUnder(0)
             PROVE  /\ \A i \in 1 .. Len(rows) - 1 : rows[i].key < rows[i + 1].key
                    /\ \A p \in ToSet(Visited) : Separates(p)
  BY DEF TreeOrdered, Sound
<1>1. CASE Single(pager)
  <2>1. Visited = <<0>> /\ rows = NodeOf(0).cells /\ LeafNode(NodeOf(0))
    BY <1>1, SoundTrees, SingleTree
  <2>2. rows \in Seq(Row) /\ Ascending(rows) /\ IsLeaf(NodeOf(0))
    BY <2>1, LeafNodeFacts, LeafAscends
  <2>3. ToSet(<<0>>) = {0}
    BY DEF ToSet
  <2>4. \A p \in ToSet(Visited) : Separates(p)
    BY <2>1, <2>2, <2>3
  <2> QED BY <2>2, <2>4, AscendsStepwise
<1>2. ASSUME NEW l \in Pages, NEW r \in Pages, Forked(pager, l, r)
      PROVE  /\ \A i \in 1 .. Len(rows) - 1 : rows[i].key < rows[i + 1].key
             /\ \A p \in ToSet(Visited) : Separates(p)
  <2> DEFINE node == NodeOf(0)
             sep == node.cells[1].key
             left == NodeOf(l).cells
             right == NodeOf(r).cells
  <2>1. /\ Visited = <<0, l, r>> /\ rows = left \o right
        /\ LeafNode(NodeOf(l)) /\ LeafNode(NodeOf(r))
        /\ RowsUnder(l) = left /\ RowsUnder(r) = right
    BY <1>2, SoundTrees, ForkedTree
  <2>2. /\ NumCells(node) = 1 /\ ~IsLeaf(node) /\ sep \in Int
        /\ ChildAt(node, 0) = l /\ ChildAt(node, 1) = r /\ KeyAt(node, 0) = sep
        /\ left \in Seq(Row) /\ right \in Seq(Row) /\ Ascending(left) /\ Ascending(right)
        /\ \A s \in ToSet(left) : s.key <= sep
        /\ \A s \in ToSet(right) : s.key > sep
    BY <1>2, SoundTrees, ForkedKeys
  <2>3. IsLeaf(NodeOf(l)) /\ IsLeaf(NodeOf(r))
    BY <2>1, LeafNodeFacts
  <2>4. KeysUnder(l) = {s.key : s \in ToSet(left)} /\ KeysUnder(r) = {s.key : s \in ToSet(right)}
    BY <2>1 DEF KeysUnder
  <2> HIDE DEF node, sep, left, right
  <2>5. ToSet(<<0, l, r>>) = {0, l, r}
    BY DEF ToSet
  <2>6. Separates(0)
    <3> SUFFICES ASSUME NEW i \in 1 .. 1
                 PROVE  /\ \A k \in KeysUnder(ChildAt(node, i - 1)) : k <= KeyAt(node, i - 1)
                        /\ \A k \in KeysUnder(ChildAt(node, i)) : k > KeyAt(node, i - 1)
      BY <2>2 DEF node
    <3>1. i = 1 /\ i - 1 = 0
      OBVIOUS
    <3> QED BY <2>2, <2>4, <3>1
  <2>7. Separates(l) /\ Separates(r)
    BY <2>3
  <2>8. \A p \in ToSet(Visited) : Separates(p)
    BY <2>1, <2>5, <2>6, <2>7
  <2>9. Ascending(rows) /\ rows \in Seq(Row)
    <3>1. Apart(left, sep, right)
      BY <2>2 DEF Apart
    <3>2. Ascending(left \o right)
      BY <3>1, Joined
    <3>3. left \o right \in Seq(Row)
      BY <2>2, ConcatProperties
    <3> QED BY <2>1, <3>2, <3>3
  <2> QED BY <2>8, <2>9, AscendsStepwise
<1> QED BY <1>1, <1>2, SoundTrees

\* The keys of a sound tree ascend from its first leaf to its last, and its
\* separators tell the leaves on their two sides apart.
THEOREM TreeStaysOrdered == Spec => []TreeOrdered
BY InvGivesOrder, DatabaseInvariant, PTL

\* What FindsPlace says of one key, a search, and the keys of the leaves.
PlaceFound(find, key, leaves, keys) ==
  LET leaf == find.pg.pages[find.page]
  IN \E n \in DOMAIN leaves :
       /\ find.page = leaves[n] /\ ~find.endless
       /\ KeyTaken(leaf, find.cell, key) <=> \E m \in DOMAIN keys : key \in keys[m]
       /\ \A i \in 1 .. NumCells(leaf) : leaf.cells[i].key < key <=> i <= find.cell
       /\ \A m \in DOMAIN leaves : \A k \in keys[m] :
            (m < n => k < key) /\ (m > n => k > key)

LeafKeys(p) == {c.key : c \in ToSet(NodeOf(p).cells)}

LEMMA PlaceInOne ==
  ASSUME NEW find, NEW key \in Int, ~find.endless, find.page = 0,
         NEW leaf, leaf = find.pg.pages[find.page], LeafNode(leaf), leaf = NodeOf(0),
         find.cell = LeafFind(leaf, key), NEW keys, keys = [n \in 1 .. 1 |-> LeafKeys(0)]
  PROVE  PlaceFound(find, key, <<0>>, keys)
<1> DEFINE at == find.cell
<1>1. at = LeafFind(leaf, key)
  OBVIOUS
<1> HIDE DEF at
<1>2. /\ \A i \in 1 .. NumCells(leaf) : leaf.cells[i].key < key <=> i <= at
      /\ KeyTaken(leaf, at, key) <=> \E r \in ToSet(leaf.cells) : r.key = key
  BY <1>1, CellIsPlace
<1>3. (\E r \in ToSet(leaf.cells) : r.key = key) <=> key \in LeafKeys(0)
  BY DEF LeafKeys
<1>4. DOMAIN keys = 1 .. 1 /\ keys[1] = LeafKeys(0) /\ DOMAIN <<0>> = 1 .. 1
  OBVIOUS
<1>5. (\E m \in DOMAIN keys : key \in keys[m]) <=> key \in LeafKeys(0)
  BY <1>4
<1>6. 1 \in DOMAIN <<0>> /\ find.page = <<0>>[1] /\ \A m \in DOMAIN <<0>> : m = 1
  OBVIOUS
<1> QED BY <1>2, <1>3, <1>5, <1>6 DEF PlaceFound, at

LEMMA PlaceInTwo ==
  ASSUME NEW find, NEW key \in Int, ~find.endless,
         NEW l, NEW r, NEW k, Apart(NodeOf(l).cells, k, NodeOf(r).cells),
         NEW leaf, leaf = find.pg.pages[find.page], LeafNode(leaf), leaf = NodeOf(find.page),
         find.page = (IF k < key THEN r ELSE l),
         find.cell = LeafFind(leaf, key),
         NEW keys, keys = [n \in 1 .. 2 |-> LeafKeys(<<l, r>>[n])]
  PROVE  PlaceFound(find, key, <<l, r>>, keys)
<1> DEFINE at == find.cell
           leaves == <<l, r>>
<1>1. at = LeafFind(leaf, key)
  OBVIOUS
<1> HIDE DEF at
<1>2. /\ \A i \in 1 .. NumCells(leaf) : leaf.cells[i].key < key <=> i <= at
      /\ KeyTaken(leaf, at, key) <=> \E s \in ToSet(leaf.cells) : s.key = key
  BY <1>1, CellIsPlace
<1>3. (\E s \in ToSet(leaf.cells) : s.key = key) <=> key \in LeafKeys(find.page)
  BY DEF LeafKeys
<1>4. /\ k \in Int
      /\ \A x \in LeafKeys(l) : x \in Int /\ x <= k
      /\ \A x \in LeafKeys(r) : x \in Int /\ x > k
  <2>1. /\ \A s \in ToSet(NodeOf(l).cells) : s \in Row /\ s.key <= k
        /\ \A s \in ToSet(NodeOf(r).cells) : s \in Row /\ s.key > k
    BY DEF Apart, ToSet
  <2>2. k \in Int
    BY DEF Apart
  <2> QED BY <2>1, <2>2, RowKeys DEF LeafKeys
<1>5. DOMAIN keys = {1, 2} /\ keys[1] = LeafKeys(l) /\ keys[2] = LeafKeys(r)
  OBVIOUS
<1>6. DOMAIN leaves = {1, 2} /\ leaves[1] = l /\ leaves[2] = r
  OBVIOUS
<1>7. (\E m \in DOMAIN keys : key \in keys[m]) <=> key \in LeafKeys(l) \/ key \in LeafKeys(r)
  BY <1>5
<1> HIDE DEF leaves
<1>8. CASE k < key
  <2>1. find.page = r
    BY <1>8
  <2>2. key \notin LeafKeys(l) /\ \A x \in LeafKeys(l) : x < key
    BY <1>4, <1>8
  <2>3. \A m \in DOMAIN leaves : \A x \in keys[m] : (m < 2 => x < key) /\ (m > 2 => x > key)
    BY <1>5, <1>6, <2>2
  <2>4. 2 \in DOMAIN leaves /\ find.page = leaves[2]
    BY <1>6, <2>1
  <2>5. KeyTaken(leaf, at, key) <=> \E m \in DOMAIN keys : key \in keys[m]
    BY <1>2, <1>3, <1>7, <2>1, <2>2
  <2> QED BY <1>2, <2>3, <2>4, <2>5 DEF PlaceFound, at, leaves
<1>9. CASE ~(k < key)
  <2>1. find.page = l
    BY <1>9
  <2>2. key \notin LeafKeys(r) /\ \A x \in LeafKeys(r) : x > key
    BY <1>4, <1>9
  <2>3. \A m \in DOMAIN leaves : \A x \in keys[m] : (m < 1 => x < key) /\ (m > 1 => x > key)
    BY <1>5, <1>6, <2>2
  <2>4. 1 \in DOMAIN leaves /\ find.page = leaves[1]
    BY <1>6, <2>1
  <2>5. KeyTaken(leaf, at, key) <=> \E m \in DOMAIN keys : key \in keys[m]
    BY <1>2, <1>3, <1>7, <2>1, <2>2
  <2> QED BY <1>2, <2>3, <2>4, <2>5 DEF PlaceFound, at, leaves
<1> QED BY <1>8, <1>9

LEMMA InvGivesPlace == DatabaseInv => FindsPlace
<1> DEFINE leaves == LeavesUnder(0)
           keys == [n \in 1 .. Len(leaves) |-> {c.key : c \in ToSet(NodeOf(leaves[n]).cells)}]
<1> SUFFICES ASSUME DatabaseInv, pc = "open", ~SplitSaved, NEW key \in Keys
             PROVE  PlaceFound(TableFind(pager, key), key, leaves, keys)
  BY Zenon DEF FindsPlace, Sound, PlaceFound
<1> DEFINE find == TableFind(pager, key)
           leaf == find.pg.pages[find.page]
<1>1. key \in Int
  BY KeysAssumption
<1>2. keys = [n \in 1 .. Len(leaves) |-> LeafKeys(leaves[n])]
  BY DEF LeafKeys
<1> HIDE DEF leaves, keys
<1>3. SessionInv /\ FileOfNodes /\ Kept(pager)
  BY SoundTrees, SessionFacts
<1>4. CASE Single(pager)
  <2>1. leaves = <<0>> /\ LeafNode(NodeOf(0))
    BY <1>4, SoundTrees, SingleTree DEF leaves
  <2>2. /\ find.page = 0 /\ ~find.endless /\ leaf = NodeOf(0) /\ find.cell = LeafFind(NodeOf(0), key)
    BY <1>1, <1>3, <1>4, FindSingle DEF NodeOf
  <2>3. keys = [n \in 1 .. 1 |-> LeafKeys(0)]
    BY <1>2, <2>1
  <2> HIDE DEF find
  <2>4. PlaceFound(find, key, <<0>>, keys)
    BY <1>1, <2>1, <2>2, <2>3, PlaceInOne
  <2> QED BY <2>1, <2>4 DEF find
<1>5. ASSUME NEW l \in Pages, NEW r \in Pages, Forked(pager, l, r)
      PROVE  PlaceFound(find, key, leaves, keys)
  <2> DEFINE sep == NodeOf(0).cells[1].key
  <2>1. /\ leaves = <<l, r>> /\ LeafNode(NodeOf(l)) /\ LeafNode(NodeOf(r))
        /\ NodeOf(0) = pager.pages[0] /\ NodeOf(l) = pager.pages[l] /\ NodeOf(r) = pager.pages[r]
    BY <1>5, SoundTrees, ForkedTree DEF leaves
  <2>2. Apart(NodeOf(l).cells, sep, NodeOf(r).cells)
    BY <1>5, SoundTrees, ForkedKeys DEF Apart
  <2>3. /\ find.pg = pager /\ ~find.endless /\ find.page = Chosen(pager, l, r, key)
        /\ find.cell = LeafFind(leaf, key)
    BY <1>1, <1>3, <1>5, FindForked
  <2>4. find.page = IF sep < key THEN r ELSE l
    BY <2>1, <2>3 DEF Chosen
  <2>5. leaf = NodeOf(find.page) /\ LeafNode(leaf)
    BY <2>1, <2>3, <2>4
  <2>6. keys = [n \in 1 .. 2 |-> LeafKeys(<<l, r>>[n])]
    BY <1>2, <2>1
  <2> HIDE DEF find, sep
  <2>7. PlaceFound(find, key, <<l, r>>, keys)
    BY <1>1, <2>1, <2>2, <2>3, <2>4, <2>5, <2>6, PlaceInTwo
  <2> QED BY <2>1, <2>7
<1> QED BY <1>4, <1>5, SoundTrees

\* table_find ends at the place of every key in a sound tree: a stored key is in
\* the cell it returns, and any other can be put there with all keys in order.
THEOREM EveryPlaceFound == Spec => []FindsPlace
BY InvGivesPlace, DatabaseInvariant, PTL


-----------------------------------------------------------------------------
(* The tree of three leaves that the split of a leaf below the root leaves *)
(* in memory when it ends the process.                                     *)

\* A root with two separators over three pages.
RootOverThree(n, a, b, c) ==
  /\ n \in [type : {"internal"}, root : {TRUE}, parent : Nat \cup {Unset},
            link : Pages, cells : Seq(Separator)]
  /\ NumCells(n) = 2
  /\ n.cells[1].child = a /\ n.cells[2].child = b /\ n.link = c
  /\ n.cells[1].key < n.cells[2].key

\* A leaf in memory, and the keys of a page.
LeafInPlace(pg, p) ==
  p \in Pages /\ pg.pages[p] # Null /\ LeafNode(pg.pages[p])

KeysOf(pg, p) == {r.key : r \in ToSet(pg.pages[p].cells)}

\* Three leaves in memory under a root that tells their keys apart.
ForkedTwice(pg, a, b, c) ==
  LET root == pg.pages[0]
  IN /\ root # Null /\ RootOverThree(root, a, b, c)
     /\ LeafInPlace(pg, a) /\ LeafInPlace(pg, b) /\ LeafInPlace(pg, c)
     /\ \A k \in KeysOf(pg, a) : k <= root.cells[1].key
     /\ \A k \in KeysOf(pg, b) : k > root.cells[1].key /\ k <= root.cells[2].key
     /\ \A k \in KeysOf(pg, c) : k > root.cells[2].key

\* The children of such a root, and the way it shows to a key.
LEMMA RootOverThreeFacts ==
  ASSUME NEW n, NEW a, NEW b, NEW c, RootOverThree(n, a, b, c)
  PROVE  /\ ~IsLeaf(n) /\ ~IsJunk(n)
         /\ a \in Pages /\ b \in Pages /\ c \in Pages
         /\ n.cells[1].key \in Int /\ n.cells[2].key \in Int
         /\ Children(n) = <<a, b, c>>
         /\ \A key \in Int : ChildFor(n, key) =
              IF ~(n.cells[1].key < key) THEN a ELSE IF ~(n.cells[2].key < key) THEN b ELSE c
<1>1. /\ n \in [type : {"internal"}, root : {TRUE}, parent : Nat \cup {Unset},
                link : Pages, cells : Seq(Separator)]
      /\ NumCells(n) = 2 /\ Len(n.cells) = 2
      /\ n.cells[1].child = a /\ n.cells[2].child = b /\ n.link = c
      /\ n.cells[1].key < n.cells[2].key
  BY DEF RootOverThree, NumCells
<1>2. ~IsLeaf(n) /\ ~IsJunk(n)
  BY <1>1, UnsetAssumption DEF IsLeaf, IsJunk
<1>3. n.cells[1] \in Separator /\ n.cells[2] \in Separator
  BY <1>1
<1>4. /\ n.cells[1].key \in Int /\ n.cells[2].key \in Int /\ a \in Pages /\ b \in Pages
      /\ c \in Pages
  BY <1>1, <1>3, SeparatorKeys
<1>5. Ordered(n, Separator)
  <2>1. \A i, j \in 1 .. 2 : i < j => i = 1 /\ j = 2
    OBVIOUS
  <2> QED BY <1>1, <2>1, SeparatorKeys DEF Ordered
<1>6. ChildAt(n, 0) = a /\ ChildAt(n, 1) = b /\ ChildAt(n, 2) = c
  <2>1. \A i : i = 0 => i # 2 /\ i + 1 = 1
    OBVIOUS
  <2>2. \A i : i = 1 => i # 2 /\ i + 1 = 2
    OBVIOUS
  <2> QED BY <1>1, <2>1, <2>2 DEF ChildAt
<1>7. Children(n) = <<a, b, c>>
  <2>1. Children(n) = [i \in 1 .. 3 |-> ChildAt(n, i - 1)]
    BY <1>1, <1>2 DEF Children
  <2> QED BY <1>6, <2>1
<1>8. ASSUME NEW key \in Int
      PROVE  ChildFor(n, key) =
               IF ~(n.cells[1].key < key) THEN a ELSE IF ~(n.cells[2].key < key) THEN b ELSE c
  <2>1. IsPlace(n, key, FindChild(n, key))
    BY <1>5, FindChildIsPlace
  <2>2. FindChild(n, key) =
          IF ~(n.cells[1].key < key) THEN 0 ELSE IF ~(n.cells[2].key < key) THEN 1 ELSE 2
    <3>1. /\ FindChild(n, key) \in 0 .. 2
          /\ \A i \in 1 .. 2 : n.cells[i].key < key <=> i <= FindChild(n, key)
      BY <1>1, <2>1 DEF IsPlace
    <3>2. /\ n.cells[1].key < key <=> 1 <= FindChild(n, key)
          /\ n.cells[2].key < key <=> 2 <= FindChild(n, key)
      BY <3>1
    <3> QED BY <1>4, <3>1, <3>2
  <2> QED BY <1>6, <2>2 DEF ChildFor
<1> QED BY <1>2, <1>4, <1>7, <1>8

\* Three pages in a row, and their rows.
LEMMA Triple ==
  ASSUME NEW a, NEW b, NEW c
  PROVE  <<a>> \o <<b>> \o <<c>> = <<a, b, c>>
<1> DEFINE T == {a, b, c}
           s == <<a, b>>
           t == <<c>>
           st == s \o t
           m == Len(s)
           n == Len(t)
           u == <<a, b, c>>
<1>1. <<a>> \o <<b>> = s
  BY Tuples
<1>2. s \in Seq(T) /\ t \in Seq(T) /\ m = 2 /\ n = 1
  OBVIOUS
<1>3. s[1] = a /\ s[2] = b /\ t[1] = c
  OBVIOUS
<1>4. u \in Seq(T) /\ Len(u) = 3 /\ u[1] = a /\ u[2] = b /\ u[3] = c
  OBVIOUS
<1> HIDE DEF T, s, t
<1>5. /\ st \in Seq(T) /\ Len(st) = m + n
      /\ \A i \in 1 .. m + n : st[i] = IF i <= m THEN s[i] ELSE t[i - m]
  BY <1>2, ConcatProperties
<1> HIDE DEF st, m, n, u
<1>6. \A i : i = 1 => i \in 1 .. m + n /\ i <= m
  BY <1>2
<1>7. \A i : i = 2 => i \in 1 .. m + n /\ i <= m
  BY <1>2
<1>8. \A i : i = 3 => i \in 1 .. m + n /\ ~(i <= m) /\ i - m = 1
  BY <1>2
<1>9. Len(st) = 3 /\ st[1] = a /\ st[2] = b /\ st[3] = c
  BY <1>2, <1>3, <1>5, <1>6, <1>7, <1>8
<1>10. \A x, y \in Seq(T) : Len(x) = Len(y) /\ (\A i \in 1 .. Len(x) : x[i] = y[i]) => x = y
  OBVIOUS
<1>11. \A i \in 1 .. 3 : st[i] = u[i]
  BY <1>4, <1>9
<1>12. st = u
  BY <1>4, <1>5, <1>9, <1>10, <1>11
<1> QED BY <1>1, <1>12 DEF st, t, u

\* Three named pages, and what a walk or the rows hold for them.
IsTriple(children, a, b, c) == children = <<a, b, c>>

JoinAt(f, a, b, c) == f[a] \o f[b] \o f[c]
SeqsAt(T, f, a, b, c) == f[a] \in Seq(T) /\ f[b] \in Seq(T) /\ f[c] \in Seq(T)

\* What is below three children, of a walk or of the rows.
LEMMA ThreeChildren ==
  ASSUME NEW T, NEW f, NEW a, NEW b, NEW c, SeqsAt(T, f, a, b, c),
         NEW children, IsTriple(children, a, b, c)
  PROVE  Below(f, children) = JoinAt(f, a, b, c)
<1> DEFINE seqs == [i \in DOMAIN children |-> f[children[i]]]
           S == Seq(T)
<1>1. DOMAIN children = 1 .. 3 /\ children[1] = a /\ children[2] = b /\ children[3] = c
  BY DEF IsTriple
<1>2. seqs \in Seq(S) /\ Len(seqs) = 3 /\ seqs[1] = f[a] /\ seqs[2] = f[b] /\ seqs[3] = f[c]
  <2>1. f[a] \in S /\ f[b] \in S /\ f[c] \in S
    BY DEF SeqsAt
  <2> HIDE DEF S
  <2>2. \A i \in 1 .. 3 : i = 1 \/ i = 2 \/ i = 3
    OBVIOUS
  <2>3. \A i \in 1 .. 3 : f[children[i]] \in S
    BY <1>1, <2>1, <2>2
  <2>4. seqs = [i \in 1 .. 3 |-> f[children[i]]]
    BY <1>1
  <2> QED BY <1>1, <2>3, <2>4
<1> HIDE DEF seqs
<1>3. FlattenSeq(seqs) = f[a] \o f[b] \o f[c]
  BY <1>2, FlattenFacts DEF S
<1> QED BY <1>3 DEF seqs, Below, JoinAt

\* The rows under a root over three leaves.
LEMMA ThreeLeaves ==
  ASSUME NEW a \in Pages, NEW b \in Pages, NEW c \in Pages, ~IsLeaf(NodeOf(0)),
         Children(NodeOf(0)) = <<a, b, c>>,
         IsLeaf(NodeOf(a)), IsLeaf(NodeOf(b)), IsLeaf(NodeOf(c)),
         NodeOf(a).cells \in Seq(Row), NodeOf(b).cells \in Seq(Row), NodeOf(c).cells \in Seq(Row)
  PROVE  RowsUnder(0) = NodeOf(a).cells \o NodeOf(b).cells \o NodeOf(c).cells
<1> DEFINE n == TABLE_MAX_PAGES
           below == Leaves(n)[n - 1]
           children == Children(NodeOf(0))
           leaves == LeavesUnder(0)
           cells == [p \in Pages |-> NodeOf(p).cells]
<1>1. n \in Nat /\ n # 0 /\ n \in 0 .. n /\ n - 1 \in 0 .. n /\ 0 \in Pages
  BY TableAssumption, PageNumbers
<1>2. Leaves(n)[n] = LeavesLevel(n, below)
  BY <1>1, LeavesExist
<1>3. below[a] = <<a>> /\ below[b] = <<b>> /\ below[c] = <<c>>
  BY <1>1, LeafWalk
<1>4. LeavesUnder(0) = Leaves(n)[n][0]
  BY LeavesUnderIs
<1>5. IsTriple(children, a, b, c)
  BY DEF IsTriple
<1> HIDE DEF below, n, children
<1>6. LeavesLevel(n, below)[0] = Below(below, children)
  BY <1>1 DEF LeavesLevel, Pages, Below, children
<1>7. Below(below, children) = below[a] \o below[b] \o below[c]
  <2>1. SeqsAt(Pages, below, a, b, c)
    BY <1>3 DEF SeqsAt
  <2>2. Below(below, children) = JoinAt(below, a, b, c)
    BY <1>5, <2>1, ThreeChildren
  <2> QED BY <2>2 DEF JoinAt
<1>8. leaves = <<a, b, c>>
  BY <1>2, <1>3, <1>4, <1>6, <1>7, Triple
<1>9. IsTriple(leaves, a, b, c)
  BY <1>8 DEF IsTriple
<1>10. RowsUnder(0) = Below(cells, leaves)
  <2>1. RowsUnder(0) = FlattenSeq([i \in DOMAIN leaves |-> NodeOf(leaves[i]).cells])
    BY DEF RowsUnder
  <2>2. \A i \in DOMAIN leaves : leaves[i] \in Pages
    BY <1>8
  <2> HIDE DEF leaves
  <2>3. [i \in DOMAIN leaves |-> NodeOf(leaves[i]).cells] = [i \in DOMAIN leaves |-> cells[leaves[i]]]
    BY <2>2
  <2> QED BY <2>1, <2>3 DEF Below, leaves
<1>11. cells[a] = NodeOf(a).cells /\ cells[b] = NodeOf(b).cells /\ cells[c] = NodeOf(c).cells
  OBVIOUS
<1> HIDE DEF leaves, cells
<1>12. Below(cells, leaves) = cells[a] \o cells[b] \o cells[c]
  <2>1. SeqsAt(Row, cells, a, b, c)
    BY <1>11 DEF SeqsAt
  <2>2. Below(cells, leaves) = JoinAt(cells, a, b, c)
    BY <1>9, <2>1, ThreeChildren
  <2> QED BY <2>2 DEF JoinAt
<1> QED BY <1>10, <1>11, <1>12

\* A key of one of the three leaves is found there.
LEMMA FindForkedTwice ==
  ASSUME NEW pg, NEW a, NEW b, NEW c, ForkedTwice(pg, a, b, c),
         NEW p \in {a, b, c}, NEW r \in ToSet(pg.pages[p].cells),
         NEW find, find = TableFind(pg, r.key)
  PROVE  KeyTaken(find.pg.pages[find.page], find.cell, r.key)
<1> DEFINE root == pg.pages[0]
           leaf == pg.pages[p]
           key == r.key
<1>1. /\ root # Null /\ RootOverThree(root, a, b, c)
      /\ LeafInPlace(pg, a) /\ LeafInPlace(pg, b) /\ LeafInPlace(pg, c)
      /\ \A k \in KeysOf(pg, a) : k <= root.cells[1].key
      /\ \A k \in KeysOf(pg, b) : k > root.cells[1].key /\ k <= root.cells[2].key
      /\ \A k \in KeysOf(pg, c) : k > root.cells[2].key
  BY DEF ForkedTwice
<1>2. leaf # Null /\ LeafNode(leaf)
  BY <1>1 DEF LeafInPlace
<1>3. IsLeaf(leaf) /\ key \in Int
  BY <1>2, LeafNodeFacts
<1>4. key \in KeysOf(pg, p)
  BY DEF KeysOf
<1>5. /\ ~IsLeaf(root) /\ ~IsJunk(root)
      /\ root.cells[1].key \in Int /\ root.cells[2].key \in Int
      /\ ChildFor(root, key) =
           IF ~(root.cells[1].key < key) THEN a ELSE IF ~(root.cells[2].key < key) THEN b ELSE c
  BY <1>1, <1>3, RootOverThreeFacts
<1>6. root.cells[1].key < root.cells[2].key
  BY <1>1 DEF RootOverThree
<1>7. ChildFor(root, key) = p
  <2> DEFINE j == root.cells[1].key
             k == root.cells[2].key
  <2>1. j \in Int /\ k \in Int /\ key \in Int /\ j < k
    BY <1>3, <1>5, <1>6
  <2>2. /\ p = a => key <= j
        /\ p = b => key > j /\ key <= k
        /\ p = c => key > k
    BY <1>1, <1>4
  <2> HIDE DEF j, k, key
  <2>3. /\ p = a => ~(j < key)
        /\ p = b => j < key /\ ~(k < key)
        /\ p = c => j < key /\ k < key
    BY <2>1, <2>2
  <2>4. ChildFor(root, key) = IF ~(j < key) THEN a ELSE IF ~(k < key) THEN b ELSE c
    BY <1>5 DEF j, k, key
  <2> QED BY <2>3, <2>4
<1>8. find = TableFind(pg, key)
  OBVIOUS
<1> HIDE DEF root, leaf, key
<1>9. find.pg = pg /\ find.page = p /\ find.cell = LeafFind(leaf, key)
  BY <1>1, <1>2, <1>3, <1>5, <1>7, <1>8, FindBelowRoot DEF root, leaf
<1>10. KeyTaken(leaf, find.cell, key)
  <2>1. \E s \in ToSet(leaf.cells) : s.key = key
    BY DEF leaf, key
  <2> QED BY <1>2, <1>3, <1>9, <2>1, CellIsPlace
<1> QED BY <1>9, <1>10 DEF leaf, key

\* Such a tree in memory has the rows of its leaves, in order.
HasRows(all) ==
  LET rows == RowsUnder(0)
  IN /\ ToSet(rows) = all
     /\ \A i \in 1 .. Len(rows) - 1 : rows[i].key < rows[i + 1].key

\* The rows that some leaves hold.
RowsIn(pg, S) == UNION {ToSet(pg.pages[p].cells) : p \in S}

\* Three leaves under their root are a tree in order.
ForkedTwiceOrdered ==
  \A a, b, c \in Pages : ForkedTwice(pager, a, b, c) => HasRows(RowsIn(pager, {a, b, c}))

LEMMA ForkedTwiceTree == ForkedTwiceOrdered
<1> SUFFICES ASSUME NEW a \in Pages, NEW b \in Pages, NEW c \in Pages, ForkedTwice(pager, a, b, c)
             PROVE  HasRows(RowsIn(pager, {a, b, c}))
  BY DEF ForkedTwiceOrdered
<1> DEFINE root == pager.pages[0]
           rows == RowsUnder(0)
           A == pager.pages[a].cells
           B == pager.pages[b].cells
           C == pager.pages[c].cells
           j == root.cells[1].key
           k == root.cells[2].key
           AB == A \o B
<1>1. /\ root # Null /\ RootOverThree(root, a, b, c)
      /\ LeafInPlace(pager, a) /\ LeafInPlace(pager, b) /\ LeafInPlace(pager, c)
      /\ \A x \in KeysOf(pager, a) : x <= j
      /\ \A x \in KeysOf(pager, b) : x > j /\ x <= k
      /\ \A x \in KeysOf(pager, c) : x > k
  BY DEF ForkedTwice
<1>2. /\ ~IsLeaf(root) /\ Children(root) = <<a, b, c>> /\ j \in Int /\ k \in Int
  BY <1>1, RootOverThreeFacts
<1>3. j < k
  BY <1>1 DEF RootOverThree
<1>4. \A p \in {a, b, c} : /\ pager.pages[p] # Null /\ LeafNode(pager.pages[p])
                           /\ IsLeaf(pager.pages[p]) /\ pager.pages[p].cells \in Seq(Row)
                           /\ Ascending(pager.pages[p].cells)
  BY <1>1, LeafNodeFacts, LeafAscends DEF LeafInPlace
<1>5. /\ NodeOf(0) = root /\ NodeOf(a) = pager.pages[a] /\ NodeOf(b) = pager.pages[b]
      /\ NodeOf(c) = pager.pages[c]
  BY <1>1, <1>4 DEF NodeOf, P!Seen
<1>6. rows = AB \o C
  BY <1>2, <1>4, <1>5, ThreeLeaves
<1>7. A \in Seq(Row) /\ B \in Seq(Row) /\ C \in Seq(Row) /\ Ascending(A) /\ Ascending(B) /\ Ascending(C)
  BY <1>4
<1>8. /\ \A r \in ToSet(A) : r.key \in Int /\ r.key <= j
      /\ \A r \in ToSet(B) : r.key \in Int /\ r.key > j /\ r.key <= k
      /\ \A r \in ToSet(C) : r.key \in Int /\ r.key > k
  BY <1>1, <1>4, LeafNodeFacts DEF KeysOf
<1>9. RowsIn(pager, {a, b, c}) = ToSet(A) \cup ToSet(B) \cup ToSet(C)
  BY DEF RowsIn
<1> HIDE DEF A, B, C, j, k
<1>10. Apart(A, j, B)
  BY <1>2, <1>7, <1>8 DEF Apart
<1>11. Ascending(AB) /\ ToSet(AB) = ToSet(A) \cup ToSet(B) /\ AB \in Seq(Row)
  BY <1>7, <1>10, Joined
<1> HIDE DEF AB
<1>12. Apart(AB, k, C)
  <2>1. \A r \in ToSet(AB) : r.key <= k
    BY <1>2, <1>3, <1>8, <1>11
  <2> QED BY <1>2, <1>7, <1>8, <1>11, <2>1 DEF Apart
<1>13. Ascending(AB \o C) /\ ToSet(AB \o C) = ToSet(AB) \cup ToSet(C) /\ AB \o C \in Seq(Row)
  BY <1>7, <1>11, <1>12, Joined
<1>14. /\ rows \in Seq(Row) /\ Ascending(rows)
       /\ ToSet(rows) = ToSet(A) \cup ToSet(B) \cup ToSet(C)
  BY <1>6, <1>11, <1>13
<1>15. \A i \in 1 .. Len(rows) - 1 : rows[i].key < rows[i + 1].key
  BY <1>14, AscendsStepwise
<1> QED BY <1>9, <1>14, <1>15 DEF HasRows

\* The last key of a leaf's cells.
LastKey(s) == s[Len(s)].key

LEMMA LastKeyFacts ==
  ASSUME NEW s \in Seq(Row), Len(s) > 0, \A i, j \in 1 .. Len(s) : i < j => s[i].key < s[j].key
  PROVE  /\ LastKey(s) \in Keys /\ LastKey(s) \in Int
         /\ \A r \in ToSet(s) : r.key \in Int /\ r.key <= LastKey(s)
         /\ \E r \in ToSet(s) : r.key = LastKey(s)
<1> DEFINE n == Len(s)
<1>1. n \in Nat /\ n \in 1 .. n /\ \A i \in 1 .. n : s[i] \in Row
  OBVIOUS
<1>2. \A i \in 1 .. n : s[i].key \in Keys /\ s[i].key \in Int
  BY <1>1, RowKeys
<1>3. ToSet(s) = {s[i] : i \in 1 .. n}
  BY DEF ToSet
<1>4. \A i \in 1 .. n : s[i].key <= s[n].key
  <2> TAKE i \in 1 .. n
  <2>1. i = n \/ i < n
    BY <1>1
  <2> QED BY <1>1, <1>2, <2>1
<1> QED BY <1>1, <1>2, <1>3, <1>4 DEF LastKey

\* The separators that InsertInParent leaves in page 0, over the leaf of page,
\* split, and the new one, when the root has room and its right child is read.
CanInsert(pg, root, page, old_max, l, r) ==
  /\ old_max \in Int /\ pg.pages[0] # Null /\ pg.pages[r] # Null
  /\ root = UpdateKey(pg.pages[0], old_max, MaxKey(pg.pages[page]))
  /\ RootOver(root, l, r) /\ pg.pages[page].parent = 0 /\ NumCells(pg.pages[r]) # 0

LEMMA InParentIs ==
  ASSUME INTERNAL_NODE_MAX_CELLS > 1, NEW pg, NEW root, NEW page, NEW new, NEW old_max, NEW l, NEW r,
         CanInsert(pg, root, page, old_max, l, r)
  PROVE  InsertInParent(pg, page, new, old_max) =
           P!StorePage(pg, 0, InternalInsert(root, new, MaxKey(pg.pages[new]), MaxKey(pg.pages[r])))
<1>1. NumCells(root) = 1 /\ root.link = r
  BY RootOverFacts DEF CanInsert
<1>2. P!LoadPage(pg, 0) = pg /\ P!LoadPage(pg, r) = pg
  BY DEF P!LoadPage, CanInsert
<1>3. ~(NumCells(root) >= INTERNAL_NODE_MAX_CELLS)
  BY <1>1, InternalSizeAssumption
<1>4. pg.pages[page].parent = 0 /\ NumCells(pg.pages[r]) # 0
      /\ root = UpdateKey(pg.pages[0], old_max, MaxKey(pg.pages[page]))
  BY DEF CanInsert
<1> QED BY <1>1, <1>2, <1>3, <1>4 DEF InsertInParent

\* The split of a leaf below the root, of a tree of two.
SplitsBelow(pg, find, row, left, right) ==
  /\ FileOfNodes /\ Kept(pg) /\ Forked(pg, left, right) /\ left \in Pages /\ right \in Pages
  /\ row \in Row
  /\ find.pg = pg /\ find.page = Chosen(pg, left, right, row.key)
  /\ find.cell = LeafFind(pg.pages[find.page], row.key)
  /\ ~KeyTaken(pg.pages[find.page], find.cell, row.key)
  /\ NumCells(pg.pages[find.page]) >= LEAF_NODE_MAX_CELLS
  /\ RoomForPage(pg)

\* The three leaves, before the root is changed.
LEMMA SplitBelowLeaves ==
  ASSUME NEW pg, NEW find, NEW row, NEW left, NEW right, SplitsBelow(pg, find, row, left, right),
         NEW split, split = SplitLeaf(pg, find.page, find.cell, row)
  PROVE  LET new == pg.num_pages
             page == find.page
             old_cells == split.pages[page].cells
             new_cells == split.pages[new].cells
         IN /\ new \in Pages /\ new \notin {0, left, right} /\ page \in {left, right}
            /\ split.pages[0] = pg.pages[0]
            /\ \A q \in {left, right} \ {page} : split.pages[q] = pg.pages[q]
            /\ \A q \in {left, right, new} : LeafInPlace(split, q) /\ split.pages[q].parent = 0
                                             /\ NumCells(split.pages[q]) # 0
            /\ SplitOf(pg.pages[page].cells, row, old_cells, new_cells)
            /\ Kept(split)
<1> DEFINE new == pg.num_pages
           page == find.page
           leaf == pg.pages[page]
           old == SplitCells(leaf.cells, find.cell, row).old
           fresh == SplitCells(leaf.cells, find.cell, row).new
<1>1. /\ FileOfNodes /\ Kept(pg) /\ left \in Pages /\ right \in Pages /\ row \in Row
      /\ find.cell = LeafFind(leaf, row.key) /\ ~KeyTaken(leaf, find.cell, row.key)
      /\ NumCells(leaf) >= LEAF_NODE_MAX_CELLS /\ RoomForPage(pg)
  BY DEF SplitsBelow
<1>2. /\ left # 0 /\ right # 0 /\ left # right /\ pg.pages[0] # Null
      /\ pg.pages[left] # Null /\ pg.pages[right] # Null
      /\ LeafNode(pg.pages[left]) /\ ~pg.pages[left].root
      /\ LeafNode(pg.pages[right]) /\ ~pg.pages[right].root
      /\ NumCells(pg.pages[left]) > 0 /\ NumCells(pg.pages[right]) > 0
  BY DEF SplitsBelow, Forked, LastLeaf
<1>3. page \in {left, right}
  BY DEF SplitsBelow, Chosen
<1>4. CanSplit(pg, page, find.cell, row)
  BY <1>1, <1>2, <1>3 DEF CanSplit
<1>5. HasSplit(pg, page, row, split, new, old, fresh)
  BY <1>1, <1>4, SplitLeafFacts
<1> HIDE DEF old, fresh
<1>6. /\ Kept(split) /\ new \in Pages /\ pg.pages[new] = Null /\ new # page
      /\ \A q \in Pages \ {page, new} : split.pages[q] = pg.pages[q]
      /\ split.pages[page].cells = old /\ split.pages[new].cells = fresh
      /\ SplitOf(leaf.cells, row, old, fresh)
  BY <1>5 DEF HasSplit
<1>7. new \notin {0, left, right}
  BY <1>2, <1>6
<1>8. /\ leaf.parent = 0 /\ leaf.root = FALSE /\ leaf.link \in Pages
  BY <1>2, <1>3 DEF LeafNode
<1>9. /\ split.pages[page] \in Nodes /\ split.pages[page].type = "leaf"
      /\ split.pages[page].root = FALSE /\ split.pages[page].parent = 0
      /\ split.pages[page].link \in Pages
  BY <1>5, <1>6, <1>8 DEF HasSplit
<1>10. /\ split.pages[new] \in Nodes /\ split.pages[new].type = "leaf"
       /\ split.pages[new].root = FALSE /\ split.pages[new].parent = 0
       /\ split.pages[new].link \in Pages
  BY <1>5, <1>6, <1>8 DEF HasSplit
<1>11. /\ old \in Seq(Row) /\ Len(old) > 0 /\ Len(old) <= LEAF_NODE_MAX_CELLS
       /\ fresh \in Seq(Row) /\ Len(fresh) > 0 /\ Len(fresh) <= LEAF_NODE_MAX_CELLS
       /\ \A i, j \in 1 .. Len(old) : i < j => old[i].key < old[j].key
       /\ \A i, j \in 1 .. Len(fresh) : i < j => fresh[i].key < fresh[j].key
  BY <1>6 DEF SplitOf
<1> HIDE DEF new, page, leaf
<1>12. LeafNode(split.pages[page]) /\ LeafNode(split.pages[new])
  BY <1>6, <1>9, <1>10, <1>11, HalfIsLeaf
<1>13. split.pages[page] # Null /\ split.pages[new] # Null
  BY <1>9, <1>10, NullAssumption
<1>14. \A q \in {left, right} \ {page} :
         /\ split.pages[q] = pg.pages[q] /\ LeafInPlace(split, q) /\ split.pages[q].parent = 0
         /\ NumCells(split.pages[q]) # 0
  <2> TAKE q \in {left, right} \ {page}
  <2>1. q \in Pages \ {page, new}
    BY <1>1, <1>7
  <2>2. split.pages[q] = pg.pages[q]
    BY <1>6, <2>1
  <2> QED BY <1>1, <1>2, <2>2 DEF LeafInPlace, LeafNode
<1>15. split.pages[0] = pg.pages[0]
  <2>1. 0 \in Pages \ {page, new}
    BY <1>2, <1>3, <1>7, PageNumbers
  <2> QED BY <1>6, <2>1
<1>16. /\ LeafInPlace(split, page) /\ NumCells(split.pages[page]) # 0
       /\ LeafInPlace(split, new) /\ NumCells(split.pages[new]) # 0
  BY <1>1, <1>3, <1>6, <1>11, <1>12, <1>13 DEF LeafInPlace, NumCells
<1>17. \A q \in {left, right, new} : LeafInPlace(split, q) /\ split.pages[q].parent = 0
                                     /\ NumCells(split.pages[q]) # 0
  BY <1>9, <1>10, <1>14, <1>16
<1> QED BY <1>3, <1>6, <1>7, <1>14, <1>15, <1>17 DEF new, page, leaf

\* Three leaves, and the root over them stored.
Parted(pg, n, a, b, c) ==
  /\ RootOverThree(n, a, b, c) /\ n \in Nodes
  /\ 0 \notin {a, b, c}
  /\ LeafInPlace(pg, a) /\ LeafInPlace(pg, b) /\ LeafInPlace(pg, c)
  /\ \A k \in KeysOf(pg, a) : k <= n.cells[1].key
  /\ \A k \in KeysOf(pg, b) : k > n.cells[1].key /\ k <= n.cells[2].key
  /\ \A k \in KeysOf(pg, c) : k > n.cells[2].key

LEMMA RootStored ==
  ASSUME FileOfNodes, NEW pg, Kept(pg), pg.pages[0] # Null, NEW n, NEW a, NEW b, NEW c, Parted(pg, n, a, b, c)
  PROVE  /\ ForkedTwice(P!StorePage(pg, 0, n), a, b, c)
         /\ RowsIn(P!StorePage(pg, 0, n), {a, b, c}) = RowsIn(pg, {a, b, c})
<1> DEFINE res == P!StorePage(pg, 0, n)
<1>1. n \in Nodes /\ n # Null /\ 0 \in Pages /\ \A q \in {a, b, c} : q \in Pages \ {0}
  BY NullAssumption, PageNumbers DEF Parted, LeafInPlace
<1>2. res.pages[0] = n /\ \A q \in Pages \ {0} : res.pages[q] = pg.pages[q]
  BY <1>1, StorePageKept
<1> HIDE DEF res
<1>3. \A q \in {a, b, c} : res.pages[q] = pg.pages[q]
  BY <1>1, <1>2
<1>4. ForkedTwice(res, a, b, c)
  BY <1>1, <1>2, <1>3 DEF ForkedTwice, Parted, LeafInPlace, KeysOf
<1>5. RowsIn(res, {a, b, c}) = RowsIn(pg, {a, b, c})
  BY <1>3 DEF RowsIn
<1> QED BY <1>4, <1>5 DEF res

\* An internal node with two cells.
TwoCells(n, first, second, link) ==
  /\ n \in [type : {"internal"}, root : {TRUE}, parent : Nat \cup {Unset},
            link : Pages, cells : Seq(Separator)]
  /\ n \in Nodes /\ NumCells(n) = 2
  /\ n.link = link /\ n.cells[1] = first /\ n.cells[2] = second

\* What internal_node_insert makes of a root over two leaves.
LEMMA GrownTwoCells ==
  ASSUME NEW n, NEW l, NEW r, RootOver(n, l, r), NEW child \in Pages,
         NEW child_max \in Keys, NEW right_max \in Keys
  PROVE  /\ child_max > right_max =>
              TwoCells(InternalInsert(n, child, child_max, right_max),
                       n.cells[1], [child |-> r, key |-> right_max], child)
         /\ ~(child_max > right_max) /\ n.cells[1].key < child_max =>
              TwoCells(InternalInsert(n, child, child_max, right_max),
                       n.cells[1], [child |-> child, key |-> child_max], r)
<1> DEFINE m == InternalInsert(n, child, child_max, right_max)
           sep == n.cells[1]
           last == [child |-> r, key |-> right_max]
           added == [child |-> child, key |-> child_max]
<1>0. Grown(n, m, r, child, child_max, right_max)
  BY GrownRoot
<1>1. /\ m \in [type : {"internal"}, root : {TRUE}, parent : Nat \cup {Unset},
                link : Pages, cells : Seq(Separator)]
      /\ m \in Nodes
      /\ NumCells(m) = 2
      /\ child_max > right_max => m.link = child /\ m.cells = <<sep, last>>
      /\ ~(child_max > right_max) =>
           m.link = r /\ m.cells = IF sep.key < child_max THEN <<sep, added>> ELSE <<added, sep>>
  BY <1>0 DEF Grown
<1> HIDE DEF m, sep, last, added
<1>2. child_max > right_max => m.link = child /\ m.cells[1] = sep /\ m.cells[2] = last
  BY <1>1
<1>3. ~(child_max > right_max) /\ sep.key < child_max => m.link = r /\ m.cells[1] = sep /\ m.cells[2] = added
  BY <1>1
<1> QED BY <1>1, <1>2, <1>3 DEF TwoCells, m, sep, last, added

\* The left leaf split: the new leaf comes between the two.
LEMMA LeftSplits ==
  ASSUME NEW pg, NEW find, NEW row, NEW left, NEW right, SplitsBelow(pg, find, row, left, right),
         NEW split, split = SplitLeaf(pg, find.page, find.cell, row), find.page = left,
         INTERNAL_NODE_MAX_CELLS > 1,
         NEW res, res = InsertInParent(split, find.page, pg.num_pages, MaxKey(pg.pages[find.page]))
  PROVE  \E n : /\ res = P!StorePage(split, 0, n)
                /\ Parted(split, n, left, pg.num_pages, right)
<1> DEFINE new == pg.num_pages
           full == pg.pages[left].cells
           old == split.pages[left].cells
           fresh == split.pages[new].cells
           other == split.pages[right].cells
           sep == pg.pages[0].cells[1].key
           root == UpdateKey(pg.pages[0], LastKey(full), LastKey(old))
           n == InternalInsert(root, new, LastKey(fresh), LastKey(other))
<1>1. /\ new \in Pages /\ new \notin {0, left, right}
      /\ split.pages[0] = pg.pages[0] /\ split.pages[right] = pg.pages[right]
      /\ \A q \in {left, right, new} : LeafInPlace(split, q) /\ split.pages[q].parent = 0
                                       /\ NumCells(split.pages[q]) # 0
      /\ SplitOf(full, row, old, fresh)
      /\ Kept(split)
  <2>1. left # right
    BY DEF SplitsBelow, Forked
  <2> QED BY <2>1, SplitBelowLeaves
<1>2. /\ left # 0 /\ right # 0 /\ left # right /\ pg.pages[0] # Null
      /\ RootOver(pg.pages[0], left, right) /\ LeafNode(pg.pages[left])
      /\ NumCells(pg.pages[left]) > 0 /\ row \in Row
      /\ \A r \in ToSet(full) : r.key <= sep
      /\ \A r \in ToSet(other) : r.key > sep
  BY <1>1 DEF SplitsBelow, Forked
<1>3. row.key \in Int /\ row.key <= sep /\ sep \in Int
  <2>1. row.key \in Int /\ sep \in Int
    BY <1>2, RowKeys, RootOverFacts
  <2>2. ~(sep < row.key)
    BY <1>2 DEF SplitsBelow, Chosen
  <2> QED BY <2>1, <2>2
<1>4. /\ full \in Seq(Row) /\ Len(full) > 0
      /\ old \in Seq(Row) /\ Len(old) > 0 /\ fresh \in Seq(Row) /\ Len(fresh) > 0
      /\ other \in Seq(Row) /\ Len(other) > 0
  <2>1. LeafNode(split.pages[right]) /\ NumCells(split.pages[right]) # 0
    BY <1>1 DEF LeafInPlace
  <2>2. full \in Seq(Row) /\ Len(full) > 0
    BY <1>2, LeafNodeFacts
  <2>3. other \in Seq(Row) /\ Len(other) > 0
    BY <2>1, LeafNodeFacts
  <2>4. old \in Seq(Row) /\ Len(old) > 0 /\ fresh \in Seq(Row) /\ Len(fresh) > 0
    <3>1. SplitOf(full, row, old, fresh)
      BY <1>1
    <3> HIDE DEF full, old, fresh
    <3> QED BY <3>1 DEF SplitOf
  <2> QED BY <2>2, <2>3, <2>4
<1>5. /\ Ascending(full) /\ Ascending(old) /\ Ascending(fresh) /\ Ascending(other)
  BY <1>1, <1>2, LeafAscends DEF LeafInPlace
<1>6. /\ MaxKey(pg.pages[left]) = LastKey(full) /\ MaxKey(split.pages[left]) = LastKey(old)
      /\ MaxKey(split.pages[new]) = LastKey(fresh) /\ MaxKey(split.pages[right]) = LastKey(other)
  BY DEF MaxKey, LastKey, NumCells
<1>7. /\ \A r \in ToSet(old) : r.key <= LastKey(old)
      /\ \A r \in ToSet(fresh) : r.key > LastKey(old)
      /\ ToSet(old) \cup ToSet(fresh) = ToSet(full) \cup {row}
  BY <1>1 DEF SplitOf, LastKey
<1> HIDE DEF full, old, fresh, other, sep
<1>8. /\ LastKey(full) \in Int /\ LastKey(full) <= sep
      /\ LastKey(old) \in Keys /\ LastKey(old) \in Int
      /\ LastKey(fresh) \in Keys /\ LastKey(fresh) \in Int
      /\ LastKey(other) \in Keys /\ LastKey(other) \in Int
      /\ \A r \in ToSet(fresh) : r.key \in Int /\ r.key <= LastKey(fresh)
      /\ \E r \in ToSet(fresh) : r.key = LastKey(fresh)
      /\ \E r \in ToSet(other) : r.key = LastKey(other)
      /\ \A r \in ToSet(other) : r.key \in Int
  BY <1>2, <1>4, <1>5, LastKeyFacts DEF Ascending
<1>9. /\ LastKey(fresh) <= sep /\ LastKey(old) < LastKey(fresh) /\ LastKey(fresh) < LastKey(other)
  <2>1. LastKey(fresh) <= sep
    BY <1>2, <1>3, <1>7, <1>8
  <2>2. LastKey(old) < LastKey(fresh)
    BY <1>7, <1>8
  <2>3. sep < LastKey(other)
    BY <1>2, <1>3, <1>8
  <2> QED BY <1>3, <1>8, <2>1, <2>2, <2>3
<1>10. RootOver(root, left, right) /\ root.cells[1].key = LastKey(old)
  <2>1. /\ RootOver(root, left, right)
        /\ root.cells[1].key = IF sep < LastKey(full) THEN sep ELSE LastKey(old)
    BY <1>2, <1>8, RenamedRoot DEF sep
  <2> QED BY <1>3, <1>8, <2>1
<1>11. root = UpdateKey(split.pages[0], MaxKey(pg.pages[left]), MaxKey(split.pages[left]))
  BY <1>1, <1>6
<1> HIDE DEF root, new
<1>12. res = P!StorePage(split, 0, n)
  <2> DEFINE max == MaxKey(pg.pages[left])
  <2>1. /\ split.pages[0] # Null /\ split.pages[right] # Null /\ split.pages[left].parent = 0
        /\ NumCells(split.pages[right]) # 0 /\ max \in Int
        /\ root = UpdateKey(split.pages[0], max, MaxKey(split.pages[left]))
    BY <1>1, <1>2, <1>6, <1>8, <1>11 DEF LeafInPlace
  <2>2. res = InsertInParent(split, left, new, max)
    BY DEF new
  <2> HIDE DEF max
  <2>3. CanInsert(split, root, left, max, left, right)
    BY <1>10, <2>1 DEF CanInsert
  <2>4. InsertInParent(split, left, new, max) =
          P!StorePage(split, 0, InternalInsert(root, new, MaxKey(split.pages[new]), MaxKey(split.pages[right])))
    BY <2>3, InParentIs
  <2> QED BY <1>6, <2>2, <2>4
<1> DEFINE added == [child |-> new, key |-> LastKey(fresh)]
<1>13. TwoCells(n, root.cells[1], added, right)
  <2> DEFINE child_max == LastKey(fresh)
             right_max == LastKey(other)
  <2>1. /\ child_max \in Keys /\ right_max \in Keys /\ ~(child_max > right_max)
        /\ root.cells[1].key < child_max
    BY <1>8, <1>9, <1>10
  <2> HIDE DEF child_max, right_max
  <2>2. TwoCells(InternalInsert(root, new, child_max, right_max),
                 root.cells[1], [child |-> new, key |-> child_max], right)
    BY <1>1, <1>10, <2>1, GrownTwoCells
  <2> QED BY <2>2 DEF child_max, right_max
<1> HIDE DEF n
<1>14. /\ n \in Nodes /\ n.cells[1] = root.cells[1] /\ n.cells[2] = added
       /\ added.child = new /\ added.key = LastKey(fresh)
  BY <1>13 DEF TwoCells
<1>15. RootOverThree(n, left, new, right)
  <2>1. root.cells[1].child = left
    BY <1>10, RootOverFacts
  <2>2. n.cells[1].child = left /\ n.cells[2].child = new /\ n.cells[1].key < n.cells[2].key
    BY <1>9, <1>10, <1>14, <2>1
  <2> QED BY <1>13, <2>2 DEF RootOverThree, TwoCells
<1>16. /\ n.cells[1].key = LastKey(old) /\ n.cells[2].key = LastKey(fresh)
  BY <1>10, <1>14
<1>17. /\ \A k \in KeysOf(split, left) : k <= n.cells[1].key
       /\ \A k \in KeysOf(split, new) : k > n.cells[1].key /\ k <= n.cells[2].key
       /\ \A k \in KeysOf(split, right) : k > n.cells[2].key
  <2>1. \A r \in ToSet(other) : r.key > LastKey(fresh)
    BY <1>2, <1>3, <1>8, <1>9
  <2> QED BY <1>7, <1>8, <1>16, <2>1 DEF KeysOf, old, fresh, other, new
<1>18. Parted(split, n, left, new, right)
  BY <1>1, <1>2, <1>14, <1>15, <1>17 DEF Parted
<1> QED BY <1>12, <1>18 DEF new

\* The right leaf split: the new leaf comes last.
LEMMA RightSplits ==
  ASSUME NEW pg, NEW find, NEW row, NEW left, NEW right, SplitsBelow(pg, find, row, left, right),
         NEW split, split = SplitLeaf(pg, find.page, find.cell, row), find.page = right,
         INTERNAL_NODE_MAX_CELLS > 1,
         NEW res, res = InsertInParent(split, find.page, pg.num_pages, MaxKey(pg.pages[find.page]))
  PROVE  \E n : /\ res = P!StorePage(split, 0, n)
                /\ Parted(split, n, left, right, pg.num_pages)
<1> DEFINE new == pg.num_pages
           other == split.pages[left].cells
           full == pg.pages[right].cells
           old == split.pages[right].cells
           fresh == split.pages[new].cells
           sep == pg.pages[0].cells[1].key
           root == UpdateKey(pg.pages[0], LastKey(full), LastKey(old))
           n == InternalInsert(root, new, LastKey(fresh), LastKey(old))
<1>0. left # right
  BY DEF SplitsBelow, Forked
<1>1. /\ new \in Pages /\ new \notin {0, left, right}
      /\ split.pages[0] = pg.pages[0] /\ split.pages[left] = pg.pages[left]
      /\ \A q \in {left, right, new} : LeafInPlace(split, q) /\ split.pages[q].parent = 0
                                       /\ NumCells(split.pages[q]) # 0
      /\ SplitOf(full, row, old, fresh)
      /\ Kept(split)
  BY <1>0, SplitBelowLeaves
<1>2. /\ left # 0 /\ right # 0 /\ pg.pages[0] # Null
      /\ RootOver(pg.pages[0], left, right) /\ LeafNode(pg.pages[right])
      /\ NumCells(pg.pages[right]) > 0 /\ row \in Row
      /\ \A r \in ToSet(other) : r.key <= sep
      /\ \A r \in ToSet(full) : r.key > sep
  <2>1. Forked(pg, left, right) /\ row \in Row
    BY DEF SplitsBelow
  <2>2. other = pg.pages[left].cells
    BY <1>1
  <2> HIDE DEF other
  <2> QED BY <2>1, <2>2 DEF Forked, LastLeaf
<1>3. row.key \in Int /\ row.key > sep /\ sep \in Int
  <2>1. row.key \in Int /\ sep \in Int
    BY <1>2, RowKeys, RootOverFacts
  <2>2. sep < row.key
    BY <1>0 DEF SplitsBelow, Chosen
  <2> QED BY <2>1, <2>2
<1>4. /\ full \in Seq(Row) /\ Len(full) > 0
      /\ old \in Seq(Row) /\ Len(old) > 0 /\ fresh \in Seq(Row) /\ Len(fresh) > 0
  BY <1>1, <1>2, LeafNodeFacts DEF SplitOf, NumCells
<1>5. /\ Ascending(full) /\ Ascending(old) /\ Ascending(fresh)
  BY <1>1, <1>2, LeafAscends DEF LeafInPlace
<1>6. /\ MaxKey(pg.pages[right]) = LastKey(full) /\ MaxKey(split.pages[right]) = LastKey(old)
      /\ MaxKey(split.pages[new]) = LastKey(fresh)
  BY DEF MaxKey, LastKey, NumCells
<1>7. /\ \A r \in ToSet(old) : r.key <= LastKey(old)
      /\ \A r \in ToSet(fresh) : r.key > LastKey(old)
      /\ ToSet(old) \cup ToSet(fresh) = ToSet(full) \cup {row}
  BY <1>1 DEF SplitOf, LastKey
<1> HIDE DEF other, full, old, fresh, sep
<1>8. /\ LastKey(full) \in Int
      /\ \E r \in ToSet(full) : r.key = LastKey(full)
      /\ LastKey(old) \in Keys /\ LastKey(old) \in Int
      /\ LastKey(fresh) \in Keys /\ LastKey(fresh) \in Int
      /\ \E r \in ToSet(old) : r.key = LastKey(old)
      /\ \A r \in ToSet(fresh) : r.key \in Int
      /\ \E r \in ToSet(fresh) : r.key = LastKey(fresh)
  BY <1>4, <1>5, LastKeyFacts DEF Ascending
<1>9. /\ \A r \in ToSet(old) : r.key > sep
      /\ sep < LastKey(full) /\ sep < LastKey(old) /\ LastKey(old) < LastKey(fresh)
  <2>1. \A r \in ToSet(old) : r.key > sep
    BY <1>2, <1>3, <1>7
  <2>2. sep < LastKey(full)
    BY <1>2, <1>3, <1>8
  <2>3. sep < LastKey(old)
    BY <1>3, <1>8, <2>1
  <2>4. LastKey(old) < LastKey(fresh)
    BY <1>7, <1>8
  <2> QED BY <2>1, <2>2, <2>3, <2>4
<1>10. RootOver(root, left, right) /\ root.cells[1].key = sep
  <2>1. /\ RootOver(root, left, right)
        /\ root.cells[1].key = IF sep < LastKey(full) THEN sep ELSE LastKey(old)
    BY <1>2, <1>8, RenamedRoot DEF sep
  <2> QED BY <1>9, <2>1
<1>11. root = UpdateKey(split.pages[0], MaxKey(pg.pages[right]), MaxKey(split.pages[right]))
  BY <1>1, <1>6
<1> HIDE DEF root, new
<1>12. res = P!StorePage(split, 0, n)
  <2> DEFINE max == MaxKey(pg.pages[right])
  <2>1. /\ split.pages[0] # Null /\ split.pages[right] # Null /\ split.pages[right].parent = 0
        /\ NumCells(split.pages[right]) # 0 /\ max \in Int
        /\ root = UpdateKey(split.pages[0], max, MaxKey(split.pages[right]))
    BY <1>1, <1>2, <1>6, <1>8, <1>11 DEF LeafInPlace
  <2>2. res = InsertInParent(split, right, new, max)
    BY DEF new
  <2> HIDE DEF max
  <2>3. CanInsert(split, root, right, max, left, right)
    BY <1>10, <2>1 DEF CanInsert
  <2>4. InsertInParent(split, right, new, max) =
          P!StorePage(split, 0, InternalInsert(root, new, MaxKey(split.pages[new]), MaxKey(split.pages[right])))
    BY <2>3, InParentIs
  <2> QED BY <1>6, <2>2, <2>4
<1> DEFINE last == [child |-> right, key |-> LastKey(old)]
<1>13. TwoCells(n, root.cells[1], last, new)
  <2> DEFINE child_max == LastKey(fresh)
             right_max == LastKey(old)
  <2>1. child_max \in Keys /\ right_max \in Keys /\ child_max > right_max
    BY <1>8, <1>9
  <2> HIDE DEF child_max, right_max
  <2>2. TwoCells(InternalInsert(root, new, child_max, right_max),
                 root.cells[1], [child |-> right, key |-> right_max], new)
    BY <1>1, <1>10, <2>1, GrownTwoCells
  <2> QED BY <2>2 DEF child_max, right_max
<1> HIDE DEF n
<1>14. /\ n \in Nodes /\ n.cells[1] = root.cells[1] /\ n.cells[2] = last
       /\ last.child = right /\ last.key = LastKey(old)
  BY <1>13 DEF TwoCells
<1>15. RootOverThree(n, left, right, new)
  <2>1. root.cells[1].child = left
    BY <1>10, RootOverFacts
  <2>2. n.cells[1].child = left /\ n.cells[2].child = right /\ n.cells[1].key < n.cells[2].key
    BY <1>9, <1>10, <1>14, <2>1
  <2> QED BY <1>13, <2>2 DEF RootOverThree, TwoCells
<1>16. /\ n.cells[1].key = sep /\ n.cells[2].key = LastKey(old)
  BY <1>10, <1>14
<1>17. /\ \A k \in KeysOf(split, left) : k <= n.cells[1].key
       /\ \A k \in KeysOf(split, right) : k > n.cells[1].key /\ k <= n.cells[2].key
       /\ \A k \in KeysOf(split, new) : k > n.cells[2].key
  BY <1>2, <1>7, <1>9, <1>16 DEF KeysOf, other, old, fresh
<1>18. Parted(split, n, left, right, new)
  BY <1>1, <1>2, <1>14, <1>15, <1>17 DEF Parted
<1> QED BY <1>12, <1>18 DEF new

\* An insert that splits a leaf below the root does so in a tree of two leaves.
LEMMA SplitsFound ==
  ASSUME SessionInv, ~SplitSaved, NEW row \in Row, NEW find, find = TableFind(pager, row.key),
         InsertSplittingLeaf(find, row)
  PROVE  \E left, right \in Pages :
           SplitsBelow(pager, find, row, left, right) /\ Forked(pager, left, right)
<1> DEFINE leaf == find.pg.pages[find.page]
<1>1. Inserts(find, row, TRUE) /\ ~leaf.root /\ RoomForPage(find.pg)
  BY DEF InsertSplittingLeaf
<1>2. ~find.endless /\ ~KeyTaken(leaf, find.cell, row.key)
  BY <1>1, Zenon DEF Inserts
<1>3. NumCells(leaf) >= LEAF_NODE_MAX_CELLS
  BY <1>1, Zenon DEF Inserts
<1>4. row.key \in Int /\ FileOfNodes /\ Kept(pager)
  BY SessionFacts, RowKeys
<1>5. find.page # 0
  BY <1>1, <1>2, <1>4, FoundLeaf
<1>6. ~Single(pager)
  BY <1>4, <1>5, FindSingle
<1>7. PICK left, right \in Pages : Forked(pager, left, right)
  BY <1>6, SessionFacts, ThreeShapes
<1> HIDE DEF leaf
<1>8. /\ find.pg = pager /\ find.page = Chosen(pager, left, right, row.key)
      /\ find.cell = LeafFind(find.pg.pages[find.page], row.key)
  BY <1>4, <1>7, FindForked
<1>9. SplitsBelow(pager, find, row, left, right)
  <2>1. leaf = pager.pages[find.page]
    BY <1>8 DEF leaf
  <2> QED BY <1>1, <1>2, <1>3, <1>4, <1>7, <1>8, <2>1 DEF SplitsBelow
<1> QED BY <1>7, <1>9

\* The rows of the tree of two leaves.
LEMMA TwoLeavesRows ==
  ASSUME SessionInv, ~SplitSaved, NEW l \in Pages, NEW r \in Pages, Forked(pager, l, r)
  PROVE  ToSet(RowsUnder(0)) = RowsIn(pager, {l, r})
<1> DEFINE a == NodeOf(l).cells
           b == NodeOf(r).cells
           sep == NodeOf(0).cells[1].key
<1>1. /\ RowsUnder(0) = a \o b
      /\ NodeOf(l) = pager.pages[l] /\ NodeOf(r) = pager.pages[r]
  BY ForkedTree
<1>2. Apart(a, sep, b)
  BY ForkedKeys DEF Apart
<1> HIDE DEF sep
<1>3. ToSet(a \o b) = ToSet(a) \cup ToSet(b)
  BY <1>2, Joined
<1>4. RowsIn(pager, {l, r}) = ToSet(a) \cup ToSet(b)
  BY <1>1 DEF RowsIn
<1> QED BY <1>1, <1>3, <1>4

\* The leaf that is split, either one, leaves three that hold the rows and the new one.
LEMMA SplitMakesThree ==
  ASSUME INTERNAL_NODE_MAX_CELLS > 1, SessionInv, ~SplitSaved, NEW row \in Row,
         NEW find, find = TableFind(pager, row.key), InsertSplittingLeaf(find, row)
  PROVE  \E a, b, c \in Pages :
           /\ ForkedTwice(pager', a, b, c)
           /\ RowsIn(pager', {a, b, c}) = ToSet(RowsUnder(0)) \cup {row}
<1> DEFINE split == SplitLeaf(pager, find.page, find.cell, row)
           new == pager.num_pages
           res == InsertInParent(split, find.page, new, MaxKey(pager.pages[find.page]))
<1>1. PICK left, right \in Pages :
        SplitsBelow(pager, find, row, left, right) /\ Forked(pager, left, right)
  BY SplitsFound
<1>2. find.pg = pager /\ find.page \in {left, right}
  BY <1>1 DEF SplitsBelow, Chosen
<1>3. Exits(res)
  BY <1>2 DEF InsertSplittingLeaf, P!UnusedPageNum
<1>4. pager' = res
  BY <1>3 DEF Exits
<1>5. ToSet(RowsUnder(0)) = RowsIn(pager, {left, right})
  BY <1>1, TwoLeavesRows
<1> DEFINE page == find.page
           old_cells == split.pages[page].cells
           new_cells == split.pages[new].cells
<1>6. /\ new \in Pages /\ new \notin {0, left, right}
      /\ split.pages[0] = pager.pages[0] /\ Kept(split)
      /\ \A q \in {left, right} \ {page} : split.pages[q] = pager.pages[q]
      /\ SplitOf(pager.pages[page].cells, row, old_cells, new_cells)
  BY <1>1, SplitBelowLeaves
<1>7. ToSet(old_cells) \cup ToSet(new_cells) = ToSet(pager.pages[page].cells) \cup {row}
  BY <1>6 DEF SplitOf
<1> HIDE DEF split
<1>8. RowsIn(split, {left, right, new}) = RowsIn(pager, {left, right}) \cup {row}
  <2>1. RowsIn(split, {left, right, new}) =
          ToSet(split.pages[left].cells) \cup ToSet(split.pages[right].cells) \cup ToSet(new_cells)
    BY DEF RowsIn
  <2>2. RowsIn(pager, {left, right}) =
          ToSet(pager.pages[left].cells) \cup ToSet(pager.pages[right].cells)
    BY DEF RowsIn
  <2>3. CASE page = left /\ left # right
    BY <1>6, <1>7, <2>1, <2>2, <2>3
  <2>4. CASE page = right /\ left # right
    BY <1>6, <1>7, <2>1, <2>2, <2>4
  <2>5. left # right
    BY <1>1 DEF Forked
  <2> QED BY <1>2, <2>3, <2>4, <2>5
<1>9. \E n : \E a, b, c \in Pages :
        res = P!StorePage(split, 0, n) /\ Parted(split, n, a, b, c) /\ {a, b, c} = {left, right, new}
  <2>1. CASE page = left
    <3>1. \E n : res = P!StorePage(split, 0, n) /\ Parted(split, n, left, new, right)
      BY <1>1, <1>2, <2>1, LeftSplits DEF split
    <3>2. {left, new, right} = {left, right, new}
      OBVIOUS
    <3> QED BY <1>1, <1>6, <3>1, <3>2
  <2>2. CASE page = right
    <3>1. \E n : res = P!StorePage(split, 0, n) /\ Parted(split, n, left, right, new)
      BY <1>1, <1>2, <2>2, RightSplits DEF split
    <3> QED BY <1>1, <1>6, <3>1
  <2> QED BY <1>2, <2>1, <2>2
<1> HIDE DEF res, new
<1>10. PICK n, a, b, c : /\ a \in Pages /\ b \in Pages /\ c \in Pages
                         /\ res = P!StorePage(split, 0, n) /\ Parted(split, n, a, b, c)
                         /\ {a, b, c} = {left, right, new}
  BY <1>9
<1>11. split.pages[0] # Null /\ FileOfNodes
  BY <1>1, <1>6, SessionFacts DEF Forked
<1>12. /\ ForkedTwice(res, a, b, c)
       /\ RowsIn(res, {a, b, c}) = RowsIn(split, {a, b, c})
  BY <1>6, <1>10, <1>11, RootStored
<1> QED BY <1>4, <1>5, <1>8, <1>10, <1>12

\* So it is after a step.
LEMMA ForkedTwiceNext ==
  \A a, b, c \in Pages : ForkedTwice(pager', a, b, c) =>
    \A rows \in {RowsUnder(0)'} :
      /\ ToSet(rows) = RowsIn(pager', {a, b, c})
      /\ \A i \in 1 .. Len(rows) - 1 : rows[i].key < rows[i + 1].key
<1>1. ForkedTwiceOrdered'
  BY ForkedTwiceTree, PTL
<1> QED BY <1>1 DEF ForkedTwiceOrdered, HasRows

\* With room for two separators in the root.
LEMMA SplitsBuild ==
  ASSUME INTERNAL_NODE_MAX_CELLS > 1, DatabaseInv, ~SplitSaved, NEW row \in Entered, Ready,
         InsertSplittingLeaf(TableFind(pager, row.key), row)
  PROVE  \A rows \in {RowsUnder(0)'} :
           /\ ToSet(rows) = ToSet(RowsUnder(0)) \cup {row}
           /\ \A i \in 1 .. Len(rows) - 1 : rows[i].key < rows[i + 1].key
           /\ \A r \in ToSet(rows) :
                LET find == TableFind(pager', r.key)
                IN KeyTaken(find.pg.pages[find.page], find.cell, r.key)
<1>1. SessionInv /\ row \in Row
  BY EnteredAssumption DEF SessionInv, Ready, Row
<1>2. PICK a, b, c \in Pages :
        /\ ForkedTwice(pager', a, b, c)
        /\ RowsIn(pager', {a, b, c}) = ToSet(RowsUnder(0)) \cup {row}
  BY <1>1, SplitMakesThree
<1>3. PICK pg : pg = pager'
  OBVIOUS
<1>4. ForkedTwice(pg, a, b, c)
  BY <1>2, <1>3
<1>5. \A p \in {a, b, c} : \A r \in ToSet(pg.pages[p].cells) :
        LET find == TableFind(pg, r.key)
        IN KeyTaken(find.pg.pages[find.page], find.cell, r.key)
  <2> TAKE p \in {a, b, c}
  <2> TAKE r \in ToSet(pg.pages[p].cells)
  <2> DEFINE find == TableFind(pg, r.key)
  <2> HIDE DEF find
  <2>1. KeyTaken(find.pg.pages[find.page], find.cell, r.key)
    BY <1>4, FindForkedTwice DEF find
  <2> QED BY <2>1 DEF find
<1>6. \A r \in RowsIn(pg, {a, b, c}) : 
        LET find == TableFind(pg, r.key)
        IN KeyTaken(find.pg.pages[find.page], find.cell, r.key)
  BY <1>5 DEF RowsIn
<1> QED BY <1>2, <1>3, <1>6, ForkedTwiceNext

\* A step of the program that splits a leaf below the root.
LEMMA InvGivesSplits ==
  INTERNAL_NODE_MAX_CELLS > 1 /\ DatabaseInv /\ [Next]_vars =>
    (~SplitSaved /\ pc' = "down" /\ pager' # pager => \A row \in Entered :
       Ready /\ InsertSplittingLeaf(TableFind(pager, row.key), row) =>
       \A rows \in {RowsUnder(0)'} :
          /\ ToSet(rows) = ToSet(RowsUnder(0)) \cup {row}
          /\ \A i \in 1 .. Len(rows) - 1 : rows[i].key < rows[i + 1].key
          /\ \A r \in ToSet(rows) :
               LET find == TableFind(pager', r.key)
               IN KeyTaken(find.pg.pages[find.page], find.cell, r.key))
BY SplitsBuild

\* When an insert splits a leaf below the root and the process exits, the tree it
\* leaves in memory has every row and the new one in order, and finds each by its
\* key: the new leaf has its separator, and the two old ones keep theirs. It
\* needs room for two separators in the root (config.h gives three): without it
\* internal_node_insert ends the process before it links the new leaf.
THEOREM SplitLeavesTree ==
  INTERNAL_NODE_MAX_CELLS > 1 => (Spec => SplitBuildsTree)
<1> SUFFICES ASSUME INTERNAL_NODE_MAX_CELLS > 1 PROVE Spec => SplitBuildsTree
  OBVIOUS
<1> QED BY InvGivesSplits, DatabaseInvariant, PTL DEF Spec, SplitBuildsTree

-----------------------------------------------------------------------------
(***************************************************************************)
(* A session on a new file is a table of rows: every step of Database is a *)
(* step of RowTable or leaves it alone, for every size of nodes and of the *)
(* page table. With MaxFilePages = 0 no other session is ever begun.       *)
(*                                                                         *)
(* The rows are those of the leaves in memory, and what a select has still *)
(* to print is what lies ahead of its cursor.                              *)
(***************************************************************************)


\* The rows in memory, of any pager.
RowsOf(pg) == UNION {ToSet(pg.pages[p].cells) : p \in {q \in P!Cached(pg) : IsLeaf(pg.pages[q])}}

\* The rows of the next leaf.
Following(pg, node) == IF node.link = 0 THEN {} ELSE ToSet(pg.pages[node.link].cells)

\* The rows from the cursor on: the rest of its leaf and the next leaf.
Ahead(pg, c) ==
  LET node == pg.pages[c.page]
  IN IF c.end THEN {}
     ELSE {node.cells[i] : i \in c.cell + 1 .. NumCells(node)} \cup Following(pg, node)

\* The tree of a session on a new file, all of it in memory.
NewTree(pg) == Kept(pg) /\ (Single(pg) \/ Forked(pg, 2, 1))

\* A leaf of it, with the leaf that follows.
LeafInMemory(pg, p) ==
  LET node == pg.pages[p]
      next == pg.pages[node.link]
  IN /\ p \in Pages /\ node # Null /\ LeafNode(node)
     /\ node.link # 0 =>
          /\ node.link \in Pages /\ next # Null /\ LeafNode(next)
          /\ next.link = 0 /\ NumCells(next) > 0
          /\ \A r \in ToSet(node.cells), s \in ToSet(next.cells) : r.key < s.key

\* A cursor that is not at the end is on a row.
OnRow(pg, c) == LeafInMemory(pg, c.page) /\ c.cell \in Nat /\ c.cell < NumCells(pg.pages[c.page])

\* The rows a select that printed last has still to print.
StillIn(last, rows) == {r \in rows : last = Null \/ r.key > last.key}

SessionTable ==
  /\ DatabaseInv
  /\ pc = "open" => Len(file) = 0
  /\ pc # "open" => result = "none"
  /\ cursor.open =>
       /\ StillIn(printed, RowsOf(pager)) = Ahead(pager, cursor)
       /\ ~cursor.end => OnRow(pager, cursor)

-----------------------------------------------------------------------------
(* The tree in memory.                                                     *)

LEMMA NewFile == ASSUME Len(file) = 0 PROVE ~SplitSaved
BY DEF SplitSaved

LEMMA NewTreeIn ==
  ASSUME SessionInv, Len(file) = 0
  PROVE  FileOfNodes /\ NewTree(pager)
<1>1. FileOfNodes /\ Kept(pager) /\ TreeIn(pager)
  BY SessionFacts
<1>2. Single(pager) \/ \E left, right \in Pages : Forked(pager, left, right)
  BY <1>1, NewFile, ThreeShapes
<1>3. ASSUME NEW left, NEW right, Forked(pager, left, right) PROVE left = 2 /\ right = 1
  BY <1>3 DEF Forked
<1> QED BY <1>1, <1>2, <1>3 DEF NewTree

\* A table that is one leaf.
LEMMA SingleRows ==
  ASSUME FileOfNodes, Len(file) = 0, NEW pg, Kept(pg), Single(pg)
  PROVE  /\ pg.pages[0] # Null /\ P!Seen(pg, 0) = pg.pages[0] /\ RootLeaf(pg.pages[0])
         /\ RowsOf(pg) = ToSet(pg.pages[0].cells)
         /\ LeafInMemory(pg, 0)
<1>1. /\ pg.num_pages = 1 /\ pg.pages[0] # Null /\ RootLeaf(P!Seen(pg, 0)) /\ 0 \in Pages
      /\ \A p \in Pages : pg.pages[p] # Null => p < pg.num_pages
  BY PageNumbers DEF Single, Kept
<1>2. P!Seen(pg, 0) = pg.pages[0]
  BY <1>1 DEF P!Seen
<1>3. LeafNode(pg.pages[0]) /\ IsLeaf(pg.pages[0]) /\ pg.pages[0].link = 0
  BY <1>1, <1>2, LeafNodeFacts DEF RootLeaf
<1>4. \A p \in Pages : pg.pages[p] # Null => p = 0
  BY <1>1, PageNumbers
<1>5. {q \in P!Cached(pg) : IsLeaf(pg.pages[q])} = {0}
  BY <1>1, <1>3, <1>4 DEF P!Cached, Pages
<1>6. RowsOf(pg) = ToSet(pg.pages[0].cells)
  BY <1>5 DEF RowsOf
<1> QED BY <1>1, <1>2, <1>3, <1>6 DEF LeafInMemory

\* A root over two leaves.
LEMMA ForkedRows ==
  ASSUME FileOfNodes, Len(file) = 0, NEW pg, Kept(pg), Forked(pg, 2, 1)
  PROVE  /\ 1 \in Pages /\ 2 \in Pages
         /\ RowsOf(pg) = ToSet(pg.pages[2].cells) \cup ToSet(pg.pages[1].cells)
         /\ LeafInMemory(pg, 1) /\ LeafInMemory(pg, 2)
<1> DEFINE sep == pg.pages[0].cells[1].key
           one == pg.pages[1]
           two == pg.pages[2]
<1>1. /\ pg.num_pages = 3 /\ pg.pages[0] # Null /\ one # Null /\ two # Null
      /\ RootOver(pg.pages[0], 2, 1)
      /\ LeafNode(two) /\ two.link = 1 /\ LeafNode(one) /\ one.link = 0
      /\ NumCells(one) > 0
      /\ \A r \in ToSet(two.cells) : r.key <= sep
      /\ \A r \in ToSet(one.cells) : r.key > sep
      /\ \A p \in Pages : pg.pages[p] # Null => p < pg.num_pages
  BY DEF Forked, LastLeaf, Kept
<1>2. /\ 0 \in Pages /\ 1 \in Pages /\ 2 \in Pages /\ sep \in Int /\ ~IsLeaf(pg.pages[0])
      /\ IsLeaf(one) /\ IsLeaf(two)
  BY <1>1, PageNumbers, RootOverFacts, LeafNodeFacts
<1>3. \A p \in Pages : pg.pages[p] # Null => p \in {0, 1, 2}
  BY <1>1, PageNumbers
<1>4. {q \in P!Cached(pg) : IsLeaf(pg.pages[q])} = {1, 2}
  BY <1>1, <1>2, <1>3 DEF P!Cached, Pages
<1>5. RowsOf(pg) = ToSet(two.cells) \cup ToSet(one.cells)
  BY <1>4 DEF RowsOf
<1>6. /\ \A r \in ToSet(two.cells) : r.key \in Int
      /\ \A r \in ToSet(one.cells) : r.key \in Int
  BY <1>1, LeafNodeFacts
<1> HIDE DEF sep
<1>7. \A r \in ToSet(two.cells), s \in ToSet(one.cells) : r.key < s.key
  BY <1>1, <1>2, <1>6
<1>8. LeafInMemory(pg, 1)
  BY <1>1, <1>2 DEF LeafInMemory
<1>9. LeafInMemory(pg, 2)
  BY <1>1, <1>2, <1>7 DEF LeafInMemory
<1> QED BY <1>2, <1>5, <1>8, <1>9

\* table_find in it: every page is in memory already, and whether the key is
\* taken is told by the leaf the search ends in.
LEMMA FindInMemory ==
  ASSUME FileOfNodes, Len(file) = 0, NEW pg, NewTree(pg), NEW key \in Int,
         NEW find, find = TableFind(pg, key)
  PROVE  /\ find.pg = pg /\ ~find.endless /\ LeafInMemory(pg, find.page)
         /\ find.cell = LeafFind(pg.pages[find.page], key)
         /\ KeyTaken(pg.pages[find.page], find.cell, key) <=> \E r \in RowsOf(pg) : r.key = key
<1>0. Kept(pg) /\ ~SplitSaved
  BY NewFile DEF NewTree
<1>1. CASE Single(pg)
  <2>1. /\ Loads(pg, find.pg, {0}) /\ find.page = 0 /\ ~find.endless
        /\ find.cell = LeafFind(P!Seen(pg, 0), key)
    BY <1>0, <1>1, FindSingle
  <2>2. /\ pg.pages[0] # Null /\ P!Seen(pg, 0) = pg.pages[0] /\ LeafNode(pg.pages[0])
        /\ RowsOf(pg) = ToSet(pg.pages[0].cells) /\ LeafInMemory(pg, 0)
    BY <1>0, <1>1, SingleRows DEF RootLeaf
  <2>3. find.pg = pg
    BY <2>1, <2>2 DEF Loads
  <2>4. KeyTaken(pg.pages[0], find.cell, key) <=> \E r \in ToSet(pg.pages[0].cells) : r.key = key
    BY <2>1, <2>2, CellIsPlace
  <2> QED BY <2>1, <2>2, <2>3, <2>4
<1>2. CASE Forked(pg, 2, 1)
  <2> DEFINE sep == pg.pages[0].cells[1].key
             leaf == pg.pages[find.page]
  <2>0. /\ 1 \in Pages /\ 2 \in Pages /\ LeafInMemory(pg, 1) /\ LeafInMemory(pg, 2)
        /\ RowsOf(pg) = ToSet(pg.pages[2].cells) \cup ToSet(pg.pages[1].cells)
    BY <1>0, <1>2, ForkedRows
  <2>1. /\ find.pg = pg /\ find.page = Chosen(pg, 2, 1, key) /\ ~find.endless
        /\ find.cell = LeafFind(leaf, key)
    BY <1>0, <1>2, <2>0, FindForked
  <2>2. /\ LeafNode(pg.pages[1]) /\ LeafNode(pg.pages[2]) /\ RootOver(pg.pages[0], 2, 1)
        /\ \A r \in ToSet(pg.pages[2].cells) : r.key <= sep
        /\ \A r \in ToSet(pg.pages[1].cells) : r.key > sep
    BY <1>2 DEF Forked, LastLeaf
  <2>3. find.page = IF sep < key THEN 1 ELSE 2
    BY <2>1 DEF Chosen
  <2>4. sep \in Int
    BY <2>2, RootOverFacts
  <2>5. LeafNode(leaf) /\ LeafInMemory(pg, find.page)
    BY <2>0, <2>2, <2>3
  <2>6. KeyTaken(leaf, find.cell, key) <=> \E r \in ToSet(leaf.cells) : r.key = key
    BY <2>1, <2>5, CellIsPlace
  <2>7. /\ \A r \in ToSet(pg.pages[2].cells) : r.key \in Int
        /\ \A r \in ToSet(pg.pages[1].cells) : r.key \in Int
    BY <2>2, LeafNodeFacts
  <2> HIDE DEF sep
  <2>8. (\E r \in ToSet(leaf.cells) : r.key = key) <=> \E r \in RowsOf(pg) : r.key = key
    BY <2>0, <2>2, <2>3, <2>4, <2>7
  <2> QED BY <2>1, <2>5, <2>6, <2>8
<1> QED BY <1>1, <1>2 DEF NewTree

\* An insert in a leaf with room, and one that splits the root, add the row.
LEMMA InsertAddsRow ==
  ASSUME FileOfNodes, Len(file) = 0, NEW pg, NewTree(pg), NEW row \in Row,
         NEW find, NEW pg2, InsertsInto(pg, find, row, pg2)
  PROVE  NewTree(pg2) /\ RowsOf(pg2) = RowsOf(pg) \cup {row}
<1>0. Kept(pg) /\ ~SplitSaved
  BY NewFile DEF NewTree
<1>1. CASE Single(pg)
  <2>1. /\ Kept(pg2) /\ Single(pg2)
        /\ ToSet(P!Seen(pg2, 0).cells) = ToSet(P!Seen(pg, 0).cells) \cup {row}
    BY <1>0, <1>1, InsertSingle
  <2>2. /\ P!Seen(pg, 0) = pg.pages[0] /\ RowsOf(pg) = ToSet(pg.pages[0].cells)
    BY <1>0, <1>1, SingleRows
  <2>3. /\ P!Seen(pg2, 0) = pg2.pages[0] /\ RowsOf(pg2) = ToSet(pg2.pages[0].cells)
    BY <2>1, SingleRows
  <2> QED BY <2>1, <2>2, <2>3 DEF NewTree
<1>2. CASE Forked(pg, 2, 1)
  <2>1. /\ 1 \in Pages /\ 2 \in Pages
        /\ RowsOf(pg) = ToSet(pg.pages[2].cells) \cup ToSet(pg.pages[1].cells)
    BY <1>0, <1>2, ForkedRows
  <2>2. /\ Kept(pg2) /\ Forked(pg2, 2, 1) /\ find.page \in {2, 1}
        /\ \A q \in Pages \ {find.page} : pg2.pages[q] = pg.pages[q]
        /\ ToSet(pg2.pages[find.page].cells) = ToSet(pg.pages[find.page].cells) \cup {row}
    BY <1>0, <1>2, <2>1, InsertForked
  <2>3. RowsOf(pg2) = ToSet(pg2.pages[2].cells) \cup ToSet(pg2.pages[1].cells)
    BY <2>2, ForkedRows
  <2>4. RowsOf(pg2) = RowsOf(pg) \cup {row}
    BY <2>1, <2>2, <2>3
  <2> QED BY <2>2, <2>4 DEF NewTree
<1> QED BY <1>1, <1>2 DEF NewTree

LEMMA SplitAddsRow ==
  ASSUME FileOfNodes, Len(file) = 0, NEW pg, Kept(pg), Single(pg), NEW row \in Row,
         NEW find, NEW pg2, SplitsRoot(pg, find, row, pg2)
  PROVE  NewTree(pg2) /\ RowsOf(pg2) = RowsOf(pg) \cup {row}
<1>1. ~SplitSaved
  BY NewFile
<1>2. PICK left \in Pages, right \in Pages :
        /\ Kept(pg2) /\ Forked(pg2, left, right)
        /\ ToSet(pg2.pages[left].cells) \cup ToSet(pg2.pages[right].cells) =
             ToSet(P!Seen(pg, 0).cells) \cup {row}
  BY <1>1, SplitSingle
<1>3. left = 2 /\ right = 1
  BY <1>2 DEF Forked
<1>4. P!Seen(pg, 0) = pg.pages[0] /\ RowsOf(pg) = ToSet(pg.pages[0].cells)
  BY SingleRows
<1>5. RowsOf(pg2) = ToSet(pg2.pages[2].cells) \cup ToSet(pg2.pages[1].cells)
  BY <1>2, <1>3, ForkedRows
<1> QED BY <1>2, <1>3, <1>4, <1>5 DEF NewTree

\* main on an empty file: one leaf without rows.
LEMMA OpensEmpty ==
  ASSUME DatabaseInv, Open, MaxFilePages = 0
  PROVE  Len(file') = 0 /\ RowsOf(pager') = {}
<1> DEFINE op == P!OpenedPager
           lp == P!LoadPage(op, 0)
           sp == P!StorePage(lp, 0, EmptyRootLeaf)
<1>1. /\ FileOfNodes /\ Len(file) \in Nat /\ Len(file) <= MaxFilePages /\ file' = file
      /\ pager' = IF op.num_pages = 0 THEN sp ELSE op
  BY DEF DatabaseInv, FileInv, FileOfNodes, Open, P!Open
<1>2. Len(file) = 0
  BY <1>1
<1>3. 0 \in Pages /\ EmptyRootLeaf \in Nodes /\ EmptyRootLeaf.cells = <<>>
  BY PageNumbers, SpareNodes
<1>4. Kept(op) /\ op.num_pages = 0 /\ \A q \in Pages : op.pages[q] = Null
  BY <1>1, <1>2, OpenedFacts
<1> HIDE DEF op
<1>5. Kept(lp) /\ lp.pages[0] # Null /\ \A q \in Pages \ {0} : lp.pages[q] = Null
  BY <1>1, <1>3, <1>4, LoadPageLoads DEF Loads
<1> HIDE DEF lp
<1>6. sp.pages[0] = EmptyRootLeaf /\ \A q \in Pages \ {0} : sp.pages[q] = Null
  BY <1>1, <1>3, <1>5, StorePageKept
<1>7. pager' = sp
  BY <1>1, <1>4
<1> HIDE DEF sp
<1>8. \A p \in P!Cached(sp) : p = 0
  BY <1>6 DEF P!Cached, Pages
<1>9. ToSet(EmptyRootLeaf.cells) = {}
  BY <1>3 DEF ToSet
<1>10. RowsOf(sp) = {}
  BY <1>6, <1>8, <1>9 DEF RowsOf
<1> QED BY <1>1, <1>2, <1>7, <1>10

\* .btree reads no page.
LEMMA PrintsFromMemory ==
  ASSUME FileOfNodes, Len(file) = 0, NEW pg, NewTree(pg)
  PROVE  LoadPages(pg, Preorder(pg, 0, TABLE_MAX_PAGES)) = pg
<1> DEFINE pages == Preorder(pg, 0, TABLE_MAX_PAGES)
<1>1. Kept(pg) /\ ~SplitSaved
  BY NewFile DEF NewTree
<1>2. PICK S : Shape(pg, S) /\ \A q \in S : pg.pages[q] # Null
  <2>1. CASE Single(pg)
    <3>1. Shape(pg, {0}) /\ pg.pages[0] # Null
      BY <1>1, <2>1, SingleRows DEF Shape
    <3> QED BY <3>1
  <2>2. CASE Forked(pg, 2, 1)
    <3>1. 1 \in Pages /\ 2 \in Pages
      BY <1>1, <2>2, ForkedRows
    <3>2. Shape(pg, {0, 2, 1}) /\ \A q \in {0, 2, 1} : pg.pages[q] # Null
      BY <1>1, <2>2, <3>1 DEF Shape, Forked
    <3> QED BY <3>2
  <2> QED BY <2>1, <2>2 DEF NewTree
<1>3. S \subseteq Pages /\ 0 \in S
  BY <1>2, TreeHasShape
<1>4. pages \in Seq(S)
  <2>1. \A q \in S : Children(P!Seen(pg, q)) \in Seq(S)
    BY <1>1, <1>2, ShapeGoesOn DEF GoesOn
  <2> QED BY <1>3, <2>1, PreorderIn, TableAssumption
<1> HIDE DEF pages
<1>5. Loads(pg, LoadPages(pg, pages), S)
  BY <1>1, <1>3, <1>4, LoadPagesLoads
<1>6. LoadPages(pg, pages) = pg
  BY <1>2, <1>5 DEF Loads
<1> QED BY <1>6 DEF pages

-----------------------------------------------------------------------------
(* The select.                                                             *)

\* table_start is before the first row.
LEMMA StartsBeforeAll ==
  ASSUME FileOfNodes, Len(file) = 0, NEW pg, NewTree(pg), NEW find, find = TableFind(pg, 0)
  PROVE  /\ find.cell = 0
         /\ NumCells(pg.pages[find.page]) = 0 => RowsOf(pg) = {}
         /\ RowsOf(pg) = ToSet(pg.pages[find.page].cells) \cup Following(pg, pg.pages[find.page])
<1> DEFINE leaf == pg.pages[find.page]
<1>0. Kept(pg) /\ ~SplitSaved
  BY NewFile DEF NewTree
<1>1. find.pg = pg /\ LeafInMemory(pg, find.page) /\ find.cell = LeafFind(leaf, 0)
  BY FindInMemory
<1>2. LeafNode(leaf)
  BY <1>1 DEF LeafInMemory
<1> HIDE DEF leaf
<1>a. 0 \in Int
  OBVIOUS
<1>b. /\ find.cell \in 0 .. NumCells(leaf)
      /\ \A i \in 1 .. NumCells(leaf) : leaf.cells[i].key < 0 <=> i <= find.cell
  BY <1>1, <1>2, <1>a, CellIsPlace
<1>c. /\ NumCells(leaf) \in Nat
      /\ \A i \in 1 .. NumCells(leaf) : leaf.cells[i] \in ToSet(leaf.cells)
      /\ \A r \in ToSet(leaf.cells) : r \in Row
  BY <1>2, LeafNodeFacts
<1>4. \A i \in 1 .. NumCells(leaf) : leaf.cells[i].key >= 0
  <2>1. \A r \in Row : r.key \in Nat
    BY RowKeys, KeysAssumption
  <2> QED BY <1>c, <2>1
<1>5. find.cell = 0
  <2>1. CASE find.cell > 0
    <3>1. 1 \in 1 .. NumCells(leaf) /\ 1 <= find.cell
      BY <1>b, <1>c, <2>1
    <3>2. leaf.cells[1].key < 0 /\ leaf.cells[1].key >= 0 /\ leaf.cells[1].key \in Int
      BY <1>b, <1>c, <1>4, <3>1, RowKeys
    <3> QED BY <3>2
  <2> QED BY <1>b, <2>1
<1>6. ToSet(leaf.cells) = {leaf.cells[i] : i \in 1 .. NumCells(leaf)}
  <2>1. DOMAIN leaf.cells = 1 .. NumCells(leaf)
    BY <1>2, LeafNodeFacts
  <2> QED BY <2>1 DEF ToSet
<1>7. /\ NumCells(leaf) = 0 => RowsOf(pg) = {}
      /\ RowsOf(pg) = ToSet(leaf.cells) \cup Following(pg, leaf)
  <2>1. CASE Single(pg)
    <3>1. find.page = 0
      BY <1>0, <2>1, FindSingle
    <3>2. RootLeaf(pg.pages[0]) /\ RowsOf(pg) = ToSet(pg.pages[0].cells)
      BY <1>0, <2>1, SingleRows
    <3>3. leaf.link = 0 /\ RowsOf(pg) = ToSet(leaf.cells)
      BY <3>1, <3>2 DEF RootLeaf, leaf
    <3>4. NumCells(leaf) = 0 => ToSet(leaf.cells) = {}
      BY <1>6
    <3> QED BY <3>3, <3>4 DEF Following
  <2>2. CASE Forked(pg, 2, 1)
    <3>1. /\ 1 \in Pages /\ 2 \in Pages
          /\ RowsOf(pg) = ToSet(pg.pages[2].cells) \cup ToSet(pg.pages[1].cells)
      BY <1>0, <2>2, ForkedRows
    <3>2. RootOver(pg.pages[0], 2, 1) /\ NumCells(pg.pages[2]) > 0 /\ pg.pages[2].link = 1
      BY <2>2 DEF Forked
    <3>3. pg.pages[0].cells[1].key \in Nat
      BY <3>2, RootOverFacts, KeysAssumption
    <3>4. find.page = Chosen(pg, 2, 1, 0)
      BY <1>0, <1>a, <2>2, <3>1, FindForked
    <3>5. leaf = pg.pages[2]
      BY <3>3, <3>4 DEF Chosen, leaf
    <3>6. leaf.link = 1 /\ NumCells(leaf) > 0
      BY <3>2, <3>5
    <3> QED BY <3>1, <3>5, <3>6 DEF Following
  <2> QED BY <2>1, <2>2 DEF NewTree
<1> QED BY <1>5, <1>7 DEF leaf

\* What is still to be printed after a row that was.
LEMMA StillAfter ==
  ASSUME NEW rows, rows \subseteq Row, NEW last \in Row \cup {Null}, NEW row \in StillIn(last, rows)
  PROVE  /\ row \in Row /\ row # Null
         /\ StillIn(row, rows) = {s \in StillIn(last, rows) : s.key > row.key}
<1>1. row \in Row /\ row # Null
  BY NullAssumption DEF StillIn
<1>2. \A r \in Row : r.key \in Int
  BY RowKeys
<1>3. ASSUME NEW s \in rows, s.key > row.key PROVE last = Null \/ s.key > last.key
  <2> SUFFICES ASSUME last # Null PROVE s.key > last.key
    OBVIOUS
  <2>1. row.key > last.key /\ last \in Row /\ s \in Row
    BY DEF StillIn
  <2>2. row.key \in Int /\ last.key \in Int /\ s.key \in Int
    BY <1>1, <1>2, <2>1
  <2> QED BY <1>3, <2>1, <2>2
<1> QED BY <1>1, <1>3 DEF StillIn

LEMMA RowsAreRows ==
  ASSUME FileOfNodes, Len(file) = 0, NEW pg, NewTree(pg)
  PROVE  RowsOf(pg) \subseteq Row
<1>1. CASE Single(pg)
  BY <1>1, SingleRows, LeafNodeFacts DEF NewTree, RootLeaf
<1>2. CASE Forked(pg, 2, 1)
  <2>1. RowsOf(pg) = ToSet(pg.pages[2].cells) \cup ToSet(pg.pages[1].cells)
    BY <1>2, ForkedRows DEF NewTree
  <2>2. LeafNode(pg.pages[1]) /\ LeafNode(pg.pages[2])
    BY <1>2 DEF Forked, LastLeaf
  <2> QED BY <2>1, <2>2, LeafNodeFacts
<1> QED BY <1>1, <1>2 DEF NewTree

\* A cursor goes from c to d past a row: the least of those ahead, and the others
\* are ahead of d.
Passes(pg, c, d, row) ==
  /\ row \in Ahead(pg, c)
  /\ \A s \in Ahead(pg, c) : row.key <= s.key
  /\ {s \in Ahead(pg, c) : s.key > row.key} = Ahead(pg, d)
  /\ ~d.end => OnRow(pg, d)
  /\ d.open = c.open

\* cursor_advance passes the row at the cursor.
LEMMA AdvancePasses ==
  ASSUME NEW pg, NEW c \in [page : Pages, cell : Nat, end : BOOLEAN, open : BOOLEAN],
         ~c.end, OnRow(pg, c)
  PROVE  Passes(pg, c, Advance(c, pg.pages[c.page]), RowAt(pg.pages[c.page], c.cell))
<1> DEFINE node == pg.pages[c.page]
           d == Advance(c, node)
           row == RowAt(node, c.cell)
           n == NumCells(node)
           next == pg.pages[node.link]
           rest == Following(pg, node)
           k == c.cell
<1> SUFFICES Passes(pg, c, d, row)
  OBVIOUS
<1>0. d = Advance(c, node)
  OBVIOUS
<1> HIDE DEF d
<1>1. /\ LeafNode(node) /\ k \in Nat /\ k < n /\ LeafInMemory(pg, c.page)
  BY DEF OnRow, LeafInMemory
<1>2. /\ IsLeaf(node) /\ n \in Nat
      /\ \A i \in 1 .. n : node.cells[i] \in ToSet(node.cells)
      /\ \A r \in ToSet(node.cells) : r.key \in Int
      /\ \A i, j \in 1 .. n : i < j => node.cells[i].key < node.cells[j].key
  BY <1>1, LeafNodeFacts DEF LeafNode, Ordered
<1>3. row = node.cells[k + 1] /\ k + 1 \in 1 .. n
  BY <1>1, <1>2 DEF RowAt
<1>4. node.link # 0 =>
        /\ node.link \in Pages /\ next # Null /\ LeafNode(next) /\ next.link = 0 /\ NumCells(next) > 0
        /\ \A r \in ToSet(node.cells), s \in ToSet(next.cells) : r.key < s.key
  BY <1>1 DEF LeafInMemory
<1>5. Ahead(pg, c) = {node.cells[i] : i \in k + 1 .. n} \cup rest
  BY DEF Ahead
<1>6. node.link # 0 => /\ \A s \in ToSet(next.cells) : s.key \in Int
                       /\ ToSet(next.cells) = {next.cells[i] : i \in 1 .. NumCells(next)}
                       /\ NumCells(next) \in Nat
  <2> SUFFICES ASSUME node.link # 0
               PROVE  /\ \A s \in ToSet(next.cells) : s.key \in Int
                      /\ ToSet(next.cells) = {next.cells[i] : i \in 1 .. NumCells(next)}
                      /\ NumCells(next) \in Nat
    OBVIOUS
  <2>1. LeafNode(next)
    BY <1>4
  <2> HIDE DEF next
  <2>2. /\ \A s \in ToSet(next.cells) : s.key \in Int
        /\ next.cells \in Seq(Row) /\ NumCells(next) = Len(next.cells) /\ NumCells(next) \in Nat
    BY <2>1, LeafNodeFacts
  <2>3. DOMAIN next.cells = 1 .. NumCells(next)
    BY <2>2
  <2> QED BY <2>2, <2>3 DEF ToSet
<1> HIDE DEF n, next
<1>7. \A s \in rest : s.key \in Int /\ \A r \in ToSet(node.cells) : r.key < s.key
  BY <1>4, <1>6 DEF Following, next
<1> HIDE DEF rest, k, row
<1>8. \A i \in k + 1 .. n : i \in 1 .. n /\ (i = k + 1 \/ k + 1 < i)
  BY <1>1, <1>2
<1>9. row \in Ahead(pg, c) /\ row \in ToSet(node.cells) /\ row.key \in Int
  BY <1>1, <1>2, <1>3, <1>5
<1>10. \A s \in Ahead(pg, c) : row.key <= s.key
  <2>1. ASSUME NEW i \in k + 1 .. n PROVE row.key <= node.cells[i].key
    BY <1>2, <1>3, <1>8
  <2> QED BY <1>5, <1>7, <1>9, <2>1
<1>11. {s \in Ahead(pg, c) : s.key > row.key} = {node.cells[i] : i \in k + 2 .. n} \cup rest
  <2>1. ASSUME NEW i \in k + 1 .. n, node.cells[i].key > row.key PROVE i \in k + 2 .. n
    <3>1. i # k + 1
      BY <1>3, <1>9, <2>1
    <3> QED BY <1>1, <1>2, <3>1
  <2>2. ASSUME NEW i \in k + 2 .. n PROVE i \in k + 1 .. n /\ node.cells[i].key > row.key
    <3>1. i \in 1 .. n /\ k + 1 < i /\ i \in k + 1 .. n
      BY <1>1, <1>2
    <3>2. node.cells[k + 1].key < node.cells[i].key /\ node.cells[i].key \in Int
      BY <1>2, <1>3, <3>1
    <3> QED BY <1>3, <1>9, <3>1, <3>2
  <2>3. \A s \in rest : s.key > row.key
    BY <1>7, <1>9
  <2> QED BY <1>5, <2>1, <2>2, <2>3
<1>12. CASE k + 1 < n
  <2>1. d = [c EXCEPT !.cell = @ + 1]
    BY <1>0, <1>12 DEF Advance, n, k
  <2>2. d.page = c.page /\ d.cell = k + 1 /\ d.end = c.end /\ d.open = c.open
    BY <2>1 DEF k
  <2>3. Ahead(pg, d) = {node.cells[i] : i \in k + 2 .. n} \cup rest
    <3>1. Ahead(pg, d) = {node.cells[i] : i \in d.cell + 1 .. n} \cup rest
      BY <2>2 DEF Ahead, n, rest
    <3>2. d.cell + 1 = k + 2
      BY <1>1, <2>2
    <3> QED BY <3>1, <3>2
  <2>4. OnRow(pg, d)
    BY <1>1, <1>12, <2>2 DEF OnRow, n
  <2> QED BY <1>9, <1>10, <1>11, <2>2, <2>3, <2>4 DEF Passes
<1>13. CASE ~(k + 1 < n) /\ node.link = 0
  <2>1. d = [c EXCEPT !.cell = @ + 1, !.end = TRUE]
    BY <1>0, <1>13 DEF Advance, n, k
  <2>2. d.end /\ d.open = c.open
    BY <2>1
  <2>3. rest = {} /\ k + 2 .. n = {}
    BY <1>1, <1>2, <1>13 DEF rest, Following
  <2>4. Ahead(pg, d) = {}
    BY <2>2 DEF Ahead
  <2> QED BY <1>9, <1>10, <1>11, <2>2, <2>3, <2>4 DEF Passes
<1>14. CASE ~(k + 1 < n) /\ node.link # 0
  <2>1. d = [c EXCEPT !.page = node.link, !.cell = 0]
    BY <1>0, <1>14 DEF Advance, n, k
  <2>2. d.page = node.link /\ d.cell = 0 /\ d.end = c.end /\ d.open = c.open
    BY <2>1
  <2>3. rest = ToSet(next.cells) /\ k + 2 .. n = {}
    BY <1>1, <1>2, <1>14 DEF rest, Following, next
  <2>4. next.link = 0 /\ pg.pages[d.page] = next
    BY <1>4, <1>14, <2>2 DEF next
  <2>5. Ahead(pg, d) = {next.cells[i] : i \in d.cell + 1 .. NumCells(next)}
    BY <2>2, <2>4 DEF Ahead, Following
  <2>6. Ahead(pg, d) = ToSet(next.cells)
    BY <1>6, <1>14, <2>2, <2>5
  <2>7. LeafInMemory(pg, d.page) /\ d.cell < NumCells(pg.pages[d.page])
    BY <1>4, <1>6, <1>14, <2>2, <2>4 DEF LeafInMemory
  <2>8. OnRow(pg, d)
    BY <2>2, <2>7 DEF OnRow
  <2> QED BY <1>9, <1>10, <1>11, <2>2, <2>3, <2>6, <2>8 DEF Passes
<1> QED BY <1>12, <1>13, <1>14

-----------------------------------------------------------------------------
(* Steps, as those of the table of rows.                                   *)

\* The variables of RowTable.
TableRows == IF pc = "open" THEN RowsOf(pager) ELSE {}
TableMode == IF pc # "open" THEN "closed" ELSE IF cursor.open THEN "selecting" ELSE "ready"

\* The same in the instance.
LEMMA TableIs ==
  /\ Table!Init <=> TableRows = {} /\ TableMode = "closed" /\ printed = Null /\ result = "none"
  /\ Table!Start <=> /\ TableMode = "closed" /\ TableMode' = "ready"
                     /\ TableRows' = TableRows /\ printed' = printed /\ result' = result
  /\ Table!Select <=> /\ TableMode = "ready" /\ TableMode' = "selecting"
                      /\ TableRows' = TableRows /\ printed' = printed /\ result' = result
  /\ Table!Finish <=> /\ TableMode = "selecting" /\ StillIn(printed, TableRows) = {}
                      /\ TableMode' = "ready" /\ printed' = Null /\ result' = "executed"
                      /\ TableRows' = TableRows
  /\ Table!PrintRow <=> /\ TableMode = "selecting"
                        /\ \E r \in StillIn(printed, TableRows) :
                             /\ \A s \in StillIn(printed, TableRows) : r.key <= s.key
                             /\ printed' = r
                        /\ TableRows' = TableRows /\ TableMode' = TableMode /\ result' = result
  /\ Table!Stop <=> /\ TableMode # "closed" /\ TableMode' = "closed" /\ TableRows' = {}
                    /\ printed' = Null /\ result' = "none"
  /\ \A row : Table!Insert(row) <=>
       /\ TableMode = "ready"
       /\ IF \E r \in TableRows : r.key = row.key
          THEN TableRows' = TableRows /\ result' = "duplicate"
          ELSE TableRows' = TableRows \cup {row} /\ result' = "executed"
       /\ TableMode' = TableMode /\ printed' = printed
  /\ UNCHANGED Table!tableVars <=> /\ TableRows' = TableRows /\ TableMode' = TableMode
                                   /\ printed' = printed /\ result' = result
<1>1. RowsInMemory = RowsOf(pager)
  BY DEF RowsInMemory, RowsOf
<1>2. RowsInMemory' = RowsOf(pager')
  BY DEF RowsInMemory, RowsOf
<1> QED BY <1>1, <1>2 DEF TableRows, TableMode, StillIn, Table!Init, Table!Start, Table!Select,
             Table!Finish, Table!PrintRow, Table!Stop, Table!Insert, Table!Unprinted, Table!tableVars

\* An open session, and where it has come to.
LEMMA OpenTable ==
  ASSUME SessionTable, pc = "open"
  PROVE  /\ SessionInv /\ FileOfNodes /\ Len(file) = 0 /\ NewTree(pager)
         /\ TableRows = RowsOf(pager) /\ TableRows \subseteq Row
         /\ TableMode = IF cursor.open THEN "selecting" ELSE "ready"
         /\ ~cursor.open => printed = Null
         /\ printed \in Row \cup {Null}
<1>1. SessionInv /\ Len(file) = 0
  BY DEF SessionTable, SessionInv
<1>2. FileOfNodes /\ NewTree(pager) /\ CursorInv /\ printed \in Row \cup {Null}
  BY <1>1, NewTreeIn, SessionFacts
<1> QED BY <1>1, <1>2, RowsAreRows DEF TableRows, TableMode, CursorInv

\* The session ends.
LEMMA EndSeen ==
  ASSUME SessionTable, DatabaseInv', pc = "open", pc' # "open", printed' = Null, result' = "none"
  PROVE  Table!Next /\ SessionTable'
<1>1. ~cursor'.open
  BY DEF DatabaseInv, CursorInv
<1>2. SessionTable'
  BY <1>1 DEF SessionTable
<1>3. Table!Stop
  BY TableIs DEF TableRows, TableMode
<1> QED BY <1>2, <1>3 DEF Table!Next

\* It is at its prompt after a step.
LEMMA AtPrompt ==
  ASSUME DatabaseInv', pc' = "open", Len(file') = 0, ~cursor'.open
  PROVE  SessionTable' /\ TableRows' = RowsOf(pager') /\ TableMode' = "ready"
BY DEF SessionTable, TableRows, TableMode

LEMMA OpenSeen ==
  ASSUME SessionTable, DatabaseInv', MaxFilePages = 0, Open
  PROVE  Table!Next /\ SessionTable'
<1>1. /\ pc = "down" /\ pc' = "open" /\ cursor' = cursor /\ printed' = printed /\ result' = result
  BY DEF Open, P!Open, statementVars
<1>2. ~cursor.open /\ DatabaseInv
  BY <1>1 DEF SessionTable, DatabaseInv, CursorInv
<1>3. Len(file') = 0 /\ RowsOf(pager') = {}
  BY <1>2, OpensEmpty
<1>4. SessionTable' /\ TableRows' = {} /\ TableMode' = "ready"
  BY <1>1, <1>2, <1>3, AtPrompt
<1>5. TableRows = {} /\ TableMode = "closed"
  BY <1>1 DEF TableRows, TableMode
<1>6. Table!Start
  BY <1>1, <1>4, <1>5, TableIs
<1> QED BY <1>4, <1>6 DEF Table!Next

LEMMA InsertSeen ==
  ASSUME SessionTable, DatabaseInv', NEW row \in Row, Insert(row)
  PROVE  Table!Next /\ SessionTable'
<1> DEFINE find == TableFind(pager, row.key)
           leaf == find.pg.pages[find.page]
<1>1. pc = "open" /\ ~cursor.open /\ row.key \in Int /\ find = TableFind(pager, row.key)
  BY RowKeys DEF Insert, Ready
<1>2. /\ FileOfNodes /\ Len(file) = 0 /\ NewTree(pager) /\ SessionInv /\ Kept(pager)
      /\ TableRows = RowsOf(pager) /\ TableMode = "ready"
  BY <1>1, OpenTable DEF NewTree
<1>3. \/ InsertEndless(find) \/ InsertDuplicate(find, row) \/ InsertInLeaf(find, row)
      \/ InsertSplittingRoot(find, row) \/ InsertOutOfPages(find, row)
      \/ InsertSplittingLeaf(find, row)
  BY DEF Insert
<1> HIDE DEF find
<1>4. /\ find.pg = pager /\ ~find.endless
      /\ KeyTaken(leaf, find.cell, row.key) <=> \E r \in RowsOf(pager) : r.key = row.key
  BY <1>1, <1>2, FindInMemory
<1>5. ASSUME NEW pg, Exits(pg) PROVE Table!Next /\ SessionTable'
  <2>1. pc' # "open" /\ printed' = Null /\ result' = "none"
    BY <1>5 DEF Exits, EndsStatement
  <2> QED BY <1>1, <2>1, EndSeen
<1>6. ASSUME NEW pg, NEW r, Returns(pg, r),
             IF \E s \in RowsOf(pager) : s.key = row.key
             THEN RowsOf(pg) = RowsOf(pager) /\ r = "duplicate"
             ELSE RowsOf(pg) = RowsOf(pager) \cup {row} /\ r = "executed"
      PROVE  Table!Next /\ SessionTable'
  <2>1. /\ pager' = pg /\ result' = r /\ pc' = "open" /\ Len(file') = 0 /\ ~cursor'.open
        /\ printed' = printed
    BY <1>1, <1>2, <1>6 DEF Returns
  <2>2. SessionTable' /\ TableRows' = RowsOf(pg) /\ TableMode' = "ready"
    BY <2>1, AtPrompt
  <2>3. Table!Insert(row)
    BY <1>2, <1>6, <2>1, <2>2, TableIs
  <2>4. row \in Table!Row
    BY DEF Table!Row, Row
  <2> QED BY <2>2, <2>3, <2>4 DEF Table!Next
<1>7. CASE InsertEndless(find) \/ InsertOutOfPages(find, row) \/ InsertSplittingLeaf(find, row)
  BY <1>5, <1>7 DEF InsertEndless, InsertOutOfPages, InsertSplittingLeaf
<1>8. CASE InsertDuplicate(find, row)
  <2>1. KeyTaken(leaf, find.cell, row.key) /\ Returns(find.pg, "duplicate")
    BY <1>8 DEF InsertDuplicate
  <2> QED BY <1>4, <1>6, <2>1
<1>9. CASE InsertInLeaf(find, row)
  <2> DEFINE pg2 == P!StorePage(find.pg, find.page, LeafInsert(leaf, find.cell, row))
  <2>1. Inserts(find, row, FALSE) /\ Returns(pg2, "executed")
    BY <1>9 DEF InsertInLeaf
  <2>2. InsertsInto(pager, find, row, pg2)
    BY <1>1, <2>1 DEF InsertsInto
  <2> HIDE DEF pg2
  <2>3. RowsOf(pg2) = RowsOf(pager) \cup {row}
    BY <1>2, <2>2, InsertAddsRow
  <2>4. ~KeyTaken(leaf, find.cell, row.key)
    BY <2>1, Zenon DEF Inserts
  <2> QED BY <1>4, <1>6, <2>1, <2>3, <2>4
<1>10. CASE InsertSplittingRoot(find, row)
  <2> DEFINE split == SplitLeaf(find.pg, find.page, find.cell, row)
             pg2 == CreateNewRoot(split, P!UnusedPageNum(find.pg))
  <2>1. /\ Inserts(find, row, TRUE) /\ leaf.root /\ RoomForPage(find.pg)
        /\ RoomForPage(split) /\ Returns(pg2, "executed")
    BY <1>10 DEF InsertSplittingRoot
  <2> HIDE DEF split, pg2
  <2>2. SplitsRoot(pager, find, row, pg2)
    BY <1>1, <2>1 DEF SplitsRoot, split, pg2
  <2>3. Single(pager)
    BY <1>1, <1>2, <1>4, <2>1, RootIsSingle
  <2>4. RowsOf(pg2) = RowsOf(pager) \cup {row}
    BY <1>2, <2>2, <2>3, SplitAddsRow
  <2>5. ~KeyTaken(leaf, find.cell, row.key)
    BY <2>1, Zenon DEF Inserts
  <2> QED BY <1>4, <1>6, <2>1, <2>4, <2>5
<1> QED BY <1>3, <1>7, <1>8, <1>9, <1>10

\* table_start, before the first row.
LEMMA SelectStartSeen ==
  ASSUME SessionTable, DatabaseInv', SelectStart
  PROVE  Table!Next /\ SessionTable'
<1> DEFINE find == TableFind(pager, 0)
           leaf == pager.pages[find.page]
           n == NumCells(leaf)
           rest == Following(pager, leaf)
<1>0. pc = "open" /\ ~cursor.open
  BY DEF SelectStart, Ready
<1>1. /\ FileOfNodes /\ Len(file) = 0 /\ NewTree(pager)
      /\ TableRows = RowsOf(pager) /\ TableMode = "ready" /\ printed = Null
  BY <1>0, OpenTable
<1>2. 0 \in Int /\ find = TableFind(pager, 0)
  OBVIOUS
<1>3. /\ pager' = find.pg /\ file' = file /\ pc' = pc /\ printed' = printed /\ result' = result
      /\ cursor' = [page |-> find.page, cell |-> find.cell, open |-> TRUE,
                    end |-> NumCells(find.pg.pages[find.page]) = 0]
  BY DEF SelectStart
<1> HIDE DEF find
<1>4. find.pg = pager /\ LeafInMemory(pager, find.page)
  BY <1>1, <1>2, FindInMemory
<1>5. /\ find.cell = 0 /\ (n = 0 => RowsOf(pager) = {})
      /\ RowsOf(pager) = ToSet(leaf.cells) \cup rest
  BY <1>1, <1>2, StartsBeforeAll
<1>a. LeafNode(leaf)
  BY <1>4 DEF LeafInMemory
<1> HIDE DEF leaf
<1>6. n \in Nat /\ ToSet(leaf.cells) = {leaf.cells[i] : i \in 1 .. n}
  <2>1. n \in Nat /\ DOMAIN leaf.cells = 1 .. n
    BY <1>a, LeafNodeFacts
  <2> QED BY <2>1 DEF ToSet
<1>7. pager' = pager /\ cursor' = [page |-> find.page, cell |-> 0, open |-> TRUE, end |-> n = 0]
  BY <1>3, <1>4, <1>5 DEF leaf
<1> HIDE DEF n, rest
<1>8. Ahead(pager, cursor') = RowsOf(pager)
  <2>1. CASE n = 0
    BY <1>5, <1>7, <2>1 DEF Ahead
  <2>2. CASE n # 0
    <3>1. cursor'.page = find.page /\ cursor'.cell = 0 /\ cursor'.end = FALSE
      BY <1>7, <2>2
    <3>2. Ahead(pager, cursor') = {leaf.cells[i] : i \in 0 + 1 .. n} \cup rest
      BY <3>1 DEF Ahead, leaf, n, rest
    <3> QED BY <1>5, <1>6, <3>2
  <2> QED BY <2>1, <2>2
<1>9. ~cursor'.end => OnRow(pager, cursor')
  <2>1. cursor'.page = find.page /\ cursor'.cell = 0
    BY <1>7
  <2>2. CASE n = 0
    <3>1. cursor'.end = TRUE
      BY <1>7, <2>2
    <3> QED BY <3>1
  <2>3. CASE n # 0
    <3>1. cursor'.cell < n
      BY <1>6, <2>1, <2>3
    <3> QED BY <1>4, <2>1, <3>1 DEF OnRow, n, leaf
  <2> QED BY <2>2, <2>3
<1>10. StillIn(Null, RowsOf(pager)) = RowsOf(pager)
  BY DEF StillIn
<1>11. SessionTable'
  BY <1>0, <1>1, <1>3, <1>7, <1>8, <1>9, <1>10 DEF SessionTable
<1>12. TableRows' = TableRows /\ TableMode' = "selecting"
  BY <1>0, <1>1, <1>3, <1>7 DEF TableRows, TableMode
<1>13. Table!Select
  BY <1>1, <1>3, <1>12, TableIs
<1> QED BY <1>11, <1>13 DEF Table!Next

LEMMA SelectRowSeen ==
  ASSUME SessionTable, DatabaseInv', SelectRow
  PROVE  Table!Next /\ SessionTable'
<1> DEFINE node == pager.pages[cursor.page]
<1>1. /\ pc = "open" /\ cursor.open /\ ~cursor.end
      /\ pager' = P!LoadPage(pager, cursor.page)
      /\ printed' = RowAt(pager'.pages[cursor.page], cursor.cell)
      /\ cursor' = Advance(cursor, pager'.pages[cursor.page])
      /\ file' = file /\ pc' = pc /\ result' = result
  BY DEF SelectRow
<1>2. /\ SessionInv /\ Len(file) = 0 /\ TableRows = RowsOf(pager) /\ TableRows \subseteq Row
      /\ TableMode = "selecting" /\ printed \in Row \cup {Null}
  BY <1>1, OpenTable
<1>3. /\ StillIn(printed, RowsOf(pager)) = Ahead(pager, cursor) /\ OnRow(pager, cursor)
      /\ cursor \in [page : Pages, cell : Nat, end : BOOLEAN, open : BOOLEAN]
  BY <1>1 DEF SessionTable, DatabaseInv, CursorInv
<1>4. pager' = pager
  BY <1>1, <1>3 DEF P!LoadPage, OnRow, LeafInMemory
<1>5. printed' = RowAt(node, cursor.cell) /\ cursor' = Advance(cursor, node)
  BY <1>1, <1>4
<1>a. Passes(pager, cursor, cursor', printed')
  <2>1. Passes(pager, cursor, Advance(cursor, node), RowAt(node, cursor.cell))
    BY <1>1, <1>3, AdvancePasses
  <2> QED BY <1>5, <2>1
<1>6. /\ printed' \in Ahead(pager, cursor)
      /\ \A s \in Ahead(pager, cursor) : printed'.key <= s.key
      /\ {s \in Ahead(pager, cursor) : s.key > printed'.key} = Ahead(pager, cursor')
      /\ ~cursor'.end => OnRow(pager, cursor')
      /\ cursor'.open = cursor.open
  BY <1>a DEF Passes
<1>7. StillIn(printed', RowsOf(pager)) = Ahead(pager, cursor')
  <2>1. ASSUME NEW row \in StillIn(printed, RowsOf(pager))
        PROVE  StillIn(row, RowsOf(pager)) = {s \in StillIn(printed, RowsOf(pager)) : s.key > row.key}
    BY <1>2, StillAfter
  <2> QED BY <1>3, <1>6, <2>1
<1>8. SessionTable'
  BY <1>1, <1>2, <1>4, <1>6, <1>7 DEF SessionTable
<1>9. TableRows' = TableRows /\ TableMode' = TableMode
  BY <1>1, <1>4, <1>6 DEF TableRows, TableMode
<1>10. Table!PrintRow
  BY <1>1, <1>2, <1>3, <1>6, <1>9, TableIs
<1> QED BY <1>8, <1>10 DEF Table!Next

LEMMA SelectEndSeen ==
  ASSUME SessionTable, DatabaseInv', SelectEnd
  PROVE  Table!Next /\ SessionTable'
<1>1. /\ pc = "open" /\ cursor.open /\ cursor.end /\ cursor' = NoCursor /\ printed' = Null
      /\ result' = "executed" /\ file' = file /\ pager' = pager /\ pc' = pc
  BY DEF SelectEnd
<1>2. Len(file) = 0 /\ TableRows = RowsOf(pager) /\ TableMode = "selecting"
  BY <1>1, OpenTable
<1>3. StillIn(printed, RowsOf(pager)) = {}
  BY <1>1 DEF SessionTable, Ahead
<1>4. ~cursor'.open
  BY <1>1 DEF NoCursor
<1>5. SessionTable' /\ TableRows' = RowsOf(pager') /\ TableMode' = "ready"
  BY <1>1, <1>2, <1>4, AtPrompt
<1>6. Table!Finish
  BY <1>1, <1>2, <1>3, <1>5, TableIs
<1> QED BY <1>5, <1>6 DEF Table!Next

\* .btree changes nothing, or overflows the stack.
LEMMA PrintTreeSeen ==
  ASSUME SessionTable, DatabaseInv', PrintTree
  PROVE  (Table!Next \/ UNCHANGED Table!tableVars) /\ SessionTable'
<1> DEFINE pages == Preorder(pager, 0, TABLE_MAX_PAGES)
           loaded == LoadPages(pager, pages)
<1>1. pc = "open" /\ ~cursor.open
  BY DEF PrintTree, Ready
<1>2. IF EndlessTree(pager) THEN Exits(loaded)
      ELSE pager' = loaded /\ UNCHANGED <<file, pc, flushing>> /\ UNCHANGED statementVars
  BY Zenon DEF PrintTree
<1>3. CASE EndlessTree(pager)
  <2>1. pc' # "open" /\ printed' = Null /\ result' = "none"
    BY <1>2, <1>3 DEF Exits, EndsStatement
  <2> QED BY <1>1, <2>1, EndSeen
<1>4. CASE ~EndlessTree(pager)
  <2>1. /\ FileOfNodes /\ Len(file) = 0 /\ NewTree(pager) /\ TableRows = RowsOf(pager)
        /\ TableMode = "ready"
    BY <1>1, OpenTable
  <2>2. /\ pager' = loaded /\ file' = file /\ pc' = "open" /\ cursor' = cursor
        /\ printed' = printed /\ result' = result
    BY <1>1, <1>2, <1>4 DEF statementVars
  <2>3. loaded = pager
    BY <2>1, PrintsFromMemory
  <2>4. SessionTable' /\ TableRows' = RowsOf(pager') /\ TableMode' = "ready"
    BY <1>1, <2>1, <2>2, AtPrompt
  <2>5. UNCHANGED Table!tableVars
    BY <2>1, <2>2, <2>3, <2>4, TableIs
  <2> QED BY <2>4, <2>5
<1> QED BY <1>3, <1>4

\* Once db_close has begun, or with no process, there is no table.
LEMMA ClosedStutters ==
  ASSUME SessionTable, DatabaseInv', pc # "open", pc' # "open", printed' = Null, result' = "none"
  PROVE  UNCHANGED Table!tableVars /\ SessionTable'
<1>1. printed = Null /\ result = "none" /\ ~cursor'.open
  BY DEF SessionTable, DatabaseInv, CursorInv
<1>2. TableRows' = TableRows /\ TableMode' = TableMode
  BY DEF TableRows, TableMode
<1>3. SessionTable'
  BY <1>1 DEF SessionTable
<1> QED BY <1>1, <1>2, <1>3, TableIs

LEMMA CloseSeen ==
  ASSUME SessionTable, DatabaseInv', StartClose \/ CloseStep \/ Kill
  PROVE  (Table!Next \/ UNCHANGED Table!tableVars) /\ SessionTable'
<1>1. printed \in Row \cup {Null} /\ DatabaseInv
  BY DEF SessionTable, DatabaseInv
<1>2. CASE StartClose
  <2>1. pc = "open" /\ pc' # "open" /\ printed' = Null /\ result' = "none"
    BY <1>2 DEF StartClose, P!StartClose, EndsStatement, Ready
  <2> QED BY <2>1, EndSeen
<1>3. CASE CloseStep
  <2>1. /\ pc = "closing" /\ pc' # "open" /\ printed' = printed /\ result' = result
    BY <1>3 DEF CloseStep, P!CloseStep, P!FlushPage, P!SkipPage, P!OverrunExit, P!FinishClose,
                P!Ends, statementVars
  <2>2. printed = Null /\ result = "none"
    BY <1>1, <2>1 DEF SessionTable, DatabaseInv, CursorInv
  <2> QED BY <2>1, <2>2, ClosedStutters
<1>4. CASE Kill
  <2>1. pc # "down" /\ pc' = "down" /\ printed' = Null /\ result' = "none"
    BY <1>4 DEF Kill, P!Kill, P!Ends, EndsStatement
  <2> QED BY <2>1, EndSeen, ClosedStutters
<1> QED BY <1>2, <1>3, <1>4

LEMMA NothingSeen ==
  ASSUME SessionTable, UNCHANGED vars
  PROVE  UNCHANGED Table!tableVars /\ SessionTable'
<1>1. DatabaseInv'
  BY DatabaseInvStep DEF SessionTable
<1>2. /\ file' = file /\ pager' = pager /\ pc' = pc /\ cursor' = cursor /\ printed' = printed
      /\ result' = result
  BY DEF vars
<1>3. TableRows' = TableRows /\ TableMode' = TableMode
  BY <1>2 DEF TableRows, TableMode
<1>4. SessionTable'
  BY <1>1, <1>2 DEF SessionTable, OnRow, LeafInMemory, Ahead, Following
<1> QED BY <1>2, <1>3, <1>4, TableIs

LEMMA NextIsTable ==
  ASSUME MaxFilePages = 0
  PROVE  SessionTable /\ [Next]_vars => [Table!Next]_(Table!tableVars) /\ SessionTable'
<1> SUFFICES ASSUME SessionTable, [Next]_vars
             PROVE  (Table!Next \/ UNCHANGED Table!tableVars) /\ SessionTable'
  OBVIOUS
<1>1. DatabaseInv'
  BY DatabaseInvStep DEF SessionTable
<1>2. CASE Open
  BY <1>1, <1>2, OpenSeen
<1>3. ASSUME NEW row \in Entered, Insert(row) PROVE Table!Next /\ SessionTable'
  <2>1. row \in Row
    BY EnteredAssumption DEF Row
  <2> QED BY <1>1, <1>3, <2>1, InsertSeen
<1>4. CASE SelectStart
  BY <1>1, <1>4, SelectStartSeen
<1>5. CASE SelectEndless
  <2>1. pc = "open" /\ pc' # "open" /\ printed' = Null /\ result' = "none"
    BY <1>5 DEF SelectEndless, Ready, Exits, EndsStatement
  <2> QED BY <1>1, <2>1, EndSeen
<1>6. CASE SelectStep
  BY <1>1, <1>6, SelectRowSeen, SelectEndSeen DEF SelectStep
<1>7. CASE PrintTree
  BY <1>1, <1>7, PrintTreeSeen
<1>8. CASE StartClose \/ CloseStep \/ Kill
  BY <1>1, <1>8, CloseSeen
<1>9. CASE UNCHANGED vars
  BY <1>9, NothingSeen
<1> QED BY <1>2, <1>3, <1>4, <1>5, <1>6, <1>7, <1>8, <1>9 DEF Next

LEMMA InitIsTable == Init => Table!Init /\ SessionTable
<1> SUFFICES ASSUME Init PROVE Table!Init /\ SessionTable
  OBVIOUS
<1>1. DatabaseInv
  BY DatabaseInvInit
<1>2. pc = "down" /\ cursor = NoCursor /\ printed = Null /\ result = "none"
  BY DEF Init, P!Init
<1>3. ~cursor.open
  BY <1>2 DEF NoCursor
<1>4. TableRows = {} /\ TableMode = "closed"
  BY <1>2 DEF TableRows, TableMode
<1> QED BY <1>1, <1>2, <1>3, <1>4, TableIs DEF SessionTable

\* A session on a new file is a table of rows: an insert stores its row or
\* reports the key as taken, through the split of the root, and a select
\* prints every row once, in the order of the keys. With MaxFilePages = 0 every
\* session begins on an empty file; on another one a session finds rows that it
\* did not insert.
THEOREM NewFileIsRowTable == MaxFilePages = 0 => (Spec => ImplementsRowTable)
<1> SUFFICES ASSUME MaxFilePages = 0 PROVE Spec => ImplementsRowTable
  OBVIOUS
<1>1. SessionTable /\ [Next]_vars => [Table!Next]_(Table!tableVars) /\ SessionTable'
  BY NextIsTable
<1> QED BY <1>1, InitIsTable, PTL DEF Spec, ImplementsRowTable, Table!Spec

=============================================================================
