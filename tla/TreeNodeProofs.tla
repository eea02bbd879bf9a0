--------------------------- MODULE TreeNodeProofs ---------------------------
(***************************************************************************)
(* What the searches and inserts of one node compute, for nodes with any   *)
(* number of cells. The searches are the loops of leaf_node_find and       *)
(* internal_node_find_child; that they end at the right cell is what every *)
(* lookup, insert and split of the tree relies on.                         *)
(***************************************************************************)
EXTENDS TreeNode, SequenceTheorems, WellFoundedInduction, TLAPS

\* A node's cells are of type T and in the order of their keys.
Ordered(node, T) ==
  /\ node.cells \in Seq(T)
  /\ \A t \in T : t.key \in Int
  /\ \A i, j \in 1 .. Len(node.cells) : i < j => node.cells[i].key < node.cells[j].key

\* Where key is in a node, or would be: the number of cells with smaller keys.
IsPlace(node, key, p) ==
  /\ p \in 0 .. NumCells(node)
  /\ \A i \in 1 .. NumCells(node) : node.cells[i].key < key <=> i <= p

Around(w, p) == w.left <= p /\ p <= w.right
Width(w) == w.right - w.left
Clamp(w, p) == IF p < w.left THEN w.left ELSE IF p > w.right THEN w.right ELSE p

-----------------------------------------------------------------------------
(* Least numbers.                                                          *)

\* A set of naturals that is not empty has a least element.
LEMMA Least ==
  ASSUME NEW S, S \subseteq Nat, S # {}
  PROVE  \E x \in S : \A y \in S : x <= y
<1> DEFINE R == OpToRel(<, Nat)
<1>1. IsWellFoundedOn(R, Nat)
  BY NatLessThanWellFounded
<1>2. \A x, y \in Nat : x < y => <<x, y>> \in R
  BY DEF OpToRel
<1> HIDE DEF R
<1>3. PICK x \in S : \A y \in S : ~ (<<y, x>> \in R)
  BY <1>1, WFMin
<1>4. ASSUME NEW y \in S PROVE x <= y
  <2>1. x \in Nat /\ y \in Nat
    OBVIOUS
  <2>2. ~ (y < x)
    BY <1>2, <1>3, <2>1
  <2> QED BY <2>1, <2>2
<1> QED BY <1>4

-----------------------------------------------------------------------------
(* The searches.                                                           *)

\* Every key has a place in a node in order.
LEMMA PlaceExists ==
  ASSUME NEW T, NEW node, Ordered(node, T), NEW key \in Int
  PROVE  \E p : IsPlace(node, key, p)
<1> DEFINE n == NumCells(node)
           S == {i \in 0 .. n : i = n \/ (i < n /\ node.cells[i + 1].key >= key)}
<1>1. n \in Nat /\ n = Len(node.cells) /\ \A i \in 1 .. n : node.cells[i].key \in Int
  BY DEF Ordered, NumCells
<1>2. PICK p \in S : \A y \in S : p <= y
  <2>1. n \in S /\ S \subseteq Nat
    BY <1>1
  <2> QED BY <2>1, Least
<1>3. ASSUME NEW i \in 1 .. n, i <= p PROVE node.cells[i].key < key
  <2>1. i - 1 \in 0 .. n /\ i - 1 < n /\ i - 1 \notin S
    BY <1>1, <1>2, <1>3
  <2> QED BY <1>1, <2>1
<1>4. ASSUME NEW i \in 1 .. n, i > p PROVE node.cells[i].key >= key
  <2>1. p < n /\ p + 1 \in 1 .. n /\ node.cells[p + 1].key >= key
    BY <1>1, <1>2, <1>4
  <2>2. p + 1 = i \/ node.cells[p + 1].key < node.cells[i].key
    BY <1>1, <1>2, <1>4, <2>1 DEF Ordered
  <2> QED BY <1>1, <2>1, <2>2
<1>5. p \in 0 .. n
  BY <1>2
<1>6. \A i \in 1 .. n : node.cells[i].key < key <=> i <= p
  BY <1>1, <1>3, <1>4, <1>5
<1> QED BY <1>5, <1>6 DEF IsPlace

\* A loop whose every pass ends at p or goes on in a smaller window around p
\* ends at p.
LEMMA Narrowing ==
  ASSUME NEW node, NumCells(node) \in Nat, NEW f, NEW p \in 0 .. NumCells(node),
         \A w \in Windows(node) : Around(w, p) =>
           \/ f[w] = p
           \/ \E v \in Windows(node) : f[w] = f[v] /\ Around(v, p) /\ Width(v) < Width(w)
  PROVE  f[Window(0, NumCells(node))] = p
<1> DEFINE W == Windows(node)
           wrong == {d \in Nat : \E w \in W : Around(w, p) /\ Width(w) = d /\ f[w] # p}
<1>1. \A w \in W : Width(w) \in Nat
  BY DEF Windows, Width
<1>2. Window(0, NumCells(node)) \in W /\ Around(Window(0, NumCells(node)), p)
  BY DEF Windows, Window, Around
<1>3. wrong = {}
  <2> SUFFICES ASSUME wrong # {} PROVE FALSE
    OBVIOUS
  <2>1. PICK d \in wrong : \A e \in wrong : d <= e
    <3>1. wrong \subseteq Nat
      OBVIOUS
    <3> HIDE DEF wrong
    <3> QED BY <3>1, Least
  <2>2. PICK w \in W : Around(w, p) /\ Width(w) = d /\ f[w] # p
    BY <2>1
  <2>3. PICK v \in W : f[w] = f[v] /\ Around(v, p) /\ Width(v) < Width(w)
    BY <2>2
  <2>4. Width(v) \in wrong
    BY <1>1, <2>2, <2>3
  <2> QED BY <1>1, <2>1, <2>2, <2>3, <2>4
<1>4. \A w \in W : Around(w, p) => f[w] = p
  BY <1>1, <1>3
<1> QED BY <1>2, <1>4

\* Where a window is split: both halves are smaller windows.
LEMMA Halves ==
  ASSUME NEW node, NumCells(node) \in Nat, NEW w \in Windows(node), w.left # w.right
  PROVE  /\ w.left \in Nat /\ w.right \in Nat /\ w.left < w.right /\ w.right <= NumCells(node)
         /\ Mid(w) \in w.left .. w.right - 1
         /\ Window(w.left, Mid(w)) \in Windows(node)
         /\ Window(Mid(w) + 1, w.right) \in Windows(node)
<1>1. w.left \in Nat /\ w.right \in Nat /\ w.left < w.right /\ w.right <= NumCells(node)
  BY DEF Windows
<1>2. Mid(w) \in Nat /\ w.left <= Mid(w) /\ Mid(w) < w.right
  BY <1>1 DEF Mid
<1> HIDE DEF Mid
<1> QED BY <1>1, <1>2 DEF Windows, Window

\* leaf_node_find ends at the place of the key, whatever the number of cells:
\* the cell that holds it, or the first with a larger key, or past the last.
THEOREM LeafFindIsPlace ==
  ASSUME NEW T, NEW node, Ordered(node, T), NEW key \in Int
  PROVE  IsPlace(node, key, LeafFind(node, key))
<1> DEFINE n == NumCells(node)
           body(f, w) == IF w.left = w.right THEN w.left
                         ELSE IF key = KeyAt(node, Mid(w)) THEN Mid(w)
                         ELSE IF key < KeyAt(node, Mid(w)) THEN f[Window(w.left, Mid(w))]
                         ELSE f[Window(Mid(w) + 1, w.right)]
<1>1. PICK p : IsPlace(node, key, p)
  BY PlaceExists
<1>2. n \in Nat /\ p \in 0 .. n
  BY <1>1 DEF Ordered, NumCells, IsPlace
<1>3. ASSUME NEW w \in Windows(node), w.left # w.right
      PROVE  /\ KeyAt(node, Mid(w)) \in Int
             /\ key = KeyAt(node, Mid(w)) => p = Mid(w)
             /\ key < KeyAt(node, Mid(w)) => p <= Mid(w)
             /\ key > KeyAt(node, Mid(w)) => p > Mid(w)
  <2> DEFINE m == Mid(w)
  <2>1. m \in Nat /\ m < n /\ m + 1 \in 1 .. n
    BY <1>2, <1>3, Halves
  <2> HIDE DEF m
  <2>2. \A i \in 1 .. n : node.cells[i].key \in Int /\ (node.cells[i].key < key <=> i <= p)
    BY <1>1 DEF Ordered, IsPlace, NumCells
  <2>3. ASSUME key = node.cells[m + 1].key PROVE p = m
    <3>1. p <= m
      BY <1>2, <2>1, <2>2, <2>3
    <3>2. CASE m = 0
      BY <1>2, <3>1, <3>2
    <3>3. CASE m # 0
      <4>1. m \in 1 .. n /\ node.cells[m].key < node.cells[m + 1].key
        BY <2>1, <3>3 DEF Ordered, NumCells
      <4> QED BY <1>2, <2>1, <2>2, <2>3, <3>1, <4>1
    <3> QED BY <3>2, <3>3
  <2>4. KeyAt(node, m) = node.cells[m + 1].key
    BY DEF KeyAt
  <2>5. /\ KeyAt(node, m) \in Int
        /\ key = KeyAt(node, m) => p = m
        /\ key < KeyAt(node, m) => p <= m
        /\ key > KeyAt(node, m) => p > m
    BY <1>2, <2>1, <2>2, <2>3, <2>4
  <2> QED BY <2>5 DEF m
<1>4. PICK find : /\ find = [w \in Windows(node) |-> body(find, w)]
                  /\ LeafFind(node, key) = find[Window(0, n)]
  <2> DEFINE g == [w \in Windows(node) |-> Clamp(w, p)]
  <2>1. ASSUME NEW w \in Windows(node) PROVE Clamp(w, p) = body(g, w)
    <3>1. CASE w.left = w.right
      BY <1>2, <3>1 DEF Clamp, Windows
    <3>2. CASE w.left # w.right
      <4>1. /\ g[Window(w.left, Mid(w))] = Clamp(Window(w.left, Mid(w)), p)
            /\ g[Window(Mid(w) + 1, w.right)] = Clamp(Window(Mid(w) + 1, w.right), p)
        BY <1>2, <3>2, Halves
      <4> HIDE DEF g
      <4>2. /\ w.left \in Nat /\ w.right \in Nat /\ Mid(w) \in w.left .. w.right - 1
        BY <1>2, <3>2, Halves
      <4> QED BY <1>2, <1>3, <3>2, <4>1, <4>2 DEF Clamp, Window
    <3> QED BY <3>1, <3>2
  <2>2. g = [w \in Windows(node) |-> body(g, w)]
    BY <2>1
  <2> HIDE DEF g
  <2>3. \E f : f = [w \in Windows(node) |-> body(f, w)]
    BY <2>2
  <2> DEFINE h == CHOOSE f : f = [w \in Windows(node) |-> body(f, w)]
  <2>4. h = [w \in Windows(node) |-> body(h, w)]
    BY <2>3
  <2>5. LeafFind(node, key) = h[Window(0, n)]
    BY DEF LeafFind
  <2> QED BY <2>4, <2>5
<1>5. \A w \in Windows(node) : find[w] = body(find, w)
  BY <1>4
<1>6. ASSUME NEW w \in Windows(node), Around(w, p)
      PROVE  \/ find[w] = p
             \/ \E v \in Windows(node) : find[w] = find[v] /\ Around(v, p) /\ Width(v) < Width(w)
  <2>1. CASE w.left = w.right
    BY <1>2, <1>5, <1>6, <2>1 DEF Around, Windows
  <2>2. CASE w.left # w.right
    <3>1. find[w] = body(find, w)
      BY <1>5
    <3>2. /\ w.left \in Nat /\ w.right \in Nat /\ Mid(w) \in w.left .. w.right - 1
          /\ Window(w.left, Mid(w)) \in Windows(node) /\ Window(Mid(w) + 1, w.right) \in Windows(node)
      BY <1>2, <2>2, Halves
    <3>3. /\ Width(Window(w.left, Mid(w))) < Width(w) /\ Width(Window(Mid(w) + 1, w.right)) < Width(w)
          /\ p <= Mid(w) => Around(Window(w.left, Mid(w)), p)
          /\ p > Mid(w) => Around(Window(Mid(w) + 1, w.right), p)
      BY <1>2, <1>6, <3>2 DEF Width, Window, Around
    <3> QED BY <1>2, <1>3, <2>2, <3>1, <3>2, <3>3
  <2> QED BY <2>1, <2>2
<1>7. find[Window(0, n)] = p
  BY <1>2, <1>6, Narrowing
<1> QED BY <1>1, <1>4, <1>7

\* internal_node_find_child ends at the place of the key among the separators,
\* so that a separator is the largest key below the child on its left.
THEOREM FindChildIsPlace ==
  ASSUME NEW T, NEW node, Ordered(node, T), NEW key \in Int
  PROVE  IsPlace(node, key, FindChild(node, key))
<1> DEFINE n == NumCells(node)
           body(f, w) == IF w.left = w.right THEN w.left
                         ELSE IF KeyAt(node, Mid(w)) >= key THEN f[Window(w.left, Mid(w))]
                         ELSE f[Window(Mid(w) + 1, w.right)]
<1>1. PICK p : IsPlace(node, key, p)
  BY PlaceExists
<1>2. n \in Nat /\ p \in 0 .. n
  BY <1>1 DEF Ordered, NumCells, IsPlace
<1>3. ASSUME NEW w \in Windows(node), w.left # w.right
      PROVE  /\ KeyAt(node, Mid(w)) \in Int
             /\ KeyAt(node, Mid(w)) >= key <=> p <= Mid(w)
  <2> DEFINE m == Mid(w)
  <2>1. m \in Nat /\ m < n /\ m + 1 \in 1 .. n
    BY <1>2, <1>3, Halves
  <2> HIDE DEF m
  <2>2. \A i \in 1 .. n : node.cells[i].key \in Int /\ (node.cells[i].key < key <=> i <= p)
    BY <1>1 DEF Ordered, IsPlace, NumCells
  <2>3. KeyAt(node, m) = node.cells[m + 1].key
    BY DEF KeyAt
  <2>4. KeyAt(node, m) \in Int /\ (KeyAt(node, m) >= key <=> p <= m)
    BY <1>2, <2>1, <2>2, <2>3
  <2> QED BY <2>4 DEF m
<1>4. PICK find : /\ find = [w \in Windows(node) |-> body(find, w)]
                  /\ FindChild(node, key) = find[Window(0, n)]
  <2> DEFINE g == [w \in Windows(node) |-> Clamp(w, p)]
  <2>1. ASSUME NEW w \in Windows(node) PROVE Clamp(w, p) = body(g, w)
    <3>1. CASE w.left = w.right
      BY <1>2, <3>1 DEF Clamp, Windows
    <3>2. CASE w.left # w.right
      <4>1. /\ g[Window(w.left, Mid(w))] = Clamp(Window(w.left, Mid(w)), p)
            /\ g[Window(Mid(w) + 1, w.right)] = Clamp(Window(Mid(w) + 1, w.right), p)
        BY <1>2, <3>2, Halves
      <4> HIDE DEF g
      <4>2. /\ w.left \in Nat /\ w.right \in Nat /\ Mid(w) \in w.left .. w.right - 1
        BY <1>2, <3>2, Halves
      <4> QED BY <1>2, <1>3, <3>2, <4>1, <4>2 DEF Clamp, Window
    <3> QED BY <3>1, <3>2
  <2>2. g = [w \in Windows(node) |-> body(g, w)]
    BY <2>1
  <2> HIDE DEF g
  <2>3. \E f : f = [w \in Windows(node) |-> body(f, w)]
    BY <2>2
  <2> DEFINE h == CHOOSE f : f = [w \in Windows(node) |-> body(f, w)]
  <2>4. h = [w \in Windows(node) |-> body(h, w)]
    BY <2>3
  <2>5. FindChild(node, key) = h[Window(0, n)]
    BY DEF FindChild
  <2> QED BY <2>4, <2>5
<1>5. \A w \in Windows(node) : find[w] = body(find, w)
  BY <1>4
<1>6. ASSUME NEW w \in Windows(node), Around(w, p)
      PROVE  \/ find[w] = p
             \/ \E v \in Windows(node) : find[w] = find[v] /\ Around(v, p) /\ Width(v) < Width(w)
  <2>1. CASE w.left = w.right
    BY <1>2, <1>5, <1>6, <2>1 DEF Around, Windows
  <2>2. CASE w.left # w.right
    <3>1. find[w] = body(find, w)
      BY <1>5
    <3>2. /\ w.left \in Nat /\ w.right \in Nat /\ Mid(w) \in w.left .. w.right - 1
          /\ Window(w.left, Mid(w)) \in Windows(node) /\ Window(Mid(w) + 1, w.right) \in Windows(node)
      BY <1>2, <2>2, Halves
    <3>3. /\ Width(Window(w.left, Mid(w))) < Width(w) /\ Width(Window(Mid(w) + 1, w.right)) < Width(w)
          /\ p <= Mid(w) => Around(Window(w.left, Mid(w)), p)
          /\ p > Mid(w) => Around(Window(Mid(w) + 1, w.right), p)
      BY <1>2, <1>6, <3>2 DEF Width, Window, Around
    <3> QED BY <1>2, <1>3, <2>2, <3>1, <3>2, <3>3
  <2> QED BY <2>1, <2>2
<1>7. find[Window(0, n)] = p
  BY <1>2, <1>6, Narrowing
<1> QED BY <1>1, <1>4, <1>7

-----------------------------------------------------------------------------
(* The inserts.                                                            *)

\* Sequence t is s with e put in behind the first p elements.
IsInsert(T, s, p, e, t) ==
  /\ t \in Seq(T) /\ Len(t) = Len(s) + 1
  /\ \A i \in 1 .. Len(s) + 1 :
       t[i] = IF i <= p THEN s[i] ELSE IF i = p + 1 THEN e ELSE s[i - 1]

\* InsertAt puts one element in and keeps the others in their order.
LEMMA InsertAtFacts ==
  ASSUME NEW T, NEW s \in Seq(T), NEW e \in T, NEW p \in 0 .. Len(s)
  PROVE  IsInsert(T, s, p, e, InsertAt(s, p + 1, e))
<1> DEFINE low == SubSeq(s, 1, p)
           high == SubSeq(s, p + 1, Len(s))
<1>1. low \in Seq(T) /\ Len(low) = p /\ \A i \in 1 .. p : low[i] = s[i]
  OBVIOUS
<1>2. high \in Seq(T) /\ Len(high) = Len(s) - p /\ \A i \in 1 .. Len(s) - p : high[i] = s[p + i]
  OBVIOUS
<1>3. InsertAt(s, p + 1, e) = (low \o <<e>>) \o high
  <2>1. (p + 1) - 1 = p
    OBVIOUS
  <2> QED BY <2>1 DEF InsertAt
<1> HIDE DEF low, high
<1> DEFINE left == low \o <<e>>
<1>4. /\ left \in Seq(T) /\ Len(left) = p + 1
      /\ \A i \in 1 .. p : left[i] = s[i]
      /\ left[p + 1] = e
  BY <1>1
<1> HIDE DEF left
<1> DEFINE all == left \o high
<1>5. /\ all \in Seq(T) /\ Len(all) = Len(s) + 1
      /\ \A i \in 1 .. p + 1 : all[i] = left[i]
      /\ \A i \in p + 2 .. Len(s) + 1 : all[i] = high[i - (p + 1)]
  <2>1. /\ all \in Seq(T) /\ Len(all) = Len(left) + Len(high)
        /\ \A i \in 1 .. Len(left) : all[i] = left[i]
        /\ \A i \in Len(left) + 1 .. Len(left) + Len(high) : all[i] = high[i - Len(left)]
    <3> HIDE DEF all
    <3>1. all = left \o high
      BY DEF all
    <3>2. /\ all \in Seq(T) /\ Len(all) = Len(left) + Len(high)
          /\ \A i \in 1 .. Len(left) + Len(high) :
               all[i] = IF i <= Len(left) THEN left[i] ELSE high[i - Len(left)]
      BY <1>2, <1>4, <3>1, ConcatProperties, Zenon
    <3>3. Len(left) \in Nat /\ Len(high) \in Nat
      BY <1>2, <1>4
    <3> QED BY <3>2, <3>3
  <2>2. Len(s) \in Nat /\ p \in Nat /\ Len(left) = p + 1 /\ Len(left) + Len(high) = Len(s) + 1
    BY <1>2, <1>4
  <2> HIDE DEF all
  <2>3. Len(left) + 1 = p + 2
    BY <2>2
  <2> QED BY <2>1, <2>2, <2>3
<1> HIDE DEF all
<1>6. \A i \in p + 2 .. Len(s) + 1 : i - (p + 1) \in 1 .. Len(s) - p /\ p + (i - (p + 1)) = i - 1
  OBVIOUS
<1>7. \A i \in 1 .. Len(s) + 1 :
        all[i] = IF i <= p THEN s[i] ELSE IF i = p + 1 THEN e ELSE s[i - 1]
  <2> SUFFICES ASSUME NEW i \in 1 .. Len(s) + 1
               PROVE  all[i] = IF i <= p THEN s[i] ELSE IF i = p + 1 THEN e ELSE s[i - 1]
    OBVIOUS
  <2>1. Len(s) \in Nat /\ p \in Nat
    OBVIOUS
  <2>2. CASE i <= p
    BY <1>4, <1>5, <2>1, <2>2
  <2>3. CASE i = p + 1
    BY <1>4, <1>5, <2>1, <2>3
  <2>4. CASE i > p + 1
    <3>1. i \in p + 2 .. Len(s) + 1
      BY <2>1, <2>4
    <3>2. all[i] = high[i - (p + 1)] /\ high[i - (p + 1)] = s[i - 1]
      BY <1>2, <1>5, <1>6, <3>1
    <3> QED BY <2>1, <2>4, <3>2
  <2> QED BY <2>1, <2>2, <2>3, <2>4
<1>8. InsertAt(s, p + 1, e) = all
  BY <1>3 DEF all, left
<1> QED BY <1>5, <1>7, <1>8 DEF IsInsert

\* A cell whose key is in none of the others goes to its place.
LEMMA InsertOrdered ==
  ASSUME NEW T, NEW node, Ordered(node, T), NEW cell \in T, NEW p, IsPlace(node, cell.key, p),
         \A i \in 1 .. NumCells(node) : node.cells[i].key # cell.key,
         NEW new, IsInsert(T, node.cells, p, cell, new.cells)
  PROVE  /\ Ordered(new, T) /\ NumCells(new) = NumCells(node) + 1
         /\ new.cells[p + 1] = cell
         /\ \A x : x \in ToSet(new.cells) <=> x \in ToSet(node.cells) \/ x = cell
<1> DEFINE s == node.cells
           t == new.cells
           n == Len(s)
<1>1. s \in Seq(T) /\ n \in Nat /\ p \in 0 .. n /\ cell.key \in Int
  BY DEF Ordered, IsPlace, NumCells
<1>2. /\ t \in Seq(T) /\ Len(t) = n + 1
      /\ \A i \in 1 .. n + 1 : t[i] = IF i <= p THEN s[i] ELSE IF i = p + 1 THEN cell ELSE s[i - 1]
  BY DEF IsInsert
<1>3. /\ \A i \in 1 .. n : s[i].key \in Int /\ s[i].key # cell.key /\ (s[i].key < cell.key <=> i <= p)
      /\ \A i, j \in 1 .. n : i < j => s[i].key < s[j].key
  BY <1>1 DEF Ordered, IsPlace, NumCells
<1> HIDE DEF s, t, n
<1>4. ASSUME NEW i \in 1 .. n + 1, NEW j \in 1 .. n + 1, i < j PROVE t[i].key < t[j].key
  <2>1. CASE j <= p
    <3>1. i \in 1 .. n /\ j \in 1 .. n /\ t[i] = s[i] /\ t[j] = s[j]
      BY <1>1, <1>2, <1>4, <2>1
    <3> QED BY <1>3, <1>4, <3>1
  <2>2. CASE j = p + 1
    <3>1. i \in 1 .. n /\ i <= p /\ t[i] = s[i] /\ t[j] = cell
      BY <1>1, <1>2, <1>4, <2>2
    <3> QED BY <1>3, <3>1
  <2>3. CASE j > p + 1 /\ i <= p
    <3>1. i \in 1 .. n /\ j - 1 \in 1 .. n /\ i < j - 1 /\ t[i] = s[i] /\ t[j] = s[j - 1]
      BY <1>1, <1>2, <1>4, <2>3
    <3> QED BY <1>3, <3>1
  <2>4. CASE j > p + 1 /\ i = p + 1
    <3>1. j - 1 \in 1 .. n /\ j - 1 > p /\ t[i] = cell /\ t[j] = s[j - 1]
      BY <1>1, <1>2, <1>4, <2>4
    <3> QED BY <1>1, <1>3, <3>1
  <2>5. CASE j > p + 1 /\ i > p + 1
    <3>1. i - 1 \in 1 .. n /\ j - 1 \in 1 .. n /\ i - 1 < j - 1 /\ t[i] = s[i - 1] /\ t[j] = s[j - 1]
      BY <1>1, <1>2, <1>4, <2>5
    <3> QED BY <1>3, <3>1
  <2> QED BY <1>1, <2>1, <2>2, <2>3, <2>4, <2>5
<1>5. \A x : x \in ToSet(t) <=> x \in ToSet(s) \cup {cell}
  <2>1. /\ ToSet(t) = {t[i] : i \in 1 .. n + 1}
        /\ ToSet(s) = {s[i] : i \in 1 .. n}
    <3>1. DOMAIN t = 1 .. n + 1 /\ DOMAIN s = 1 .. n
      BY <1>1, <1>2 DEF n
    <3> QED BY <3>1, Zenon DEF ToSet
  <2>2. \A i \in 1 .. n + 1 : t[i] = cell \/ \E j \in 1 .. n : t[i] = s[j]
    <3>1. \A i \in 1 .. n + 1 : i <= p \/ i = p + 1 \/ i - 1 \in 1 .. n
      BY <1>1
    <3>2. \A i \in 1 .. n + 1 : i <= p => i \in 1 .. n
      BY <1>1
    <3> QED BY <1>2, <3>1, <3>2
  <2>3. \A j \in 1 .. n : \E i \in 1 .. n + 1 : s[j] = t[i]
    <3> SUFFICES ASSUME NEW j \in 1 .. n PROVE \E i \in 1 .. n + 1 : s[j] = t[i]
      OBVIOUS
    <3>1. CASE j <= p
      BY <1>1, <1>2, <3>1
    <3>2. CASE j > p
      <4>1. j + 1 \in 1 .. n + 1 /\ j + 1 > p + 1 /\ (j + 1) - 1 = j
        BY <1>1, <3>2
      <4>2. t[j + 1] = s[j]
        BY <1>1, <1>2, <4>1
      <4> QED BY <4>1, <4>2
    <3> QED BY <1>1, <3>1, <3>2
  <2>4. p + 1 \in 1 .. n + 1 /\ t[p + 1] = cell
    BY <1>1, <1>2
  <2> QED BY <2>1, <2>2, <2>3, <2>4
<1>6. p + 1 \in 1 .. n + 1 /\ t[p + 1] = cell
  BY <1>1, <1>2
<1> QED BY <1>2, <1>4, <1>5, <1>6 DEF Ordered, NumCells, s, t, n

\* leaf_node_insert where leaf_node_find points keeps the leaf in order, loses
\* none of its rows and adds the new one.
THEOREM LeafInsertInOrder ==
  ASSUME NEW T, NEW node, Ordered(node, T), "cells" \in DOMAIN node, NEW cell \in T,
         \A i \in 1 .. NumCells(node) : node.cells[i].key # cell.key
  PROVE  LET at == LeafFind(node, cell.key)
             new == LeafInsert(node, at, cell)
         IN /\ Ordered(new, T) /\ NumCells(new) = NumCells(node) + 1
            /\ ToSet(new.cells) = ToSet(node.cells) \cup {cell}
            /\ LeafFind(new, cell.key) = at
<1> DEFINE at == LeafFind(node, cell.key)
           new == LeafInsert(node, at, cell)
<1>1. cell.key \in Int /\ IsPlace(node, cell.key, at)
  BY LeafFindIsPlace DEF Ordered
<1> HIDE DEF at
<1>2. IsInsert(T, node.cells, at, cell, new.cells)
  <2>1. new.cells = InsertAt(node.cells, at + 1, cell)
    BY DEF LeafInsert
  <2>2. node.cells \in Seq(T) /\ at \in 0 .. Len(node.cells)
    BY <1>1 DEF Ordered, IsPlace, NumCells
  <2> HIDE DEF new
  <2> QED BY <2>1, <2>2, InsertAtFacts
<1> HIDE DEF new
<1>3. /\ Ordered(new, T) /\ NumCells(new) = NumCells(node) + 1 /\ new.cells[at + 1] = cell
      /\ ToSet(new.cells) = ToSet(node.cells) \cup {cell}
  BY <1>1, <1>2, InsertOrdered
<1>4. LeafFind(new, cell.key) = at
  <2> DEFINE q == LeafFind(new, cell.key)
  <2>1. IsPlace(new, cell.key, q)
    BY <1>1, <1>3, LeafFindIsPlace
  <2> HIDE DEF q
  <2>2. /\ at \in Nat /\ q \in Nat /\ at + 1 \in 1 .. NumCells(new) /\ q <= NumCells(new)
        /\ NumCells(new) = Len(new.cells) /\ NumCells(new) \in Nat
    BY <1>1, <1>3, <2>1 DEF IsPlace, Ordered, NumCells
  <2>3. ~ (at + 1 <= q)
    BY <1>1, <1>3, <2>1, <2>2 DEF IsPlace
  <2>4. ASSUME at # 0 PROVE at <= q
    <3>1. at \in 1 .. NumCells(new) /\ at < at + 1
      BY <2>2, <2>4
    <3>2. new.cells[at].key < cell.key
      BY <1>3, <2>2, <3>1 DEF Ordered
    <3> QED BY <2>1, <3>1, <3>2 DEF IsPlace
  <2>5. at = q
    BY <2>2, <2>3, <2>4
  <2> QED BY <2>5 DEF q
<1> QED BY <1>3, <1>4 DEF at, new

-----------------------------------------------------------------------------
(* The separators of an internal node.                                     *)

Separators(C) == [child : C, key : Int]

\* An internal node in order: its separators and its right child.
OrderedInternal(node, C) ==
  /\ Ordered(node, Separators(C))
  /\ {"cells", "link"} \subseteq DOMAIN node
  /\ node.link \in C

\* The children of a node, of which there is one more than separators.
ChildSet(node) == {node.link} \cup {c.child : c \in ToSet(node.cells)}

\* What Append adds to a sequence is its last element.
LEMMA AppendSet ==
  ASSUME NEW T, NEW s \in Seq(T), NEW e \in T
  PROVE  /\ Append(s, e) \in Seq(T) /\ Len(Append(s, e)) = Len(s) + 1 /\ Len(s) \in Nat
         /\ \A i \in 1 .. Len(s) : Append(s, e)[i] = s[i]
         /\ Append(s, e)[Len(s) + 1] = e
         /\ ToSet(Append(s, e)) = ToSet(s) \cup {e}
<1> DEFINE t == Append(s, e)
           n == Len(s)
<1>1. /\ t \in Seq(T) /\ Len(t) = n + 1 /\ n \in Nat
      /\ \A i \in 1 .. n : t[i] = s[i]
      /\ t[n + 1] = e
  OBVIOUS
<1>2. ToSet(t) = {t[i] : i \in 1 .. n + 1} /\ ToSet(s) = {s[i] : i \in 1 .. n}
  <2>1. DOMAIN t = 1 .. n + 1 /\ DOMAIN s = 1 .. n
    BY <1>1
  <2> HIDE DEF t, n
  <2> QED BY <2>1, Zenon DEF ToSet
<1> HIDE DEF t, n
<1>3. \A i \in 1 .. n + 1 : i \in 1 .. n \/ i = n + 1
  BY <1>1
<1>4. \A i \in 1 .. n : i \in 1 .. n + 1
  BY <1>1
<1>5. n + 1 \in 1 .. n + 1
  BY <1>1
<1>6. \A x : x \in ToSet(t) <=> x \in ToSet(s) \cup {e}
  BY <1>1, <1>2, <1>3, <1>4, <1>5
<1> QED BY <1>1, <1>6 DEF t, n

\* internal_node_insert keeps the separators in order, below the largest key of
\* the right child, and no child is lost, whether the new child goes to the
\* place of its key or becomes the right child.
THEOREM InternalInsertInOrder ==
  ASSUME NEW C, NEW node, OrderedInternal(node, C), NEW child \in C,
         NEW child_max \in Int, NEW right_max \in Int, child_max # right_max,
         \A i \in 1 .. NumCells(node) :
           node.cells[i].key # child_max /\ node.cells[i].key < right_max
  PROVE  LET new == InternalInsert(node, child, child_max, right_max)
             largest == IF child_max > right_max THEN child_max ELSE right_max
         IN /\ OrderedInternal(new, C) /\ NumCells(new) = NumCells(node) + 1
            /\ \A i \in 1 .. NumCells(new) : new.cells[i].key < largest
            /\ ChildSet(new) = ChildSet(node) \cup {child}
<1> DEFINE new == InternalInsert(node, child, child_max, right_max)
           T == Separators(C)
           n == NumCells(node)
           largest == IF child_max > right_max THEN child_max ELSE right_max
           Goal == /\ OrderedInternal(new, C) /\ NumCells(new) = n + 1
                   /\ \A i \in 1 .. NumCells(new) : new.cells[i].key < largest
                   /\ ChildSet(new) = ChildSet(node) \cup {child}
<1>1. /\ node.cells \in Seq(T) /\ Ordered(node, T) /\ node.link \in C
      /\ n = Len(node.cells) /\ n \in Nat
      /\ "cells" \in DOMAIN node /\ "link" \in DOMAIN node
      /\ \A i, j \in 1 .. n : i < j => node.cells[i].key < node.cells[j].key
  BY DEF OrderedInternal, Ordered, NumCells
<1>2. CASE child_max > right_max
  <2> DEFINE e == [child |-> node.link, key |-> right_max]
  <2>1. /\ new.cells = Append(node.cells, e) /\ new.link = child
        /\ "cells" \in DOMAIN new /\ "link" \in DOMAIN new
    BY <1>1, <1>2 DEF InternalInsert
  <2>2. e \in T /\ e.key = right_max /\ e.child = node.link
    BY <1>1 DEF Separators
  <2> HIDE DEF new, e, T, n
  <2>3. /\ new.cells \in Seq(T) /\ Len(new.cells) = n + 1
        /\ \A i \in 1 .. n : new.cells[i] = node.cells[i]
        /\ new.cells[n + 1] = e
        /\ ToSet(new.cells) = ToSet(node.cells) \cup {e}
    BY <1>1, <2>1, <2>2, AppendSet
  <2>4. \A i, j \in 1 .. n + 1 : i < j => new.cells[i].key < new.cells[j].key
    <3> SUFFICES ASSUME NEW i \in 1 .. n + 1, NEW j \in 1 .. n + 1, i < j
                 PROVE  new.cells[i].key < new.cells[j].key
      OBVIOUS
    <3>1. i \in 1 .. n /\ (j \in 1 .. n \/ j = n + 1)
      BY <1>1
    <3> QED BY <1>1, <2>2, <2>3, <3>1 DEF n
  <2>5. \A i \in 1 .. n + 1 : new.cells[i].key < child_max
    <3> SUFFICES ASSUME NEW i \in 1 .. n + 1 PROVE new.cells[i].key < child_max
      OBVIOUS
    <3>1. i \in 1 .. n \/ i = n + 1
      BY <1>1
    <3>2. \A m \in 1 .. n : node.cells[m].key \in Int /\ node.cells[m].key < right_max
      BY <1>1 DEF Ordered, n, NumCells
    <3> QED BY <1>2, <2>2, <2>3, <3>1, <3>2
  <2>6. \A t \in T : t.key \in Int
    BY DEF T, Separators
  <2>7. OrderedInternal(new, C) /\ NumCells(new) = n + 1
    BY <2>1, <2>3, <2>4, <2>6 DEF OrderedInternal, Ordered, NumCells, T
  <2>8. ChildSet(new) = ChildSet(node) \cup {child}
    BY <2>1, <2>2, <2>3 DEF ChildSet
  <2> QED BY <1>2, <2>5, <2>7, <2>8 DEF new, n
<1>3. CASE ~ (child_max > right_max)
  <2> DEFINE e == [child |-> child, key |-> child_max]
             p == FindChild(node, child_max)
  <2>1. /\ new.cells = InsertAt(node.cells, p + 1, e) /\ new.link = node.link
        /\ "cells" \in DOMAIN new /\ "link" \in DOMAIN new
    BY <1>1, <1>3 DEF InternalInsert
  <2>2. e \in T /\ e.key = child_max /\ e.child = child
    BY DEF Separators
  <2>3. IsPlace(node, e.key, p)
    BY <1>1, <2>2, FindChildIsPlace
  <2> HIDE DEF new, e, T, n, p
  <2>4. \A i \in 1 .. NumCells(node) : node.cells[i].key # e.key
    BY <2>2
  <2>5. /\ Ordered(new, T) /\ NumCells(new) = n + 1
        /\ ToSet(new.cells) = ToSet(node.cells) \cup {e}
    <3>1. p \in 0 .. Len(node.cells)
      BY <2>3 DEF IsPlace, NumCells
    <3>2. IsInsert(T, node.cells, p, e, new.cells)
      BY <1>1, <2>1, <2>2, <3>1, InsertAtFacts
    <3>3. Ordered(node, T)
      BY <1>1
    <3>4. e \in T
      BY <2>2
    <3>5. Ordered(new, T) /\ NumCells(new) = NumCells(node) + 1
      BY <3>2, <3>3, <3>4, <2>3, <2>4, InsertOrdered
    <3>6. \A x : x \in ToSet(new.cells) <=> x \in ToSet(node.cells) \/ x = e
      BY <3>2, <3>3, <3>4, <2>3, <2>4, InsertOrdered
    <3> QED BY <3>5, <3>6 DEF n
  <2>6. \A c \in ToSet(new.cells) : c.key < right_max
    <3>1. \A c \in ToSet(node.cells) : c.key < right_max
      BY <1>1 DEF ToSet, n
    <3>2. e.key < right_max
      BY <1>3, <2>2
    <3> QED BY <2>5, <3>1, <3>2
  <2>7. \A i \in 1 .. NumCells(new) : new.cells[i] \in ToSet(new.cells)
    BY <2>5 DEF ToSet, Ordered, NumCells
  <2>8. ChildSet(new) = ChildSet(node) \cup {child}
    BY <2>1, <2>2, <2>5 DEF ChildSet
  <2>9. OrderedInternal(new, C)
    BY <1>1, <2>1, <2>5 DEF OrderedInternal, T
  <2> QED BY <1>3, <2>5, <2>6, <2>7, <2>8, <2>9 DEF new, n
<1> QED BY <1>2, <1>3

\* update_internal_node_key renames the one separator old_key and keeps the
\* order, if the new key is between it and the one before.
THEOREM UpdateKeyInOrder ==
  ASSUME NEW C, NEW node, OrderedInternal(node, C), NEW old_key \in Int, NEW new_key \in Int,
         new_key <= old_key,
         \A i \in 1 .. NumCells(node) :
           node.cells[i].key < old_key => node.cells[i].key < new_key,
         \/ \A i \in 1 .. NumCells(node) : node.cells[i].key < old_key
         \/ \E i \in 1 .. NumCells(node) : node.cells[i].key = old_key
  PROVE  LET new == UpdateKey(node, old_key, new_key)
         IN /\ OrderedInternal(new, C) /\ NumCells(new) = NumCells(node)
            /\ \A i \in 1 .. NumCells(node) :
                 /\ new.cells[i].child = node.cells[i].child
                 /\ new.cells[i].key = IF node.cells[i].key = old_key THEN new_key ELSE node.cells[i].key
<1> DEFINE p == FindChild(node, old_key)
           n == NumCells(node)
           T == Separators(C)
           new == UpdateKey(node, old_key, new_key)
<1>1. /\ node.cells \in Seq(T) /\ Ordered(node, T)
      /\ n = Len(node.cells) /\ n \in Nat
      /\ \A i \in 1 .. n : node.cells[i] \in T /\ node.cells[i].key \in Int
      /\ \A i, j \in 1 .. n : i < j => node.cells[i].key < node.cells[j].key
  BY DEF OrderedInternal, Ordered, NumCells
<1>2. p \in 0 .. n /\ \A i \in 1 .. n : node.cells[i].key < old_key <=> i <= p
  BY <1>1, FindChildIsPlace DEF IsPlace
<1> HIDE DEF p
<1>3. CASE p = n
  <2>1. new = node
    BY <1>1, <1>3 DEF UpdateKey, p
  <2>2. \A i \in 1 .. n : node.cells[i].key # old_key
    BY <1>1, <1>2, <1>3
  <2> QED BY <2>1, <2>2
<1>4. CASE p # n
  <2>1. p + 1 \in 1 .. n /\ ~ (node.cells[p + 1].key < old_key)
    BY <1>1, <1>2, <1>4
  <2>2. node.cells[p + 1].key = old_key
    <3>1. PICK k \in 1 .. n : node.cells[k].key = old_key
      BY <1>1, <2>1
    <3>2. ~ (k <= p)
      BY <1>1, <1>2, <3>1
    <3>3. k = p + 1 \/ node.cells[p + 1].key < node.cells[k].key
      BY <1>1, <1>2, <2>1, <3>1, <3>2
    <3> QED BY <1>1, <2>1, <3>1, <3>3
  <2>3. /\ new = [node EXCEPT !.cells[p + 1].key = new_key]
    BY <1>1, <1>2, <1>4 DEF UpdateKey, p
  <2> DEFINE s == node.cells
             t == new.cells
  <2>4. /\ t = [s EXCEPT ![p + 1].key = new_key] /\ new.link = node.link
        /\ {"cells", "link"} \subseteq DOMAIN new
    BY <2>3 DEF OrderedInternal
  <2> HIDE DEF new
  <2>5. \A i \in 1 .. n : t[i] = IF i = p + 1 THEN [s[i] EXCEPT !.key = new_key] ELSE s[i]
    BY <1>1, <2>4
  <2>6. t \in Seq(T) /\ Len(t) = n
    <3>1. [s[p + 1] EXCEPT !.key = new_key] \in T
      BY <1>1, <2>1 DEF Separators
    <3> QED BY <1>1, <2>1, <2>4, <3>1
  <2>7. \A i \in 1 .. n : /\ t[i].child = s[i].child
                         /\ t[i].key = IF i = p + 1 THEN new_key ELSE s[i].key
    BY <1>1, <2>5 DEF Separators
  <2>8. \A i \in 1 .. n : i = p + 1 <=> s[i].key = old_key
    BY <1>1, <1>2, <2>1, <2>2
  <2> HIDE DEF s, t, T, n
  <2>9. \A i, j \in 1 .. n : i < j => t[i].key < t[j].key
    <3> SUFFICES ASSUME NEW i \in 1 .. n, NEW j \in 1 .. n, i < j PROVE t[i].key < t[j].key
      OBVIOUS
    <3>1. s[i].key \in Int /\ s[j].key \in Int /\ s[i].key < s[j].key
      BY <1>1 DEF s
    <3>2. CASE i = p + 1
      <4>1. s[i].key = old_key /\ t[i].key = new_key /\ t[j].key = s[j].key
        BY <1>1, <2>7, <2>8, <3>1, <3>2
      <4> QED BY <3>1, <4>1
    <3>3. CASE j = p + 1
      <4>1. s[j].key = old_key /\ t[j].key = new_key /\ t[i].key = s[i].key
        BY <1>1, <2>7, <2>8, <3>1, <3>3
      <4> QED BY <3>1, <4>1 DEF s, n
    <3>4. CASE i # p + 1 /\ j # p + 1
      BY <2>7, <3>1, <3>4
    <3> QED BY <3>2, <3>3, <3>4
  <2>10. OrderedInternal(new, C) /\ NumCells(new) = n
    <3>1. \A x \in T : x.key \in Int
      BY DEF T, Separators
    <3> QED BY <2>4, <2>6, <2>9, <3>1 DEF OrderedInternal, Ordered, NumCells, T, t
  <2> QED BY <2>7, <2>8, <2>10 DEF s, t, n, new
<1> QED BY <1>3, <1>4

-----------------------------------------------------------------------------
(* The split of a leaf. i counts as in the C code: the passes for M .. i    *)
(* are done, and SplitCell(cells, at, cell, k) is what belongs at index k.  *)

M == LEAF_NODE_MAX_CELLS
L == LEAF_NODE_LEFT_SPLIT_COUNT
R == LEAF_NODE_RIGHT_SPLIT_COUNT

OldAfter(cells, at, cell, i) ==
  [j \in 1 .. M |-> IF i < j /\ j <= L THEN SplitCell(cells, at, cell, j - 1) ELSE cells[j]]
NewAfter(cells, at, cell, i) ==
  [j \in 1 .. R |-> IF i < L + j THEN SplitCell(cells, at, cell, L + j - 1) ELSE cells[j]]
After(cells, at, cell, i) ==
  [old |-> OldAfter(cells, at, cell, i), new |-> NewAfter(cells, at, cell, i)]

\* The left half is as large as the right one, or one larger.
LEMMA Counts ==
  /\ M \in Nat /\ L \in Nat /\ R \in Nat
  /\ 1 <= R /\ R <= L /\ L <= M /\ L + R = M + 1
BY LeafSizeAssumption DEF M, L, R, LEAF_NODE_LEFT_SPLIT_COUNT, LEAF_NODE_RIGHT_SPLIT_COUNT

\* The index within the leaf that a pass writes.
LEMMA SplitIndex ==
  ASSUME NEW i \in 0 .. M
  PROVE  i % L = IF i >= L THEN i - L ELSE i
<1>1. i \in Nat /\ L \in Nat /\ L > 0 /\ i < L + L
  BY Counts
<1> HIDE DEF L
<1>2. CASE i < L
  BY <1>1, <1>2
<1>3. CASE i >= L
  BY <1>1, <1>3
<1> QED BY <1>1, <1>2, <1>3

\* One pass takes the leaves from what they are after the passes for M .. i + 1
\* to what they are after that for i: it reads a cell that is still the old one.
LEMMA PassIsAfter ==
  ASSUME NEW cells, NEW at \in 0 .. M, NEW cell, NEW i \in 0 .. M
  PROVE  SplitPass(After(cells, at, cell, i + 1), i, at, cell) = After(cells, at, cell, i)
<1> DEFINE before == OldAfter(cells, at, cell, i + 1)
           fresh == NewAfter(cells, at, cell, i + 1)
           belongs(k) == SplitCell(cells, at, cell, k)
<1>1. i \in Nat /\ at \in Nat /\ i <= M /\ at <= M
  BY Counts
<1>2. SplitCell(before, at, cell, i) = belongs(i)
  <2>1. i >= 1 => before[i] = cells[i]
    BY <1>1, Counts DEF OldAfter
  <2>2. i < at => before[i + 1] = cells[i + 1]
    BY <1>1, Counts DEF OldAfter
  <2> HIDE DEF before
  <2> QED BY <1>1, <2>1, <2>2 DEF SplitCell
<1>3. CASE i >= L
  <2>1. before = OldAfter(cells, at, cell, i)
    BY <1>1, <1>3, Counts DEF OldAfter
  <2>2. [fresh EXCEPT ![i - L + 1] = belongs(i)] = NewAfter(cells, at, cell, i)
    <3>1. [fresh EXCEPT ![i - L + 1] = belongs(i)] =
            [j \in 1 .. R |-> IF j = i - L + 1 THEN belongs(i) ELSE fresh[j]]
      BY <1>1, <1>3, Counts DEF NewAfter
    <3>2. \A j \in 1 .. R :
            (IF j = i - L + 1 THEN belongs(i) ELSE fresh[j]) =
              IF i < L + j THEN belongs(L + j - 1) ELSE cells[j]
      <4> SUFFICES ASSUME NEW j \in 1 .. R
                   PROVE  (IF j = i - L + 1 THEN belongs(i) ELSE fresh[j]) =
                            IF i < L + j THEN belongs(L + j - 1) ELSE cells[j]
        OBVIOUS
      <4>1. fresh[j] = IF i + 1 < L + j THEN belongs(L + j - 1) ELSE cells[j]
        BY DEF NewAfter
      <4>2. CASE j = i - L + 1
        <5>1. i < L + j /\ L + j - 1 = i
          BY <1>1, <1>3, <4>2, Counts
        <5> QED BY <4>2, <5>1
      <4>3. CASE j # i - L + 1
        <5>1. (i < L + j) = (i + 1 < L + j)
          BY <1>1, <1>3, <4>3, Counts
        <5> QED BY <4>1, <4>3, <5>1
      <4> QED BY <4>2, <4>3
    <3> HIDE DEF fresh, belongs
    <3> QED BY <3>1, <3>2 DEF NewAfter, belongs
  <2>3. (i % L) + 1 = i - L + 1
    BY <1>3, SplitIndex
  <2> QED BY <1>2, <1>3, <2>1, <2>2, <2>3 DEF SplitPass, After, L
<1>4. CASE i < L
  <2>1. fresh = NewAfter(cells, at, cell, i)
    BY <1>1, <1>4, Counts DEF NewAfter
  <2>2. [before EXCEPT ![i + 1] = belongs(i)] = OldAfter(cells, at, cell, i)
    <3>1. [before EXCEPT ![i + 1] = belongs(i)] =
            [j \in 1 .. M |-> IF j = i + 1 THEN belongs(i) ELSE before[j]]
      BY <1>1, <1>4, Counts DEF OldAfter
    <3>2. \A j \in 1 .. M :
            (IF j = i + 1 THEN belongs(i) ELSE before[j]) =
              IF i < j /\ j <= L THEN belongs(j - 1) ELSE cells[j]
      <4> SUFFICES ASSUME NEW j \in 1 .. M
                   PROVE  (IF j = i + 1 THEN belongs(i) ELSE before[j]) =
                            IF i < j /\ j <= L THEN belongs(j - 1) ELSE cells[j]
        OBVIOUS
      <4>1. before[j] = IF i + 1 < j /\ j <= L THEN belongs(j - 1) ELSE cells[j]
        BY DEF OldAfter
      <4>2. CASE j = i + 1
        <5>1. i < j /\ j <= L /\ j - 1 = i
          BY <1>1, <1>4, <4>2, Counts
        <5> QED BY <4>2, <5>1
      <4>3. CASE j # i + 1
        <5>1. (i < j) = (i + 1 < j)
          BY <1>1, <1>4, <4>3, Counts
        <5> QED BY <4>1, <4>3, <5>1
      <4> QED BY <4>2, <4>3
    <3> HIDE DEF before, belongs
    <3> QED BY <3>1, <3>2 DEF OldAfter, belongs
  <2>3. (i % L) + 1 = i + 1
    BY <1>1, <1>4, SplitIndex, Counts
  <2> QED BY <1>1, <1>2, <1>4, <2>1, <2>2, <2>3, Counts DEF SplitPass, After, L
<1> QED BY <1>1, <1>3, <1>4, Counts

\* The loop as a whole: what the two leaves hold at the end.
LEMMA SplitLeaves ==
  ASSUME NEW T, NEW cells \in Seq(T), Len(cells) = M, NEW at \in 0 .. M, NEW cell
  PROVE  SplitCells(cells, at, cell) =
           [old |-> SubSeq(OldAfter(cells, at, cell, 0), 1, L), new |-> NewAfter(cells, at, cell, 0)]
<1> DEFINE start == [old |-> cells, new |-> SubSeq(cells, 1, R)]
           body(f, n) == IF n = 0 THEN start ELSE SplitPass(f[n - 1], SplitOrder[n], at, cell)
           g == [n \in 0 .. M + 1 |-> After(cells, at, cell, M + 1 - n)]
           h == CHOOSE f : f = [n \in 0 .. M + 1 |-> body(f, n)]
<1>1. start = After(cells, at, cell, M + 1)
  <2>1. cells = OldAfter(cells, at, cell, M + 1)
    BY Counts DEF OldAfter
  <2>2. SubSeq(cells, 1, R) = NewAfter(cells, at, cell, M + 1)
    BY Counts DEF NewAfter
  <2> QED BY <2>1, <2>2 DEF After
<1> HIDE DEF start
<1>2. ASSUME NEW n \in 1 .. M + 1
      PROVE  /\ SplitOrder[n] = M + 1 - n /\ M + 1 - n \in 0 .. M
             /\ SplitPass(After(cells, at, cell, M + 1 - (n - 1)), SplitOrder[n], at, cell) =
                  After(cells, at, cell, M + 1 - n)
  <2>1. SplitOrder[n] = M + 1 - n
    BY Counts DEF SplitOrder, M
  <2>2. M + 1 - n \in 0 .. M /\ M + 1 - (n - 1) = (M + 1 - n) + 1
    BY Counts
  <2> QED BY <2>1, <2>2, PassIsAfter
<1>3. \A n \in 0 .. M + 1 : g[n] = body(g, n)
  <2> SUFFICES ASSUME NEW n \in 0 .. M + 1 PROVE g[n] = body(g, n)
    OBVIOUS
  <2>1. CASE n = 0
    BY <1>1, <2>1, Counts
  <2>2. CASE n # 0
    <3>1. n \in 1 .. M + 1 /\ n - 1 \in 0 .. M + 1
      BY <2>2, Counts
    <3>2. g[n - 1] = After(cells, at, cell, M + 1 - (n - 1)) /\ g[n] = After(cells, at, cell, M + 1 - n)
      BY <3>1
    <3> HIDE DEF g
    <3> QED BY <1>2, <2>2, <3>1, <3>2
  <2> QED BY <2>1, <2>2
<1>4. h = [n \in 0 .. M + 1 |-> body(h, n)]
  <2>1. g = [n \in 0 .. M + 1 |-> g[n]]
    OBVIOUS
  <2> HIDE DEF g
  <2>2. g = [n \in 0 .. M + 1 |-> body(g, n)]
    BY <1>3, <2>1
  <2> QED BY <2>2
<1>5. SplitCells(cells, at, cell) = [old |-> SubSeq(h[M + 1].old, 1, L), new |-> h[M + 1].new]
  BY DEF SplitCells, start, M, L, R
<1> HIDE DEF h
<1>6. \A n \in 0 .. M + 1 : h[n] = body(h, n)
  BY <1>4
<1>7. h[M + 1] = g[M + 1]
  <2> DEFINE differ == {n \in 0 .. M + 1 : h[n] # g[n]}
  <2> HIDE DEF g
  <2>1. ASSUME differ # {} PROVE FALSE
    <3>1. PICK n \in differ : \A k \in differ : n <= k
      <4>1. differ \subseteq Nat
        OBVIOUS
      <4> HIDE DEF differ
      <4> QED BY <2>1, <4>1, Least
    <3>2. n # 0 /\ n \in 0 .. M + 1
      BY <1>3, <1>6, <3>1, Counts
    <3>3. n - 1 \in 0 .. M + 1 /\ ~ (n <= n - 1)
      BY <3>2, Counts
    <3>4. h[n - 1] = g[n - 1]
      BY <3>1, <3>3
    <3>5. h[n] = body(h, n) /\ g[n] = body(g, n)
      BY <1>3, <1>6, <3>2
    <3> QED BY <3>1, <3>2, <3>4, <3>5
  <2>2. M + 1 \in 0 .. M + 1
    BY Counts
  <2> QED BY <2>1, <2>2
<1>8. g[M + 1] = After(cells, at, cell, 0)
  BY Counts
<1> HIDE DEF g
<1>9. h[M + 1] = [old |-> OldAfter(cells, at, cell, 0), new |-> NewAfter(cells, at, cell, 0)]
  BY <1>7, <1>8 DEF After
<1> QED BY <1>5, <1>9

\* The split loop of leaf_node_split_and_insert, which moves cells within the
\* leaf it still reads from, leaves the cells of the full leaf with the new one
\* at its place in the two leaves, in order, whatever the size of a leaf.
THEOREM SplitInOrder ==
  ASSUME NEW T, NEW cells \in Seq(T), Len(cells) = LEAF_NODE_MAX_CELLS,
         NEW at \in 0 .. LEAF_NODE_MAX_CELLS, NEW cell \in T
  PROVE  LET split == SplitCells(cells, at, cell)
         IN /\ split.old \in Seq(T) /\ Len(split.old) = LEAF_NODE_LEFT_SPLIT_COUNT
            /\ split.new \in Seq(T) /\ Len(split.new) = LEAF_NODE_RIGHT_SPLIT_COUNT
            /\ split.old \o split.new = InsertAt(cells, at + 1, cell)
<1> DEFINE low == SubSeq(OldAfter(cells, at, cell, 0), 1, L)
           high == NewAfter(cells, at, cell, 0)
           all == InsertAt(cells, at + 1, cell)
<1>1. Len(cells) = M /\ at \in 0 .. M
  BY DEF M
<1>2. /\ all \in Seq(T) /\ Len(all) = M + 1
      /\ \A i \in 1 .. M + 1 :
           all[i] = IF i <= at THEN cells[i] ELSE IF i = at + 1 THEN cell ELSE cells[i - 1]
  <2>1. at \in 0 .. Len(cells)
    BY <1>1
  <2>2. IsInsert(T, cells, at, cell, all)
    BY <2>1, InsertAtFacts
  <2> HIDE DEF all
  <2> QED BY <1>1, <2>2 DEF IsInsert
<1> HIDE DEF all
<1>3. ASSUME NEW k \in 0 .. M
      PROVE  SplitCell(cells, at, cell, k) = all[k + 1]
  BY <1>1, <1>2, Counts DEF SplitCell
<1>4. /\ low \in Seq(T) /\ Len(low) = L
      /\ \A j \in 1 .. L : low[j] = all[j]
  <2>1. ASSUME NEW j \in 1 .. L
        PROVE  OldAfter(cells, at, cell, 0)[j] = all[j]
    <3>1. j \in 1 .. M /\ j - 1 \in 0 .. M /\ (j - 1) + 1 = j /\ 0 < j /\ j <= L
      BY Counts
    <3>2. OldAfter(cells, at, cell, 0)[j] = SplitCell(cells, at, cell, j - 1)
      BY <3>1 DEF OldAfter
    <3> QED BY <1>3, <3>1, <3>2
  <2>2. low = [j \in 1 .. L |-> OldAfter(cells, at, cell, 0)[j]]
    BY Counts
  <2>3. \A j \in 1 .. L : all[j] \in T
    BY <1>2, Counts
  <2> HIDE DEF low
  <2> QED BY <2>1, <2>2, <2>3, Counts
<1>5. /\ high \in Seq(T) /\ Len(high) = R
      /\ \A j \in 1 .. R : high[j] = all[L + j]
  <2>1. ASSUME NEW j \in 1 .. R
        PROVE  high[j] = all[L + j]
    <3>1. L + j - 1 \in 0 .. M /\ (L + j - 1) + 1 = L + j /\ 0 < L + j
      BY Counts
    <3>2. high[j] = SplitCell(cells, at, cell, L + j - 1)
      BY <3>1 DEF NewAfter
    <3> QED BY <1>3, <3>1, <3>2
  <2>2. high = [j \in 1 .. R |-> high[j]]
    BY DEF NewAfter
  <2>3. \A j \in 1 .. R : high[j] \in T
    <3>1. \A j \in 1 .. R : L + j \in 1 .. M + 1
      BY Counts
    <3> HIDE DEF high
    <3> QED BY <1>2, <2>1, <3>1
  <2> HIDE DEF high
  <2>4. high \in Seq(T) /\ Len(high) = R
    BY <2>2, <2>3, Counts
  <2> QED BY <2>1, <2>4
<1> HIDE DEF low, high
<1>6. low \o high = all
  <2> DEFINE both == low \o high
  <2>1. /\ both \in Seq(T) /\ Len(both) = L + R
        /\ \A i \in 1 .. L + R : both[i] = IF i <= L THEN low[i] ELSE high[i - L]
    BY <1>4, <1>5, ConcatProperties
  <2> HIDE DEF both
  <2>2. \A i \in 1 .. M + 1 : both[i] = all[i]
    <3> TAKE i \in 1 .. M + 1
    <3>1. CASE i <= L
      <4>1. i \in 1 .. L /\ i \in 1 .. L + R
        BY <3>1, Counts
      <4> QED BY <1>4, <2>1, <3>1, <4>1
    <3>2. CASE i > L
      <4>1. i - L \in 1 .. R /\ L + (i - L) = i /\ i \in 1 .. L + R /\ ~ (i <= L)
        BY <3>2, Counts
      <4> QED BY <1>5, <2>1, <4>1
    <3> QED BY <3>1, <3>2, Counts
  <2>3. Len(both) = Len(all)
    BY <1>2, <2>1, Counts
  <2> QED BY <1>2, <2>1, <2>2, <2>3 DEF both
<1>7. SplitCells(cells, at, cell) = [old |-> low, new |-> high]
  BY <1>1, SplitLeaves DEF low, high
<1> QED BY <1>4, <1>5, <1>6, <1>7 DEF all, L, R
=============================================================================
