---------------------------- MODULE PromptProofs ----------------------------
(***************************************************************************)
(* Proofs about Prompt, for lines and paths of any characters and length.  *)
(*                                                                         *)
(* The loop of str_format is compared with the words of what it has read,  *)
(* the searches for blanks and slashes with the pieces of a string: CutAt  *)
(* says what pieces are by where they are cut, for which there is one way. *)
(***************************************************************************)
EXTENDS Prompt, SequenceTheorems, FiniteSetTheorems, WellFoundedInduction, TLAPS

Text == Seq(Characters)

-----------------------------------------------------------------------------
(* Least numbers, and recursion over numbers.                              *)

\* A set of naturals that is not empty has a least element.
LEMMA Least ==
  ASSUME NEW S, S \subseteq Nat, S # {}
  PROVE  \E x \in S : \A y \in S : x <= y
<1> DEFINE R == OpToRel(<, Nat)
<1>1. IsWellFoundedOn(R, Nat)
  BY NatLessThanWellFounded
<1>2. \A x, y \in Nat : x < y => <<x, y>> \in R
  BY DEF OpToRel
<1> HIDE DEF R
<1>3. PICK x \in S : \A y \in S : ~ (<<y, x>> \in R)
  BY <1>1, WFMin
<1>4. ASSUME NEW y \in S PROVE x <= y
  <2>1. x \in Nat /\ y \in Nat
    OBVIOUS
  <2>2. ~ (y < x)
    BY <1>2, <1>3, <2>1
  <2> QED BY <2>1, <2>2
<1> QED BY <1>4

\* f begins with first, and step leads from each of its values to the next.
Follows(f, n, first, step) ==
  \A i \in 0 .. n : f[i] = IF i = 0 THEN first ELSE step[<<i, f[i - 1]>>]

LEMMA Recursion ==
  ASSUME NEW n \in Nat, NEW S, NEW first \in S, NEW step \in [(1 .. n) \X S -> S]
  PROVE  \E f \in [0 .. n -> S] : Follows(f, n, first, step)
<1> USE DEF Follows
<1> DEFINE Good(f, k) == f \in [0 .. k -> S] /\ Follows(f, k, first, step)
           wrong == {k \in 0 .. n : ~ \E f : Good(f, k)}
<1>1. SUFFICES ASSUME wrong # {} PROVE FALSE
  <2>1. n \notin wrong => \E f : Good(f, n)
    OBVIOUS
  <2> QED BY <2>1
<1>0. wrong \subseteq Nat
  OBVIOUS
<1>2. PICK k \in wrong : \A j \in wrong : k <= j
  BY <1>0, <1>1, Least
<1>3. CASE k = 0
  <2>1. Good([i \in 0 .. 0 |-> first], 0)
    OBVIOUS
  <2> QED BY <1>2, <1>3, <2>1
<1>4. CASE k # 0
  <2>0. k \in 1 .. n /\ k - 1 \in 0 .. n /\ k - 1 < k
    BY <1>2, <1>4
  <2>1. k - 1 \notin wrong
    BY <1>2, <2>0
  <2>2. PICK f : Good(f, k - 1)
    BY <2>0, <2>1
  <2> DEFINE last == step[<<k, f[k - 1]>>]
             g == [i \in 0 .. k |-> IF i = k THEN last ELSE f[i]]
  <2>3. f[k - 1] \in S /\ last \in S
    BY <2>0, <2>2
  <2>4. \A i \in 0 .. k : g[i] = IF i = 0 THEN first ELSE step[<<i, g[i - 1]>>]
    <3> TAKE i \in 0 .. k
    <3>1. CASE i = k
      <4>1. g[k] = last /\ g[k - 1] = f[k - 1] /\ k # 0
        BY <2>0
      <4> QED BY <3>1, <4>1
    <3>2. CASE i # k
      <4>1. i \in 0 .. k - 1 /\ g[i] = f[i]
        BY <2>0, <3>2
      <4>2. f[i] = IF i = 0 THEN first ELSE step[<<i, f[i - 1]>>]
        BY <2>2, <4>1
      <4>3. i # 0 => g[i - 1] = f[i - 1]
        BY <2>0, <3>2
      <4> QED BY <4>1, <4>2, <4>3
    <3> QED BY <3>1, <3>2
  <2>5. g \in [0 .. k -> S]
    BY <2>0, <2>2, <2>3
  <2> HIDE DEF g
  <2>6. Good(g, k)
    BY <2>4, <2>5
  <2> QED BY <1>2, <2>6
<1> QED BY <1>3, <1>4

LEMMA StaysIn ==
  ASSUME NEW f, NEW n \in Nat, NEW S, f[0] \in S, \A i \in 1 .. n : f[i - 1] \in S => f[i] \in S
  PROVE  \A i \in 0 .. n : f[i] \in S
<1> DEFINE wrong == {i \in 0 .. n : f[i] \notin S}
<1>1. SUFFICES ASSUME wrong # {} PROVE FALSE
  OBVIOUS
<1>2. wrong \subseteq Nat
  OBVIOUS
<1>3. PICK i \in wrong : \A j \in wrong : i <= j
  BY <1>1, <1>2, Least
<1>4. i \in 1 .. n /\ i - 1 \in 0 .. n /\ i - 1 < i
  BY <1>3
<1>5. i - 1 \notin wrong
  BY <1>3, <1>4
<1> QED BY <1>3, <1>4, <1>5

-----------------------------------------------------------------------------
(* Pieces and words, one character at a time.                              *)

PieceStep(pieces, char, c) == IF char = c THEN Append(pieces, <<>>) ELSE Extended(pieces, char)
WordStep(words, s, n) ==
  IF s[n] = Blank THEN words
  ELSE IF n = 1 \/ s[n - 1] = Blank THEN Append(words, <<s[n]>>)
  ELSE Extended(words, s[n])

Lists == Seq(Text)

LEMMA ExtendedType ==
  ASSUME NEW q \in Lists, NEW x \in Characters
  PROVE  /\ Extended(q, x) \in Lists /\ Len(Extended(q, x)) = Len(q)
         /\ \A i \in 1 .. Len(q) : Extended(q, x)[i] = IF i = Len(q) THEN Append(q[i], x) ELSE q[i]
<1> DEFINE n == Len(q)
           e == Append(q[n], x)
<1>1. n \in Nat /\ q \in [1 .. n -> Text] /\ DOMAIN q = 1 .. n
  BY LenProperties DEF Lists
<1>2. Extended(q, x) = [q EXCEPT ![n] = e]
  BY DEF Extended
<1>3. CASE n = 0
  <2>1. q = <<>> /\ [q EXCEPT ![n] = e] = q
    BY <1>1, <1>3
  <2> QED BY <1>1, <1>2, <1>3, <2>1
<1>4. CASE n # 0
  <2>1. n \in 1 .. Len(q) /\ q[n] \in Text
    BY <1>1, <1>4
  <2>2. e \in Text
    BY <2>1, AppendProperties DEF Text
  <2> HIDE DEF e
  <2>3. /\ [q EXCEPT ![n] = e] \in Seq(Text) /\ Len([q EXCEPT ![n] = e]) = Len(q)
        /\ \A j \in 1 .. Len(q) : [q EXCEPT ![n] = e][j] = IF j = n THEN e ELSE q[j]
    BY <2>1, <2>2, ExceptSeq DEF Lists
  <2> QED BY <1>2, <2>3 DEF Lists, e
<1> QED BY <1>3, <1>4

LEMMA StepsType ==
  ASSUME NEW q \in Lists, NEW s \in Text, NEW n \in 1 .. Len(s), NEW c
  PROVE  PieceStep(q, s[n], c) \in Lists /\ WordStep(q, s, n) \in Lists
<1>1. s[n] \in Characters /\ <<s[n]>> \in Text /\ <<>> \in Text
  BY ElementOfSeq, EmptySeq DEF Text
<1>2. Append(q, <<>>) \in Lists /\ Append(q, <<s[n]>>) \in Lists
  BY <1>1, AppendProperties DEF Lists
<1>3. Extended(q, s[n]) \in Lists
  BY <1>1, ExtendedType
<1> QED BY <1>2, <1>3 DEF PieceStep, WordStep

\* The recursions in MyString have values.
PiecesBy(f, s, c) ==
  /\ f \in [0 .. Len(s) -> Lists] /\ f[0] = <<<<>>>>
  /\ \A i \in 1 .. Len(s) : f[i] = PieceStep(f[i - 1], s[i], c)
WordsBy(f, s) ==
  /\ f \in [0 .. Len(s) -> Lists] /\ f[0] = <<>>
  /\ \A i \in 1 .. Len(s) : f[i] = WordStep(f[i - 1], s, i)

LEMMA PiecesUpToIs ==
  ASSUME NEW s \in Text, NEW c
  PROVE  PiecesBy(PiecesUpTo(s, c), s, c)
<1> DEFINE n == Len(s)
           first == <<<<>>>>
           step == [x \in (1 .. n) \X Lists |-> PieceStep(x[2], s[x[1]], c)]
           Solves(f) == f = [i \in 0 .. n |-> IF i = 0 THEN first
                                          ELSE IF s[i] = c THEN Append(f[i - 1], <<>>)
                                          ELSE Extended(f[i - 1], s[i])]
           g == CHOOSE h : Solves(h)
<1>1. n \in Nat /\ first \in Lists
  BY LenProperties, EmptySeq DEF Text, Lists
<1>2. step \in [(1 .. n) \X Lists -> Lists]
  BY StepsType
<1>3. \A i \in 1 .. n, q \in Lists : step[<<i, q>>] = PieceStep(q, s[i], c)
  OBVIOUS
<1>4. PiecesUpTo(s, c) = g
  BY DEF PiecesUpTo
<1> HIDE DEF first, step, n
<1>5. PICK f \in [0 .. n -> Lists] : Follows(f, n, first, step)
  BY <1>1, <1>2, Recursion
<1>6. \A i \in 0 .. n : f[i] = IF i = 0 THEN first ELSE PieceStep(f[i - 1], s[i], c)
  <2> TAKE i \in 0 .. n
  <2>1. f[i] = IF i = 0 THEN first ELSE step[<<i, f[i - 1]>>]
    BY <1>5 DEF Follows
  <2>2. i # 0 => i \in 1 .. n /\ f[i - 1] \in Lists
    BY <1>1
  <2> QED BY <1>3, <2>1, <2>2
<1>7. Solves(f)
  <2>1. f = [i \in 0 .. n |-> f[i]]
    OBVIOUS
  <2> QED BY <1>6, <2>1 DEF PieceStep
<1>8. Solves(g)
  BY <1>7
<1> HIDE DEF g
<1>9. \A i \in 0 .. n : g[i] = IF i = 0 THEN first ELSE PieceStep(g[i - 1], s[i], c)
  BY <1>8 DEF PieceStep
<1>10. ASSUME NEW i \in 1 .. n, g[i - 1] \in Lists PROVE g[i] \in Lists
  <2>1. i \in 0 .. n /\ i # 0
    BY <1>1
  <2>2. PieceStep(g[i - 1], s[i], c) \in Lists
    BY <1>10, StepsType DEF n
  <2> QED BY <1>9, <2>1, <2>2
<1>11. g[0] = first
  BY <1>1, <1>9
<1>12. \A i \in 0 .. n : g[i] \in Lists
  BY <1>1, <1>10, <1>11, StaysIn
<1>13. g \in [0 .. n -> Lists]
  <2>1. g = [i \in 0 .. n |-> g[i]]
    BY <1>8, Zenon
  <2> QED BY <1>12, <2>1
<1>14. \A i \in 1 .. n : g[i] = PieceStep(g[i - 1], s[i], c)
  BY <1>1, <1>9
<1> QED BY <1>4, <1>11, <1>13, <1>14 DEF PiecesBy, n, first

LEMMA WordsUpToIs ==
  ASSUME NEW s \in Text
  PROVE  WordsBy(WordsUpTo(s), s)
<1> DEFINE n == Len(s)
           first == <<>>
           step == [x \in (1 .. n) \X Lists |-> WordStep(x[2], s, x[1])]
           Solves(f) == f = [i \in 0 .. n |-> IF i = 0 THEN first
                                          ELSE IF s[i] = Blank THEN f[i - 1]
                                          ELSE IF i = 1 \/ s[i - 1] = Blank THEN Append(f[i - 1], <<s[i]>>)
                                          ELSE Extended(f[i - 1], s[i])]
           g == CHOOSE h : Solves(h)
<1>1. n \in Nat /\ first \in Lists
  BY LenProperties, EmptySeq DEF Text, Lists
<1>2. step \in [(1 .. n) \X Lists -> Lists]
  BY StepsType
<1>3. \A i \in 1 .. n, q \in Lists : step[<<i, q>>] = WordStep(q, s, i)
  OBVIOUS
<1>4. WordsUpTo(s) = g
  BY DEF WordsUpTo
<1> HIDE DEF first, step, n
<1>5. PICK f \in [0 .. n -> Lists] : Follows(f, n, first, step)
  BY <1>1, <1>2, Recursion
<1>6. \A i \in 0 .. n : f[i] = IF i = 0 THEN first ELSE WordStep(f[i - 1], s, i)
  <2> TAKE i \in 0 .. n
  <2>1. f[i] = IF i = 0 THEN first ELSE step[<<i, f[i - 1]>>]
    BY <1>5 DEF Follows
  <2>2. i # 0 => i \in 1 .. n /\ f[i - 1] \in Lists
    BY <1>1
  <2> QED BY <1>3, <2>1, <2>2
<1>7. Solves(f)
  <2>1. f = [i \in 0 .. n |-> f[i]]
    OBVIOUS
  <2> QED BY <1>6, <2>1 DEF WordStep
<1>8. Solves(g)
  BY <1>7
<1> HIDE DEF g
<1>9. \A i \in 0 .. n : g[i] = IF i = 0 THEN first ELSE WordStep(g[i - 1], s, i)
  BY <1>8 DEF WordStep
<1>10. ASSUME NEW i \in 1 .. n, g[i - 1] \in Lists PROVE g[i] \in Lists
  <2>1. i \in 0 .. n /\ i # 0
    BY <1>1
  <2>2. WordStep(g[i - 1], s, i) \in Lists
    BY <1>10, StepsType DEF n
  <2> QED BY <1>9, <2>1, <2>2
<1>11. g[0] = first
  BY <1>1, <1>9
<1>12. \A i \in 0 .. n : g[i] \in Lists
  BY <1>1, <1>10, <1>11, StaysIn
<1>13. g \in [0 .. n -> Lists]
  <2>1. g = [i \in 0 .. n |-> g[i]]
    BY <1>8, Zenon
  <2> QED BY <1>12, <2>1
<1>14. \A i \in 1 .. n : g[i] = WordStep(g[i - 1], s, i)
  BY <1>1, <1>9
<1> QED BY <1>4, <1>11, <1>13, <1>14 DEF WordsBy, n, first

-----------------------------------------------------------------------------
(* Where a string is cut into its pieces.                                  *)

Piece(s, b, k) == SubSeq(s, b[k - 1] + 1, b[k] - 1)

\* b are the places where c cuts the first m characters of s into the pieces q.
CutAt(b, q, s, m, c) ==
  /\ q \in Lists /\ Len(q) > 0 /\ m \in 0 .. Len(s)
  /\ b \in [0 .. Len(q) -> 0 .. m + 1] /\ b[0] = 0 /\ b[Len(q)] = m + 1
  /\ \A k \in 1 .. Len(q) :
       /\ b[k - 1] < b[k] /\ q[k] = Piece(s, b, k)
       /\ \A i \in b[k - 1] + 1 .. b[k] - 1 : s[i] # c
       /\ k < Len(q) => s[b[k]] = c

LEMMA PieceFacts ==
  ASSUME NEW s \in Text, NEW i \in Nat, NEW j \in Nat, i < j, j <= Len(s) + 1
  PROVE  /\ SubSeq(s, i + 1, j - 1) \in Text /\ Len(SubSeq(s, i + 1, j - 1)) = j - i - 1
         /\ \A k \in 1 .. j - i - 1 : SubSeq(s, i + 1, j - 1)[k] = s[i + k]
<1> DEFINE m == i + 1
           n == j - 1
<1>1. m \in Int /\ n \in Int /\ Len(s) \in Nat
  BY LenProperties DEF Text
<1>2. \A k \in m .. n : s[k] \in Characters
  <2> TAKE k \in m .. n
  <2>1. k \in 1 .. Len(s)
    BY <1>1
  <2> QED BY <2>1, ElementOfSeq DEF Text
<1>3. /\ SubSeq(s, m, n) \in Seq(Characters)
      /\ Len(SubSeq(s, m, n)) = IF m <= n THEN n - m + 1 ELSE 0
      /\ \A k \in 1 .. n - m + 1 : SubSeq(s, m, n)[k] = s[m + k - 1]
  BY <1>1, <1>2, SubSeqProperties
<1>4. n - m + 1 = j - i - 1 /\ (m <= n <=> j - i - 1 > 0) /\ j - i - 1 >= 0
  OBVIOUS
<1>5. \A k \in 1 .. j - i - 1 : m + k - 1 = i + k
  OBVIOUS
<1> QED BY <1>3, <1>4, <1>5 DEF Text

\* The cuts of two strings that begin alike are the same up to the end of one.
LEMMA CutFirst ==
  ASSUME NEW s, NEW m, NEW c, NEW b, NEW q, NEW d, NEW r,
         CutAt(b, q, s, m, c), CutAt(d, r, s, m, c),
         NEW k \in 1 .. Len(q), k <= Len(r), b[k - 1] = d[k - 1]
  PROVE  ~(b[k] < d[k])
<1> SUFFICES ASSUME b[k] < d[k] PROVE FALSE
  OBVIOUS
<1>1. Len(q) \in Nat /\ Len(r) \in Nat /\ k \in 1 .. Len(r) /\ k \in 0 .. Len(q) /\ k \in 0 .. Len(r)
      /\ k - 1 \in 0 .. Len(q)
  BY LenProperties DEF CutAt, Lists
<1>2. m \in Int /\ b[k] \in 0 .. m + 1 /\ d[k] \in 0 .. m + 1 /\ b[k - 1] \in 0 .. m + 1
  <2>1. m \in Int /\ b \in [0 .. Len(q) -> 0 .. m + 1] /\ d \in [0 .. Len(r) -> 0 .. m + 1]
    BY DEF CutAt
  <2> QED BY <1>1, <2>1
<1>3. b[k - 1] < b[k] /\ (k < Len(q) => s[b[k]] = c) /\ b[Len(q)] = m + 1
  BY DEF CutAt
<1>4. \A i \in d[k - 1] + 1 .. d[k] - 1 : s[i] # c
  BY <1>1 DEF CutAt
<1>5. b[k] \in d[k - 1] + 1 .. d[k] - 1
  BY <1>2, <1>3
<1>6. k # Len(q)
  BY <1>2, <1>3
<1> QED BY <1>1, <1>3, <1>4, <1>5, <1>6

LEMMA CutAgree ==
  ASSUME NEW s, NEW m, NEW c, NEW b, NEW q, NEW d, NEW r,
         CutAt(b, q, s, m, c), CutAt(d, r, s, m, c), Len(q) <= Len(r)
  PROVE  Len(q) = Len(r) /\ \A k \in 0 .. Len(q) : b[k] = d[k]
<1>1. Len(q) \in Nat /\ Len(r) \in Nat /\ m \in Int
  BY LenProperties DEF CutAt, Lists
<1> DEFINE wrong == {k \in 0 .. Len(q) : b[k] # d[k]}
<1>2. wrong = {}
  <2> SUFFICES ASSUME wrong # {} PROVE FALSE
    OBVIOUS
  <2>1. wrong \subseteq Nat
    OBVIOUS
  <2>2. PICK k \in wrong : \A j \in wrong : k <= j
    BY <2>1, Least
  <2>3. k # 0
    BY <2>2 DEF CutAt
  <2>4. k \in 1 .. Len(q) /\ k \in 1 .. Len(r) /\ k - 1 \in 0 .. Len(q) /\ k - 1 < k
    BY <1>1, <2>2, <2>3
  <2>5. b[k - 1] = d[k - 1]
    BY <2>2, <2>4
  <2>6. ~(b[k] < d[k]) /\ ~(d[k] < b[k])
    BY <2>4, <2>5, CutFirst
  <2>7. b[k] \in Int /\ d[k] \in Int
    <3>1. k \in 0 .. Len(q) /\ k \in 0 .. Len(r)
      BY <1>1, <2>4
    <3>2. b \in [0 .. Len(q) -> 0 .. m + 1] /\ d \in [0 .. Len(r) -> 0 .. m + 1]
      BY DEF CutAt
    <3> QED BY <3>1, <3>2
  <2> QED BY <2>2, <2>6, <2>7
<1>3. Len(q) = Len(r)
  <2> SUFFICES ASSUME Len(q) < Len(r) PROVE FALSE
    BY <1>1
  <2> DEFINE k == Len(q) + 1
  <2>1. k \in 1 .. Len(r) /\ k - 1 = Len(q) /\ Len(q) \in 0 .. Len(r) /\ k \in 0 .. Len(r)
    BY <1>1
  <2> HIDE DEF k
  <2>2. d[Len(q)] = m + 1
    BY <1>1, <1>2 DEF CutAt
  <2>3. d[Len(q)] < d[k] /\ d[k] \in 0 .. m + 1
    BY <2>1 DEF CutAt
  <2> QED BY <1>1, <2>2, <2>3
<1> QED BY <1>2, <1>3

\* There is one way to cut.
LEMMA CutUnique ==
  ASSUME NEW s, NEW m, NEW c, NEW b, NEW q, NEW d, NEW r,
         CutAt(b, q, s, m, c), CutAt(d, r, s, m, c)
  PROVE  q = r /\ b = d
<1>1. q \in Lists /\ r \in Lists /\ Len(q) \in Nat /\ Len(r) \in Nat
  BY LenProperties DEF CutAt, Lists
<1>2. Len(q) = Len(r) /\ \A k \in 0 .. Len(q) : b[k] = d[k]
  <2>1. CASE Len(q) <= Len(r)
    BY <2>1, CutAgree
  <2>2. CASE Len(r) <= Len(q)
    BY <2>2, CutAgree
  <2> QED BY <1>1, <2>1, <2>2
<1>3. \A k \in 1 .. Len(q) : q[k] = r[k]
  <2> TAKE k \in 1 .. Len(q)
  <2>1. q[k] = Piece(s, b, k) /\ r[k] = Piece(s, d, k)
    BY <1>2 DEF CutAt
  <2>2. k \in 0 .. Len(q) /\ k - 1 \in 0 .. Len(q)
    BY <1>1
  <2> QED BY <1>2, <2>1, <2>2 DEF Piece
<1>4. q = r
  BY <1>1, <1>2, <1>3, SeqEqual DEF Lists
<1>5. b = d
  <2>1. b = [k \in 0 .. Len(q) |-> b[k]] /\ d = [k \in 0 .. Len(q) |-> d[k]]
    BY <1>2 DEF CutAt
  <2> QED BY <1>2, <2>1
<1> QED BY <1>4, <1>5

\* One more character is a cut or goes to the last piece.
LEMMA CutStep ==
  ASSUME NEW s \in Text, NEW m, NEW c, NEW b, NEW q, CutAt(b, q, s, m, c), m < Len(s)
  PROVE  \E d : CutAt(d, PieceStep(q, s[m + 1], c), s, m + 1, c)
<1> DEFINE n == Len(q)
           x == s[m + 1]
<1>1. /\ n \in Nat \ {0} /\ m \in Nat /\ Len(s) \in Nat /\ m + 1 \in 1 .. Len(s) /\ m + 1 \in 0 .. Len(s)
      /\ q \in Lists /\ x \in Characters
  <2>1. /\ n \in Nat /\ m \in Nat /\ Len(s) \in Nat /\ q \in Lists /\ n > 0
    BY LenProperties DEF CutAt, Lists, Text
  <2>2. m + 1 \in 1 .. Len(s)
    BY <2>1
  <2> QED BY <2>1, <2>2, ElementOfSeq DEF Text
<1>2. /\ b \in [0 .. n -> 0 .. m + 1] /\ b[0] = 0 /\ b[n] = m + 1
      /\ \A k \in 1 .. n :
           /\ b[k - 1] < b[k] /\ q[k] = Piece(s, b, k)
           /\ \A i \in b[k - 1] + 1 .. b[k] - 1 : s[i] # c
           /\ k < n => s[b[k]] = c
  BY DEF CutAt
<1>3. CASE x = c
  <2> DEFINE r == Append(q, <<>>)
             d == [k \in 0 .. n + 1 |-> IF k = n + 1 THEN m + 2 ELSE b[k]]
  <2>1. /\ r \in Lists /\ Len(r) = n + 1 /\ \A k \in 1 .. n : r[k] = q[k]
        /\ r[n + 1] = <<>>
    <3>1. <<>> \in Text
      BY EmptySeq DEF Text
    <3> QED BY <1>1, <3>1, AppendProperties DEF Lists
  <2>2. d \in [0 .. n + 1 -> 0 .. m + 2] /\ d[n + 1] = m + 2 /\ \A k \in 0 .. n : d[k] = b[k]
    BY <1>1, <1>2
  <2> HIDE DEF r, d, n
  <2>3. ASSUME NEW k \in 1 .. n + 1
        PROVE  /\ d[k - 1] < d[k] /\ r[k] = Piece(s, d, k)
               /\ \A i \in d[k - 1] + 1 .. d[k] - 1 : s[i] # c
               /\ k < n + 1 => s[d[k]] = c
    <3>1. CASE k = n + 1
      <4>1. d[k - 1] = m + 1 /\ d[k] = m + 2
        BY <1>1, <1>2, <2>2, <3>1
      <4>2. SubSeq(s, (m + 1) + 1, (m + 2) - 1) = <<>>
        BY <1>1, SubSeqEmpty
      <4>3. r[k] = Piece(s, d, k)
        BY <2>1, <3>1, <4>1, <4>2 DEF Piece
      <4>4. \A i \in d[k - 1] + 1 .. d[k] - 1 : FALSE
        BY <1>1, <4>1
      <4> QED BY <1>1, <3>1, <4>1, <4>3, <4>4
    <3>2. CASE k # n + 1
      <4>1. k \in 1 .. n /\ k \in 0 .. n /\ k - 1 \in 0 .. n
        BY <1>1, <3>2
      <4>2. d[k - 1] = b[k - 1] /\ d[k] = b[k] /\ r[k] = q[k]
        BY <2>1, <2>2, <4>1
      <4>3. k = n => s[b[k]] = c
        BY <1>2, <1>3
      <4>4. r[k] = Piece(s, d, k)
        BY <1>2, <4>1, <4>2 DEF Piece
      <4>5. k < n \/ k = n
        BY <1>1, <4>1
      <4> QED BY <1>2, <4>1, <4>2, <4>3, <4>4, <4>5
    <3> QED BY <3>1, <3>2
  <2>4. d[0] = 0 /\ (m + 1) + 1 = m + 2
    BY <1>1, <1>2, <2>2
  <2>5. CutAt(d, r, s, m + 1, c)
    BY <1>1, <2>1, <2>2, <2>3, <2>4 DEF CutAt
  <2> QED BY <1>3, <2>5 DEF PieceStep, r, x
<1>4. CASE x # c
  <2> DEFINE r == Extended(q, x)
             d == [k \in 0 .. n |-> IF k = n THEN m + 2 ELSE b[k]]
  <2>1. /\ r \in Lists /\ Len(r) = n
        /\ \A k \in 1 .. n : r[k] = IF k = n THEN Append(q[k], x) ELSE q[k]
    BY <1>1, ExtendedType
  <2>2. d \in [0 .. n -> 0 .. m + 2] /\ d[n] = m + 2 /\ \A k \in 0 .. n - 1 : d[k] = b[k]
    BY <1>1, <1>2
  <2> HIDE DEF r, d, n
  <2>3. ASSUME NEW k \in 1 .. n
        PROVE  /\ d[k - 1] < d[k] /\ r[k] = Piece(s, d, k)
               /\ \A i \in d[k - 1] + 1 .. d[k] - 1 : s[i] # c
               /\ k < n => s[d[k]] = c
    <3>1. k - 1 \in 0 .. n - 1 /\ k - 1 \in 0 .. n /\ d[k - 1] = b[k - 1] /\ b[k - 1] \in Nat
      BY <1>1, <1>2, <2>2
    <3>2. CASE k = n
      <4>1. d[k] = m + 2 /\ b[k] = m + 1 /\ b[k - 1] < m + 1
        BY <1>2, <2>2, <3>2
      <4> DEFINE j == b[k - 1] + 1
      <4>2. r[k] = Append(SubSeq(s, j, m), x)
        <5>1. (m + 1) - 1 = m
          BY <1>1
        <5>2. q[k] = SubSeq(s, j, b[k] - 1)
          BY <1>2 DEF Piece
        <5>3. r[k] = Append(q[k], x)
          BY <2>1, <3>2
        <5> QED BY <4>1, <5>1, <5>2, <5>3
      <4>3. Append(SubSeq(s, j, m), x) = SubSeq(s, j, m + 1)
        <5> DEFINE u == SubSeq(s, j, m)
                   v == SubSeq(s, j, m + 1)
                   w == Append(u, x)
                   l == m - b[k - 1]
        <5>0. /\ b[k - 1] \in Nat /\ m + 1 \in Nat /\ m + 2 \in Nat
              /\ b[k - 1] < m + 1 /\ b[k - 1] < m + 2
              /\ m + 1 <= Len(s) + 1 /\ m + 2 <= Len(s) + 1
          BY <1>1, <3>1, <4>1
        <5>1. u \in Text /\ Len(u) = l /\ \A i \in 1 .. l : u[i] = s[b[k - 1] + i]
          <6> DEFINE z == m + 1
          <6>1. z - 1 = m /\ z - b[k - 1] - 1 = l
            BY <1>1, <3>1
          <6>2. z \in Nat /\ b[k - 1] < z /\ z <= Len(s) + 1
            BY <5>0
          <6> HIDE DEF z, l
          <6>3. /\ SubSeq(s, j, z - 1) \in Text /\ Len(SubSeq(s, j, z - 1)) = z - b[k - 1] - 1
                /\ \A i \in 1 .. z - b[k - 1] - 1 : SubSeq(s, j, z - 1)[i] = s[b[k - 1] + i]
            BY <3>1, <6>2, PieceFacts
          <6> QED BY <6>1, <6>3
        <5>2. v \in Text /\ Len(v) = l + 1 /\ \A i \in 1 .. l + 1 : v[i] = s[b[k - 1] + i]
          <6> DEFINE z == m + 2
          <6>1. z - 1 = m + 1 /\ z - b[k - 1] - 1 = l + 1
            BY <1>1, <3>1
          <6>2. z \in Nat /\ b[k - 1] < z /\ z <= Len(s) + 1
            BY <5>0
          <6> HIDE DEF z, l
          <6>3. /\ SubSeq(s, j, z - 1) \in Text /\ Len(SubSeq(s, j, z - 1)) = z - b[k - 1] - 1
                /\ \A i \in 1 .. z - b[k - 1] - 1 : SubSeq(s, j, z - 1)[i] = s[b[k - 1] + i]
            BY <3>1, <6>2, PieceFacts
          <6> QED BY <6>1, <6>3
        <5> HIDE DEF u, v
        <5>3. w \in Text /\ Len(w) = l + 1 /\ w[l + 1] = x /\ \A i \in 1 .. l : w[i] = u[i]
          BY <1>1, <5>1, AppendProperties DEF Text
        <5> HIDE DEF w
        <5>4. l \in Nat /\ b[k - 1] + (l + 1) = m + 1
          BY <1>1, <3>1, <4>1
        <5>5. \A i \in 1 .. l + 1 : w[i] = v[i]
          <6> TAKE i \in 1 .. l + 1
          <6>1. i = l + 1 \/ i \in 1 .. l
            BY <5>4
          <6> QED BY <5>1, <5>2, <5>3, <5>4, <6>1
        <5>6. w = v
          BY <5>2, <5>3, <5>5, SeqEqual DEF Text
        <5> QED BY <5>6 DEF u, v, w
      <4>4. r[k] = Piece(s, d, k)
        <5>1. (m + 2) - 1 = m + 1
          BY <1>1
        <5> QED BY <3>1, <4>1, <4>2, <4>3, <5>1 DEF Piece
      <4>5. \A i \in d[k - 1] + 1 .. d[k] - 1 : s[i] # c
        <5> TAKE i \in d[k - 1] + 1 .. d[k] - 1
        <5>1. i = m + 1 \/ i \in b[k - 1] + 1 .. b[k] - 1
          BY <1>1, <3>1, <4>1
        <5> QED BY <1>2, <1>4, <5>1
      <4> QED BY <1>1, <3>1, <3>2, <4>1, <4>4, <4>5
    <3>3. CASE k # n
      <4>1. k \in 0 .. n - 1 /\ d[k] = b[k] /\ r[k] = q[k]
        BY <1>1, <2>1, <2>2, <3>3
      <4> QED BY <1>2, <3>1, <4>1 DEF Piece
    <3> QED BY <3>2, <3>3
  <2>4. d[0] = 0 /\ (m + 1) + 1 = m + 2 /\ n > 0
    BY <1>1, <1>2, <2>2
  <2>5. CutAt(d, r, s, m + 1, c)
    BY <1>1, <2>1, <2>2, <2>3, <2>4 DEF CutAt
  <2> QED BY <1>4, <2>5 DEF PieceStep, r, x
<1> QED BY <1>3, <1>4

\* The same characters, i places on.
LEMMA SamePiece ==
  ASSUME NEW s \in Text, NEW r \in Text, NEW i \in Nat, NEW j \in Nat, i < j, j <= Len(s) + 1,
         NEW off \in Nat, off + j <= Len(r) + 1, \A k \in i + 1 .. j - 1 : r[off + k] = s[k]
  PROVE  SubSeq(r, (off + i) + 1, (off + j) - 1) = SubSeq(s, i + 1, j - 1)
<1> DEFINE u == SubSeq(s, i + 1, j - 1)
           x == off + i
           y == off + j
           v == SubSeq(r, x + 1, y - 1)
           l == j - i - 1
<1>1. u \in Text /\ Len(u) = l /\ \A k \in 1 .. l : u[k] = s[i + k]
  BY PieceFacts
<1>2. /\ x \in Nat /\ y \in Nat /\ x < y /\ y <= Len(r) + 1 /\ y - x - 1 = l /\ l \in Nat
      /\ \A k \in 1 .. l : i + k \in i + 1 .. j - 1 /\ off + (i + k) = x + k
  OBVIOUS
<1> HIDE DEF u, x, y, l
<1>3. v \in Text /\ Len(v) = y - x - 1 /\ \A k \in 1 .. y - x - 1 : v[k] = r[x + k]
  BY <1>2, PieceFacts
<1> HIDE DEF v
<1>4. \A k \in 1 .. l : v[k] = u[k]
  <2> TAKE k \in 1 .. l
  <2>1. v[k] = r[x + k] /\ u[k] = s[i + k] /\ i + k \in i + 1 .. j - 1 /\ off + (i + k) = x + k
    BY <1>1, <1>2, <1>3
  <2> QED BY <2>1
<1>5. v = u
  BY <1>1, <1>2, <1>3, <1>4, SeqEqual DEF Text
<1> QED BY <1>5 DEF v, u, x, y

LEMMA CutSame ==
  ASSUME NEW s \in Text, NEW r \in Text, NEW m, NEW c, NEW b, NEW q, CutAt(b, q, s, m, c),
         m <= Len(r), \A i \in 1 .. m : r[i] = s[i]
  PROVE  CutAt(b, q, r, m, c)
<1> DEFINE n == Len(q)
<1>1. /\ q \in Lists /\ n > 0 /\ m \in 0 .. Len(s) /\ n \in Nat
      /\ b \in [0 .. n -> 0 .. m + 1] /\ b[0] = 0 /\ b[n] = m + 1
      /\ \A k \in 1 .. n :
           /\ b[k - 1] < b[k] /\ q[k] = Piece(s, b, k)
           /\ \A i \in b[k - 1] + 1 .. b[k] - 1 : s[i] # c
           /\ k < n => s[b[k]] = c
  BY LenProperties DEF CutAt, Lists
<1>2. Len(s) \in Nat /\ Len(r) \in Nat /\ m \in 0 .. Len(r)
  BY <1>1, LenProperties DEF Text
<1> HIDE DEF n
<1>3. ASSUME NEW k \in 1 .. n
      PROVE  /\ b[k - 1] < b[k] /\ q[k] = Piece(r, b, k)
             /\ \A i \in b[k - 1] + 1 .. b[k] - 1 : r[i] # c
             /\ k < n => r[b[k]] = c
  <2> DEFINE i == b[k - 1]
             j == b[k]
  <2>1. k \in 0 .. n /\ k - 1 \in 0 .. n
    BY <1>1
  <2>2. i \in 0 .. m + 1 /\ j \in 0 .. m + 1 /\ i < j
    BY <1>1, <2>1
  <2>3. i \in Nat /\ j \in Nat /\ i < j /\ j <= Len(s) + 1 /\ 0 + j <= Len(r) + 1 /\ 0 \in Nat
        /\ 0 + i = i /\ 0 + j = j
    BY <1>1, <1>2, <2>2
  <2>4. q[k] = SubSeq(s, i + 1, j - 1) /\ (\A l \in i + 1 .. j - 1 : s[l] # c) /\ (k < n => s[j] = c)
    BY <1>1 DEF Piece
  <2>5. k < n => j \in 1 .. m
    <3> SUFFICES ASSUME k < n PROVE j \in 1 .. m
      OBVIOUS
    <3>1. k + 1 \in 1 .. n /\ k + 1 \in 0 .. n /\ (k + 1) - 1 = k
      BY <1>1
    <3>2. b[k] < b[k + 1] /\ b[k + 1] \in 0 .. m + 1
      BY <1>1, <3>1
    <3>3. m \in Nat
      BY <1>2
    <3> HIDE DEF i
    <3> QED BY <2>2, <3>2, <3>3
  <2>6. \A l \in i + 1 .. j - 1 : r[l] = s[l] /\ l \in Int
    BY <1>1, <2>2
  <2>7. Piece(r, b, k) = SubSeq(r, i + 1, j - 1)
    BY DEF Piece
  <2> HIDE DEF i, j
  <2>8. \A l \in i + 1 .. j - 1 : r[0 + l] = s[l]
    BY <2>6
  <2>9. SubSeq(r, (0 + i) + 1, (0 + j) - 1) = SubSeq(s, i + 1, j - 1)
    BY <2>3, <2>8, SamePiece
  <2>10. k < n => r[j] = c
    BY <2>4, <2>5
  <2> QED BY <2>2, <2>3, <2>4, <2>6, <2>7, <2>9, <2>10 DEF i, j
<1> QED BY <1>1, <1>2, <1>3 DEF CutAt, n

\* Before the first character.
LEMMA CutStart ==
  ASSUME NEW s \in Text, NEW c
  PROVE  CutAt([k \in 0 .. 1 |-> k], <<<<>>>>, s, 0, c)
<1> DEFINE b == [k \in 0 .. 1 |-> k]
           e == <<>>
           q == <<e>>
<1>1. e \in Text /\ Len(s) \in Nat
  BY EmptySeq, LenProperties DEF Text
<1>2. e = SubSeq(s, 1, 0)
  BY SubSeqEmpty
<1> HIDE DEF e
<1>3. q \in Lists /\ Len(q) = 1 /\ q[1] = e
  BY <1>1 DEF Lists
<1>4. b \in [0 .. 1 -> 0 .. 0 + 1] /\ b[0] = 0 /\ b[1] = 0 + 1 /\ 0 \in 0 .. Len(s)
  BY <1>1
<1> HIDE DEF b, q
<1>5. \A k \in 1 .. 1 : /\ b[k - 1] < b[k] /\ q[k] = Piece(s, b, k)
                        /\ \A i \in b[k - 1] + 1 .. b[k] - 1 : s[i] # c
                        /\ k < 1 => s[b[k]] = c
  <2>1. b[1 - 1] + 1 = 1 /\ b[1] - 1 = 0
    BY <1>4
  <2>2. Piece(s, b, 1) = e
    BY <1>2, <2>1 DEF Piece
  <2> QED BY <1>3, <1>4, <2>1, <2>2
<1>6. CutAt(b, q, s, 0, c)
  BY <1>3, <1>4, <1>5 DEF CutAt
<1> QED BY <1>6 DEF b, q, e

LEMMA PiecesAreCut ==
  ASSUME NEW s \in Text, NEW c
  PROVE  \E b : CutAt(b, Pieces(s, c), s, Len(s), c)
<1> DEFINE f == PiecesUpTo(s, c)
           wrong == {m \in 0 .. Len(s) : ~ \E b : CutAt(b, f[m], s, m, c)}
<1>1. /\ f[0] = <<<<>>>> /\ Len(s) \in Nat
      /\ \A m \in 1 .. Len(s) : f[m] = PieceStep(f[m - 1], s[m], c)
  BY PiecesUpToIs, LenProperties DEF PiecesBy, Text
<1> HIDE DEF f
<1>2. wrong = {}
  <2> SUFFICES ASSUME wrong # {} PROVE FALSE
    OBVIOUS
  <2>1. wrong \subseteq Nat
    OBVIOUS
  <2>2. PICK m \in wrong : \A j \in wrong : m <= j
    BY <2>1, Least
  <2>3. m # 0
    BY <1>1, <2>2, CutStart
  <2> DEFINE l == m - 1
  <2>4. m \in 1 .. Len(s) /\ l \in 0 .. Len(s) /\ l < m /\ l + 1 = m /\ l < Len(s)
    BY <1>1, <2>2, <2>3
  <2>5. f[m] = PieceStep(f[l], s[m], c)
    BY <1>1, <2>4
  <2> HIDE DEF l
  <2>6. PICK b : CutAt(b, f[l], s, l, c)
    BY <2>2, <2>4
  <2>7. \E d : CutAt(d, PieceStep(f[l], s[l + 1], c), s, l + 1, c)
    BY <2>4, <2>6, CutStep
  <2> QED BY <2>2, <2>4, <2>5, <2>7
<1>3. Len(s) \in 0 .. Len(s)
  BY <1>1
<1>4. \E b : CutAt(b, f[Len(s)], s, Len(s), c)
  BY <1>2, <1>3
<1> QED BY <1>4 DEF Pieces, f

LEMMA PiecesAre ==
  ASSUME NEW s \in Text, NEW c, NEW b, NEW q, CutAt(b, q, s, Len(s), c)
  PROVE  Pieces(s, c) = q
<1>1. PICK d : CutAt(d, Pieces(s, c), s, Len(s), c)
  BY PiecesAreCut
<1> QED BY <1>1, CutUnique

LEMMA PiecesAppend ==
  ASSUME NEW s \in Text, NEW x \in Characters, NEW c
  PROVE  Pieces(Append(s, x), c) = PieceStep(Pieces(s, c), x, c)
<1> DEFINE r == Append(s, x)
           m == Len(s)
           q == Pieces(s, c)
<1>1. r \in Text /\ Len(r) = m + 1 /\ r[m + 1] = x /\ m \in Nat /\ \A i \in 1 .. m : r[i] = s[i]
  BY AppendProperties, LenProperties DEF Text
<1>2. PICK b : CutAt(b, q, s, m, c)
  BY PiecesAreCut
<1> HIDE DEF r, q, m
<1>3. m <= Len(r) /\ m < Len(r)
  BY <1>1
<1>4. CutAt(b, q, r, m, c)
  BY <1>1, <1>2, <1>3, CutSame
<1>5. \E d : CutAt(d, PieceStep(q, r[m + 1], c), r, m + 1, c)
  BY <1>1, <1>3, <1>4, CutStep
<1> QED BY <1>1, <1>5, PiecesAre DEF r, q

LEMMA PiecesOfNone == ASSUME NEW c PROVE Pieces(<<>>, c) = <<<<>>>>
<1>1. <<>> \in Text /\ Len(<<>>) = 0
  BY EmptySeq DEF Text
<1>2. CutAt([k \in 0 .. 1 |-> k], <<<<>>>>, <<>>, Len(<<>>), c)
  BY <1>1, CutStart
<1> QED BY <1>1, <1>2, PiecesAre

-----------------------------------------------------------------------------
(* What the searches find.                                                 *)

LEMMA MinIs ==
  ASSUME NEW S, S \subseteq Int, NEW x \in S, \A y \in S : x <= y
  PROVE  Min(S) = x
<1>1. Min(S) \in S /\ \A y \in S : Min(S) <= y
  BY DEF Min
<1>2. Min(S) \in Int /\ x \in Int /\ Min(S) <= x /\ x <= Min(S)
  BY <1>1
<1> QED BY <1>2

LEMMA MaxIs ==
  ASSUME NEW S, S \subseteq Int, NEW x \in S, \A y \in S : y <= x
  PROVE  Max(S) = x
<1>1. Max(S) \in S /\ \A y \in S : Max(S) >= y
  <2>1. \A y \in S : x >= y
    OBVIOUS
  <2> QED BY <2>1 DEF Max
<1>2. Max(S) \in Int /\ x \in Int /\ x <= Max(S) /\ Max(S) <= x
  BY <1>1
<1> QED BY <1>2

LEMMA CutFacts ==
  ASSUME NEW s \in Text, NEW c, NEW b, NEW q, CutAt(b, q, s, Len(s), c)
  PROVE  /\ Len(s) \in Nat /\ Len(q) \in Nat \ {0} /\ q \in Lists
         /\ b[0] = 0 /\ b[Len(q)] = Len(s) + 1 /\ \A k \in 0 .. Len(q) : b[k] \in 0 .. Len(s) + 1
         /\ \A k \in 1 .. Len(q) :
              /\ b[k - 1] < b[k] /\ q[k] = SubSeq(s, b[k - 1] + 1, b[k] - 1) /\ q[k] \in Text
              /\ b[k - 1] \in 0 .. Len(s) /\ Len(q[k]) = b[k] - b[k - 1] - 1
              /\ \A i \in b[k - 1] + 1 .. b[k] - 1 : s[i] # c
              /\ k < Len(q) => s[b[k]] = c /\ b[k] \in 1 .. Len(s)
<1> DEFINE n == Len(q)
<1>1. /\ q \in Lists /\ n > 0 /\ n \in Nat /\ Len(s) \in Nat
      /\ b \in [0 .. n -> 0 .. Len(s) + 1] /\ b[0] = 0 /\ b[n] = Len(s) + 1
      /\ \A k \in 1 .. n :
           /\ b[k - 1] < b[k] /\ q[k] = Piece(s, b, k)
           /\ \A i \in b[k - 1] + 1 .. b[k] - 1 : s[i] # c
           /\ k < n => s[b[k]] = c
  BY LenProperties DEF CutAt, Lists, Text
<1> HIDE DEF n
<1>2. ASSUME NEW k \in 1 .. n
      PROVE  /\ b[k - 1] < b[k] /\ q[k] = SubSeq(s, b[k - 1] + 1, b[k] - 1) /\ q[k] \in Text
             /\ b[k - 1] \in 0 .. Len(s) /\ Len(q[k]) = b[k] - b[k - 1] - 1
             /\ \A i \in b[k - 1] + 1 .. b[k] - 1 : s[i] # c
             /\ k < n => s[b[k]] = c /\ b[k] \in 1 .. Len(s)
  <2> DEFINE i == b[k - 1]
             j == b[k]
  <2>1. k \in 0 .. n /\ k - 1 \in 0 .. n
    BY <1>1
  <2>2. /\ i \in 0 .. Len(s) + 1 /\ j \in 0 .. Len(s) + 1 /\ i < j
        /\ i \in Nat /\ j \in Nat /\ j <= Len(s) + 1 /\ i \in 0 .. Len(s)
    BY <1>1, <2>1
  <2>3. q[k] = SubSeq(s, i + 1, j - 1)
    BY <1>1 DEF Piece
  <2>4. k < n => j \in 1 .. Len(s)
    <3> SUFFICES ASSUME k < n PROVE j \in 1 .. Len(s)
      OBVIOUS
    <3>1. k + 1 \in 1 .. n /\ k + 1 \in 0 .. n /\ (k + 1) - 1 = k
      BY <1>1
    <3>2. b[k] < b[k + 1] /\ b[k + 1] \in 0 .. Len(s) + 1
      BY <1>1, <3>1
    <3> QED BY <1>1, <2>2, <3>2
  <2> HIDE DEF i, j
  <2>5. SubSeq(s, i + 1, j - 1) \in Text /\ Len(SubSeq(s, i + 1, j - 1)) = j - i - 1
    BY <2>2, PieceFacts
  <2> QED BY <1>1, <2>2, <2>3, <2>4, <2>5 DEF i, j
<1>3. \A k \in 1 .. n :
              /\ b[k - 1] < b[k] /\ q[k] = SubSeq(s, b[k - 1] + 1, b[k] - 1) /\ q[k] \in Text
              /\ b[k - 1] \in 0 .. Len(s) /\ Len(q[k]) = b[k] - b[k - 1] - 1
              /\ \A i \in b[k - 1] + 1 .. b[k] - 1 : s[i] # c
              /\ k < n => s[b[k]] = c /\ b[k] \in 1 .. Len(s)
  <2> TAKE k \in 1 .. n
  <2> QED BY <1>2
<1>4. /\ Len(s) \in Nat /\ n \in Nat \ {0} /\ q \in Lists
      /\ b[0] = 0 /\ b[n] = Len(s) + 1 /\ \A k \in 0 .. n : b[k] \in 0 .. Len(s) + 1
  BY <1>1
<1> QED BY <1>3, <1>4 DEF n

\* The search from one cut finds the next.
LEMMA FindsCut ==
  ASSUME NEW s \in Text, NEW c, NEW b, NEW q, CutAt(b, q, s, Len(s), c), NEW k \in 1 .. Len(q)
  PROVE  /\ k < Len(q) => str_indexOf_start(s, c, b[k - 1]) = b[k] - 1
         /\ k = Len(q) => str_indexOf_start(s, c, b[k - 1]) = -1
<1> DEFINE found == Positions(s, c, b[k - 1])
<1>1. /\ Len(s) \in Nat /\ Len(q) \in Nat /\ b[k - 1] \in 0 .. Len(s) /\ b[k] \in 0 .. Len(s) + 1
      /\ b[k - 1] < b[k] /\ b[Len(q)] = Len(s) + 1
      /\ \A i \in b[k - 1] + 1 .. b[k] - 1 : s[i] # c
      /\ k < Len(q) => s[b[k]] = c /\ b[k] \in 1 .. Len(s)
  BY CutFacts
<1>2. ASSUME NEW i \in found PROVE i \in Int /\ b[k] - 1 <= i
  <2>1. i \in 0 .. Len(s) - 1 /\ i >= b[k - 1] /\ s[i + 1] = c
    BY DEF Positions
  <2>2. i + 1 \notin b[k - 1] + 1 .. b[k] - 1
    BY <1>1, <2>1
  <2> QED BY <1>1, <2>1, <2>2
<1>3. CASE k < Len(q)
  <2> DEFINE x == b[k] - 1
  <2>1. x \in found
    <3>1. x \in 0 .. Len(s) - 1 /\ x >= b[k - 1] /\ x + 1 = b[k]
      BY <1>1, <1>3
    <3> QED BY <1>1, <1>3, <3>1 DEF Positions
  <2>2. \A y \in found : x <= y
    BY <1>2
  <2>3. x \in Int
    BY <1>1
  <2>4. found \subseteq Int
    BY <1>2
  <2> HIDE DEF found, x
  <2>5. Min(found) = x
    BY <2>1, <2>2, <2>4, MinIs
  <2> QED BY <1>3, <2>1, <2>5 DEF str_indexOf_start, found, x
<1>4. CASE k = Len(q)
  <2>1. found = {}
    <3> SUFFICES ASSUME NEW i \in found PROVE FALSE
      OBVIOUS
    <3>1. i \in 0 .. Len(s) - 1 /\ Len(s) <= i
      <4>1. i \in 0 .. Len(s) - 1
        BY DEF Positions
      <4> QED BY <1>1, <1>2, <1>4, <4>1
    <3> QED BY <1>1, <3>1
  <2> QED BY <1>4, <2>1 DEF str_indexOf_start
<1> QED BY <1>3, <1>4

LEMMA FindsLast ==
  ASSUME NEW s \in Text, NEW c, NEW b, NEW q, CutAt(b, q, s, Len(s), c)
  PROVE  str_lastIndexOf(s, c) = b[Len(q) - 1] - 1
<1> DEFINE found == Positions(s, c, 0)
           k == Len(q)
           x == b[k - 1] - 1
<1>1. /\ Len(s) \in Nat /\ k \in Nat \ {0} /\ k \in 1 .. k /\ b[k - 1] \in 0 .. Len(s) /\ b[0] = 0
      /\ b[k] = Len(s) + 1
      /\ \A i \in b[k - 1] + 1 .. b[k] - 1 : s[i] # c
  <2>1. k \in 1 .. k
    BY CutFacts
  <2> QED BY <2>1, CutFacts
<1>2. ASSUME NEW i \in found PROVE i \in Int /\ i <= x /\ 0 <= i
  <2>1. i \in 0 .. Len(s) - 1 /\ s[i + 1] = c
    BY DEF Positions
  <2>2. i + 1 \notin b[k - 1] + 1 .. b[k] - 1
    BY <1>1, <2>1
  <2> QED BY <1>1, <2>1, <2>2
<1>3. CASE k = 1
  <2>1. x = -1
    BY <1>1, <1>3
  <2>2. found = {}
    BY <1>2, <2>1
  <2> QED BY <2>1, <2>2 DEF str_lastIndexOf
<1>4. CASE k # 1
  <2>1. x \in found
    <3> DEFINE l == k - 1
    <3>1. l \in 1 .. Len(q) /\ l < Len(q)
      <4>1. Len(q) \in Nat \ {0} /\ Len(q) # 1
        BY <1>1, <1>4
      <4> QED BY <4>1
    <3> HIDE DEF l
    <3>2. s[b[l]] = c /\ b[l] \in 1 .. Len(s)
      BY <3>1, CutFacts
    <3>3. x = b[l] - 1 /\ x \in 0 .. Len(s) - 1 /\ x + 1 = b[l] /\ x >= 0
      BY <1>1, <3>2 DEF l
    <3> QED BY <3>2, <3>3 DEF Positions
  <2>2. found \subseteq Int /\ \A i \in found : i <= x
    BY <1>2
  <2> HIDE DEF found, x
  <2>3. Max(found) = x
    BY <2>1, <2>2, MaxIs
  <2> QED BY <2>1, <2>3 DEF str_lastIndexOf, found, x
<1> QED BY <1>3, <1>4

\* A string without c is its only piece.
LEMMA Uncut ==
  ASSUME NEW s \in Text, NEW c, \A i \in 1 .. Len(s) : s[i] # c
  PROVE  Pieces(s, c) = <<s>>
<1> DEFINE n == Len(s)
           b == [k \in 0 .. 1 |-> IF k = 0 THEN 0 ELSE n + 1]
           q == <<s>>
<1>1. n \in Nat /\ SubSeq(s, 1, n) = s
  BY LenProperties, SubSeqFull DEF Text
<1>2. q \in Lists /\ Len(q) = 1 /\ q[1] = s
  BY DEF Lists
<1>3. b \in [0 .. 1 -> 0 .. n + 1] /\ b[0] = 0 /\ b[1] = n + 1 /\ n \in 0 .. n
  BY <1>1
<1> HIDE DEF b, q
<1>4. \A k \in 1 .. 1 : /\ b[k - 1] < b[k] /\ q[k] = Piece(s, b, k)
                        /\ \A i \in b[k - 1] + 1 .. b[k] - 1 : s[i] # c
                        /\ k < 1 => s[b[k]] = c
  <2>1. b[1 - 1] + 1 = 1 /\ b[1] - 1 = n
    BY <1>1, <1>3
  <2>2. Piece(s, b, 1) = s
    BY <1>1, <2>1 DEF Piece
  <2> QED BY <1>1, <1>2, <1>3, <2>1, <2>2
<1>5. CutAt(b, q, s, n, c)
  BY <1>2, <1>3, <1>4 DEF CutAt
<1> QED BY <1>5, PiecesAre DEF q

\* Before the last occurrence of c are all pieces but the last.
LEMMA FrontPieces ==
  ASSUME NEW s \in Text, NEW c, NEW b, NEW q, CutAt(b, q, s, Len(s), c), Len(q) > 1
  PROVE  Pieces(SubSeq(s, 1, b[Len(q) - 1] - 1), c) = Front(q)
<1> DEFINE n == Len(q) - 1
           m == b[n] - 1
           u == SubSeq(s, 1, m)
           r == Front(q)
<1>1. /\ Len(s) \in Nat /\ n \in Nat \ {0} /\ n \in 1 .. Len(q) /\ n < Len(q) /\ Len(q) \in Nat
      /\ q \in Lists /\ b[0] = 0
      /\ b[n] \in 1 .. Len(s)
  <2>1. Len(q) \in Nat /\ Len(q) > 1
    BY CutFacts
  <2>2. n \in Nat \ {0} /\ n \in 1 .. Len(q) /\ n < Len(q)
    <3>1. \A k \in Nat : k > 1 => k - 1 \in Nat \ {0} /\ k - 1 \in 1 .. k /\ k - 1 < k
      OBVIOUS
    <3> HIDE DEF m, u, r
    <3> QED BY <2>1, <3>1
  <2> HIDE DEF n
  <2>3. b[n] \in 1 .. Len(s)
    BY <2>2, CutFacts
  <2>4. Len(s) \in Nat /\ q \in Lists /\ b[0] = 0
    BY CutFacts
  <2> QED BY <2>1, <2>2, <2>3, <2>4
<1>2. r \in Lists /\ Len(r) = n /\ \A k \in 1 .. n : r[k] = q[k]
  <2>1. \A k \in 1 .. n : q[k] \in Text
    BY <1>1, CutFacts
  <2>2. r = SubSeq(q, 1, n)
    BY DEF Front
  <2> DEFINE a == 1
  <2>3. \A k \in a .. n : q[k] \in Text
    BY <2>1
  <2> HIDE DEF n
  <2>4. a \in Int /\ n \in Int
    BY <1>1
  <2>5. /\ SubSeq(q, a, n) \in Seq(Text) /\ Len(SubSeq(q, a, n)) = IF a <= n THEN n - a + 1 ELSE 0
        /\ \A k \in 1 .. n - a + 1 : SubSeq(q, a, n)[k] = q[a + k - 1]
    BY <2>3, <2>4, SubSeqProperties
  <2>6. n - a + 1 = n /\ a <= n /\ \A k \in 1 .. n : a + k - 1 = k
    BY <1>1
  <2> QED BY <2>2, <2>5, <2>6 DEF Lists
<1>3. u \in Text /\ Len(u) = m /\ \A i \in 1 .. m : u[i] = s[i]
  <2> DEFINE z == b[n]
  <2>1. z \in Nat /\ 0 \in Nat /\ 0 < z /\ z <= Len(s) + 1 /\ z - 0 - 1 = z - 1 /\ 0 + 1 = 1
        /\ \A i \in 1 .. z - 1 : 0 + i = i
    BY <1>1
  <2> HIDE DEF z
  <2>2. /\ SubSeq(s, 0 + 1, z - 1) \in Text /\ Len(SubSeq(s, 0 + 1, z - 1)) = z - 0 - 1
        /\ \A i \in 1 .. z - 0 - 1 : SubSeq(s, 0 + 1, z - 1)[i] = s[0 + i]
    BY <2>1, PieceFacts
  <2> QED BY <2>1, <2>2 DEF z
<1>4. \A k \in 1 .. Len(q) :
              /\ b[k - 1] < b[k] /\ q[k] = Piece(s, b, k)
              /\ \A i \in b[k - 1] + 1 .. b[k] - 1 : s[i] # c
              /\ k < Len(q) => s[b[k]] = c
  BY DEF CutAt
<1> DEFINE d == [k \in 0 .. n |-> b[k]]
<1>a. \A k \in 0 .. n : b[k] \in 0 .. b[n]
  \* from the end: the cuts go up
  <2> DEFINE wrong == {j \in 0 .. n : b[n - j] \notin 0 .. b[n]}
  <2>1. wrong = {}
    <3> SUFFICES ASSUME wrong # {} PROVE FALSE
      OBVIOUS
    <3>1. wrong \subseteq Nat
      OBVIOUS
    <3>2. PICK j \in wrong : \A i \in wrong : j <= i
      BY <3>1, Least
    <3>3. j # 0
      BY <1>1, <3>2
    <3> DEFINE k == n - j
    <3>4. k \in 0 .. n - 1 /\ k + 1 \in 1 .. Len(q) /\ j - 1 \in 0 .. n /\ n - (j - 1) = k + 1 /\ j - 1 < j
          /\ (k + 1) - 1 = k /\ k \in 0 .. Len(q)
      BY <1>1, <3>2, <3>3
    <3>5. b[k + 1] \in 0 .. b[n]
      <4>1. j - 1 \notin wrong
        <5>1. wrong \subseteq Nat /\ j \in Nat
          BY <3>1, <3>2
        <5> HIDE DEF wrong
        <5> QED BY <3>2, <3>4, <5>1
      <4>2. b[n - (j - 1)] \in 0 .. b[n]
        BY <3>4, <4>1
      <4> HIDE DEF k
      <4> QED BY <3>4, <4>2
    <3>6. b[k] < b[k + 1]
      BY <1>4, <3>4
    <3>7. b[k] \in 0 .. Len(s) + 1
      BY <3>4, CutFacts
    <3> QED BY <1>1, <3>2, <3>5, <3>6, <3>7
  <2>2. ASSUME NEW k \in 0 .. n PROVE b[k] \in 0 .. b[n]
    <3>1. n - k \in 0 .. n /\ n - (n - k) = k
      BY <1>1
    <3> QED BY <2>1, <3>1
  <2> QED BY <2>2
<1> HIDE DEF n, r, u
<1>5. d \in [0 .. n -> 0 .. m + 1] /\ d[0] = 0 /\ d[n] = m + 1 /\ \A k \in 0 .. n : d[k] = b[k]
  <2>1. m + 1 = b[n]
    BY <1>1
  <2> QED BY <1>1, <1>a, <2>1
<1> HIDE DEF d, m
<1>6. \A k \in 1 .. n :
              /\ d[k - 1] < d[k] /\ r[k] = Piece(s, d, k)
              /\ \A i \in d[k - 1] + 1 .. d[k] - 1 : s[i] # c
              /\ k < n => s[d[k]] = c
  <2> TAKE k \in 1 .. n
  <2>1. k \in 0 .. n /\ k - 1 \in 0 .. n /\ k \in 1 .. Len(q) /\ k < Len(q)
    BY <1>1
  <2>2. d[k - 1] = b[k - 1] /\ d[k] = b[k] /\ r[k] = q[k]
    BY <1>2, <1>5, <2>1
  <2> QED BY <1>4, <2>1, <2>2 DEF Piece
<1>7. m \in 0 .. Len(s)
  BY <1>1 DEF m
<1>8. CutAt(d, r, s, m, c)
  BY <1>1, <1>2, <1>5, <1>6, <1>7 DEF CutAt
<1>9. CutAt(d, r, u, Len(u), c)
  <2>1. m <= Len(u)
    BY <1>3, <1>7
  <2> QED BY <1>3, <1>8, <2>1, CutSame
<1> QED BY <1>3, <1>9, PiecesAre DEF u, r, m, n

-----------------------------------------------------------------------------
(* The pieces of two strings with c between them.                          *)

LEMMA Agree ==
  ASSUME NEW f, NEW g, NEW n \in Nat, f[0] = g[0], \A i \in 1 .. n : f[i - 1] = g[i - 1] => f[i] = g[i]
  PROVE  \A i \in 0 .. n : f[i] = g[i]
<1> DEFINE h == [i \in 0 .. n |-> f[i] = g[i]]
           S == {TRUE}
<1>1. \A i \in 0 .. n : h[i] = TRUE <=> f[i] = g[i]
  OBVIOUS
<1>2. h[0] \in S
  <2>1. 0 \in 0 .. n
    OBVIOUS
  <2> QED BY <1>1, <2>1
<1>3. \A i \in 1 .. n : h[i - 1] \in S => h[i] \in S
  <2> TAKE i \in 1 .. n
  <2>1. i \in 0 .. n /\ i - 1 \in 0 .. n
    OBVIOUS
  <2> QED BY <1>1, <2>1
<1> HIDE DEF h, S
<1>4. \A i \in 0 .. n : h[i] \in S
  BY <1>2, <1>3, StaysIn
<1> QED BY <1>1, <1>4 DEF S

LEMMA ConcatParts ==
  ASSUME NEW S, NEW p \in Seq(S), NEW q \in Seq(S), NEW m, NEW n, Len(p) = m, Len(q) = n
  PROVE  /\ p \o q \in Seq(S) /\ m \in Nat /\ n \in Nat /\ Len(p \o q) = m + n
         /\ \A i \in 1 .. m : (p \o q)[i] = p[i]
         /\ \A i \in 1 .. n : (p \o q)[m + i] = q[i]
<1> DEFINE pq == p \o q
<1>1. m \in Nat /\ n \in Nat
  BY LenProperties
<1>2. /\ pq \in Seq(S) /\ Len(pq) = m + n
      /\ \A i \in 1 .. m + n : pq[i] = IF i <= m THEN p[i] ELSE q[i - m]
  BY ConcatProperties
<1> HIDE DEF pq
<1>3. \A i \in 1 .. m : pq[i] = p[i]
  BY <1>1, <1>2
<1>4. \A i \in 1 .. n : pq[m + i] = q[i]
  <2> TAKE i \in 1 .. n
  <2>1. m + i \in 1 .. m + n /\ ~ (m + i <= m) /\ (m + i) - m = i
    BY <1>1
  <2> QED BY <1>2, <2>1
<1> QED BY <1>1, <1>2, <1>3, <1>4 DEF pq

LEMMA OneItem ==
  ASSUME NEW S, NEW c \in S
  PROVE  <<c>> \in Seq(S)
  OBVIOUS

LEMMA OneChar ==
  ASSUME NEW c \in Characters
  PROVE  <<c>> \in Text /\ Len(<<c>>) = 1 /\ <<c>>[1] = c
<1>1. <<c>> \in Text
  BY OneItem DEF Text
<1>2. Len(<<c>>) = 1 /\ <<c>>[1] = c
  OBVIOUS
<1> QED BY <1>1, <1>2

LEMMA TextFacts ==
  ASSUME NEW s \in Text
  PROVE  Len(s) \in Nat /\ \A i \in 1 .. Len(s) : s[i] \in Characters
<1>1. Len(s) \in Nat
  BY LenProperties DEF Text
<1>2. \A i \in 1 .. Len(s) : s[i] \in Characters
  BY ElementOfSeq DEF Text
<1> QED BY <1>1, <1>2

LEMMA StepConcat ==
  ASSUME NEW p \in Lists, NEW q \in Lists, Len(q) > 0, NEW x \in Characters, NEW c
  PROVE  PieceStep(p \o q, x, c) = p \o PieceStep(q, x, c)
<1> DEFINE e == <<>>
           m == Len(p)
           n == Len(q)
           pq == p \o q
<1>1. e \in Text
  BY EmptySeq DEF Text
<1>2. /\ pq \in Lists /\ m \in Nat /\ n \in Nat /\ n > 0 /\ Len(pq) = m + n
      /\ \A i \in 1 .. m : pq[i] = p[i]
      /\ \A i \in 1 .. n : pq[m + i] = q[i]
  BY ConcatParts DEF Lists
<1>3. CASE x = c
  <2> HIDE DEF e
  <2>1. Append(pq, e) = pq \o <<e>> /\ Append(q, e) = q \o <<e>> /\ <<e>> \in Lists
    <3> HIDE DEF pq
    <3> QED BY <1>1, <1>2, AppendIsConcat DEF Lists
  <2>2. p \o (q \o <<e>>) = pq \o <<e>>
    BY <2>1, ConcatAssociative DEF Lists
  <2> QED BY <1>3, <2>1, <2>2 DEF PieceStep, e
<1>4. CASE x # c
  <2> HIDE DEF pq, m, n
  <2> DEFINE u == Extended(pq, x)
             v == Extended(q, x)
             w == p \o v
  <2>1. /\ u \in Lists /\ Len(u) = m + n
        /\ \A i \in 1 .. m + n : u[i] = IF i = m + n THEN Append(pq[i], x) ELSE pq[i]
    <3> PICK l : l = m + n
      OBVIOUS
    <3>1. /\ u \in Lists /\ Len(u) = Len(pq)
          /\ \A i \in 1 .. Len(pq) : u[i] = IF i = Len(pq) THEN Append(pq[i], x) ELSE pq[i]
      BY <1>2, ExtendedType
    <3> QED BY <1>2, <3>1
  <2>2. /\ v \in Lists /\ Len(v) = n
        /\ \A i \in 1 .. n : v[i] = IF i = n THEN Append(q[i], x) ELSE q[i]
    BY ExtendedType DEF n
  <2> HIDE DEF u, v
  <2>3. /\ w \in Lists /\ Len(w) = m + n
        /\ \A i \in 1 .. m : w[i] = p[i]
        /\ \A i \in 1 .. n : w[m + i] = v[i]
    <3>1. Len(p) = m
      BY DEF m
    <3> QED BY <2>2, <3>1, ConcatParts DEF Lists
  <2> HIDE DEF w
  <2>4. \A i \in 1 .. m + n : u[i] = w[i]
    <3> TAKE i \in 1 .. m + n
    <3>1. CASE i <= m
      <4>1. i \in 1 .. m /\ i # m + n
        BY <1>2, <3>1
      <4> QED BY <1>2, <2>1, <2>3, <4>1
    <3>2. CASE ~ (i <= m)
      <4> DEFINE k == i - m
      <4>1. k \in 1 .. n /\ m + k = i /\ (i = m + n <=> k = n)
        BY <1>2, <3>2
      <4> HIDE DEF k
      <4>2. w[i] = v[k] /\ pq[i] = q[k]
        BY <1>2, <2>3, <4>1
      <4> QED BY <2>1, <2>2, <4>1, <4>2
    <3> QED BY <3>1, <3>2
  <2>5. u = w
    BY <1>2, <2>1, <2>3, <2>4, SeqEqual DEF Lists
  <2> QED BY <1>4, <2>5 DEF PieceStep, u, v, w, pq
<1> QED BY <1>3, <1>4

LEMMA JoinPieces ==
  ASSUME NEW r \in Text, NEW s \in Text, NEW c \in Characters
  PROVE  Pieces((r \o <<c>>) \o s, c) = Pieces(r, c) \o Pieces(s, c)
<1> DEFINE l == Len(r)
           n == Len(s)
           u == (r \o <<c>>) \o s
           p == Pieces(r, c)
           f == PiecesUpTo(u, c)
           g == PiecesUpTo(s, c)
           h == PiecesUpTo(r, c)
           e == <<>>
<1>1. l \in Nat /\ n \in Nat /\ e \in Text
  BY TextFacts, EmptySeq DEF Text
<1>2. /\ r \o <<c>> \in Text /\ Len(r \o <<c>>) = l + 1
      /\ \A i \in 1 .. l : (r \o <<c>>)[i] = r[i]
      /\ (r \o <<c>>)[l + 1] = c
  <2> DEFINE o == <<c>>
  <2>1. o \in Text /\ Len(o) = 1 /\ o[1] = c
    BY OneChar
  <2> HIDE DEF o
  <2>2. /\ r \o o \in Text /\ Len(r \o o) = l + 1
        /\ \A i \in 1 .. l : (r \o o)[i] = r[i]
        /\ \A i \in 1 .. 1 : (r \o o)[l + i] = o[i]
    <3> DEFINE k == 1
    <3>1. Len(r) = l
      OBVIOUS
    <3>2. Len(o) = k
      BY <2>1
    <3> HIDE DEF l, k
    <3>3. /\ r \o o \in Text /\ Len(r \o o) = l + k
          /\ \A i \in 1 .. l : (r \o o)[i] = r[i]
          /\ \A i \in 1 .. k : (r \o o)[l + i] = o[i]
      BY <2>1, <3>1, <3>2, ConcatParts DEF Text
    <3> QED BY <3>3 DEF k
  <2>3. 1 \in 1 .. 1
    OBVIOUS
  <2>4. (r \o o)[l + 1] = c
    BY <2>1, <2>2, <2>3
  <2> QED BY <2>2, <2>4 DEF o
<1>3. /\ u \in Text /\ Len(u) = l + 1 + n
      /\ \A i \in 1 .. l : u[i] = r[i]
      /\ u[l + 1] = c
      /\ \A i \in 1 .. n : u[l + 1 + i] = s[i]
  <2> DEFINE ro == r \o <<c>>
             m == l + 1
  <2> HIDE DEF ro, m, l, n
  <2>1. ro \in Text /\ Len(ro) = m
    BY <1>2 DEF ro, m
  <2>2. /\ ro \o s \in Text /\ Len(ro \o s) = m + n
        /\ \A i \in 1 .. m : (ro \o s)[i] = ro[i]
        /\ \A i \in 1 .. n : (ro \o s)[m + i] = s[i]
    <3>1. Len(s) = n
      BY DEF n
    <3> QED BY <2>1, <3>1, ConcatParts DEF Text
  <2>3. m = l + 1 /\ m \in 1 .. m /\ \A i \in 1 .. l : i \in 1 .. m
    BY <1>1 DEF m
  <2> QED BY <1>2, <2>2, <2>3 DEF ro
<1> HIDE DEF u, l, n
<1>4. /\ f[0] = <<e>> /\ \A i \in 1 .. l + 1 + n : f[i] = PieceStep(f[i - 1], u[i], c)
  <2>1. PiecesBy(f, u, c)
    BY <1>3, PiecesUpToIs
  <2> HIDE DEF f
  <2> QED BY <1>3, <2>1 DEF PiecesBy
<1>5. /\ g \in [0 .. n -> Lists] /\ g[0] = <<e>> /\ \A i \in 1 .. n : g[i] = PieceStep(g[i - 1], s[i], c)
  BY PiecesUpToIs DEF PiecesBy, n
<1>6. /\ h \in [0 .. l -> Lists] /\ h[0] = <<e>> /\ \A i \in 1 .. l : h[i] = PieceStep(h[i - 1], r[i], c)
  BY PiecesUpToIs DEF PiecesBy, l
<1>7. h[l] = p /\ g[n] = Pieces(s, c) /\ f[l + 1 + n] = Pieces(u, c)
  BY <1>3 DEF Pieces, l, n
<1> HIDE DEF f, g, h, p, e
<1>8. p \in Lists
  BY <1>1, <1>6, <1>7
<1>9. f[l] = p
  <2>1. \A i \in 1 .. l : f[i - 1] = h[i - 1] => f[i] = h[i]
    <3> TAKE i \in 1 .. l
    <3>1. i \in 1 .. l + 1 + n
      BY <1>1
    <3> QED BY <1>3, <1>4, <1>6, <3>1
  <2>2. f[0] = h[0]
    BY <1>4, <1>6
  <2>4. \A i \in 0 .. l : f[i] = h[i]
    BY <1>1, <2>1, <2>2, Agree
  <2>3. l \in 0 .. l
    BY <1>1
  <2> QED BY <1>7, <2>3, <2>4
<1> DEFINE F == [i \in 0 .. n |-> f[l + 1 + i]]
           G == [i \in 0 .. n |-> p \o g[i]]
<1>10. F[0] = G[0]
  <2>1. F[0] = f[l + 1] /\ G[0] = p \o <<e>>
    <3>1. 0 \in 0 .. n /\ l + 1 + 0 = l + 1
      BY <1>1
    <3> QED BY <1>5, <3>1
  <2>2. f[l + 1] = PieceStep(p, c, c)
    <3>1. l + 1 \in 1 .. l + 1 + n /\ (l + 1) - 1 = l
      BY <1>1
    <3> QED BY <1>3, <1>4, <1>9, <3>1
  <2>3. PieceStep(p, c, c) = Append(p, e)
    BY DEF PieceStep, e
  <2>4. Append(p, e) = p \o <<e>>
    BY <1>1, <1>8, AppendIsConcat DEF Lists
  <2> QED BY <2>1, <2>2, <2>3, <2>4
<1>11. \A i \in 0 .. n : Len(g[i]) > 0 /\ g[i] \in Lists
  <2> DEFINE S == {q \in Lists : Len(q) > 0}
  <2>1. g[0] \in S
    <3>1. <<e>> \in Lists /\ Len(<<e>>) = 1
      BY <1>1 DEF Lists
    <3> QED BY <1>5, <3>1
  <2>2. \A i \in 1 .. n : g[i - 1] \in S => g[i] \in S
    <3> SUFFICES ASSUME NEW i \in 1 .. n, g[i - 1] \in S PROVE g[i] \in S
      OBVIOUS
    <3>1. s[i] \in Characters
      BY TextFacts DEF n
    <3>2. PICK q : q = g[i - 1]
      OBVIOUS
    <3>3. q \in Lists /\ Len(q) > 0 /\ Len(q) \in Nat
      BY <3>2, LenProperties DEF Lists
    <3>4. Append(q, <<>>) \in Lists /\ Len(Append(q, <<>>)) = Len(q) + 1
      BY <1>1, <3>3, AppendProperties DEF Lists, e
    <3>5. Extended(q, s[i]) \in Lists /\ Len(Extended(q, s[i])) = Len(q)
      BY <3>1, <3>3, ExtendedType
    <3>6. g[i] = PieceStep(q, s[i], c)
      BY <1>5, <3>2
    <3>7. CASE s[i] = c
      BY <3>3, <3>4, <3>6, <3>7 DEF PieceStep
    <3>8. CASE s[i] # c
      BY <3>3, <3>5, <3>6, <3>8 DEF PieceStep
    <3> QED BY <3>7, <3>8
  <2> HIDE DEF S
  <2>3. \A i \in 0 .. n : g[i] \in S
    BY <1>1, <2>1, <2>2, StaysIn
  <2> QED BY <2>3 DEF S
<1>12. \A i \in 1 .. n : F[i - 1] = G[i - 1] => F[i] = G[i]
  <2> SUFFICES ASSUME NEW i \in 1 .. n, F[i - 1] = G[i - 1] PROVE F[i] = G[i]
    OBVIOUS
  <2>1. /\ i \in 0 .. n /\ i - 1 \in 0 .. n /\ l + 1 + i \in 1 .. l + 1 + n
        /\ (l + 1 + i) - 1 = l + 1 + (i - 1)
    BY <1>1
  <2>2. F[i] = f[l + 1 + i] /\ G[i] = p \o g[i] /\ f[l + 1 + (i - 1)] = p \o g[i - 1]
    BY <2>1
  <2>3. s[i] \in Characters
    BY TextFacts DEF n
  <2>4. f[l + 1 + i] = PieceStep(f[l + 1 + (i - 1)], s[i], c)
    BY <1>3, <1>4, <2>1
  <2>5. PieceStep(p \o g[i - 1], s[i], c) = p \o PieceStep(g[i - 1], s[i], c)
    <3>1. g[i - 1] \in Lists /\ Len(g[i - 1]) > 0
      BY <1>11, <2>1
    <3>2. \A list \in Lists, char \in Characters :
            Len(list) > 0 => PieceStep(p \o list, char, c) = p \o PieceStep(list, char, c)
      BY <1>8, StepConcat
    <3> QED BY <2>3, <3>1, <3>2
  <2> QED BY <1>5, <2>2, <2>4, <2>5
<1>13. F[n] = f[l + 1 + n] /\ G[n] = p \o g[n]
  BY <1>1
<1> HIDE DEF F, G
<1>14. \A i \in 0 .. n : F[i] = G[i]
  BY <1>1, <1>10, <1>12, Agree
<1>15. n \in 0 .. n
  BY <1>1
<1> QED BY <1>7, <1>13, <1>14, <1>15 DEF u, p

-----------------------------------------------------------------------------
(* Types.                                                                  *)

\* What surrounds a line, besides the values of the variables.
TypeInv ==
  /\ TypeOK
  /\ pc \in {"down", "prompt"} => typed = <<>> /\ t = 0 /\ get_com = <<>>
  /\ pc # "done" => call = NoCall
  /\ pc \in {"format", "run"} => cur_path # NULL
  /\ pc \in {"run", "done"} => t = Len(typed)

LEMMA NextWordIs ==
  ASSUME typed \in Text, t \in Nat, t < Len(typed), typed[t + 1] = Blank
  PROVE  /\ NextWord \in t + 1 .. Len(typed)
         /\ \A i \in t + 1 .. NextWord : typed[i] = Blank
         /\ NextWord < Len(typed) => typed[NextWord + 1] # Blank
<1> DEFINE n == Len(typed)
           ends == {i \in t + 1 .. n : i < n => typed[i + 1] # Blank}
<1>1. n \in Nat
  BY TextFacts
<1>2. n \in ends /\ ends \subseteq Nat
  BY <1>1
<1>3. PICK x \in ends : \A i \in ends : x <= i
  BY <1>2, Least
<1>4. x \in t + 1 .. n /\ (x < n => typed[x + 1] # Blank)
  OBVIOUS
<1>5. \A i \in t + 1 .. x : typed[i] = Blank
  <2> SUFFICES ASSUME NEW i \in t + 1 .. x, typed[i] # Blank PROVE FALSE
    OBVIOUS
  <2> DEFINE j == i - 1
  <2>1. i # t + 1
    OBVIOUS
  <2>2. j \in t + 1 .. n /\ j + 1 = i /\ j < x
    BY <1>1, <1>4, <2>1
  <2> HIDE DEF j
  <2>3. j \in ends
    BY <2>2
  <2> QED BY <1>3, <1>4, <2>2, <2>3
<1>6. \E k \in t + 1 .. Len(typed) : /\ \A i \in t + 1 .. k : typed[i] = Blank
                                     /\ k < Len(typed) => typed[k + 1] # Blank
  BY <1>4, <1>5
<1> QED BY <1>6 DEF NextWord

LEMMA SubText ==
  ASSUME NEW s \in Text, NEW i \in Nat, NEW j \in Int, j < Len(s)
  PROVE  SubSeq(s, i + 1, j + 1) \in Text
<1> DEFINE m == i + 1
           n == j + 1
<1>1. m \in Int /\ n \in Int /\ Len(s) \in Nat
  BY TextFacts
<1>2. \A k \in m .. n : s[k] \in Characters
  <2> TAKE k \in m .. n
  <2>1. k \in 1 .. Len(s)
    BY <1>1
  <2> QED BY <2>1, TextFacts
<1> HIDE DEF m, n
<1>3. SubSeq(s, m, n) \in Seq(Characters)
  BY <1>1, <1>2, SubSeqProperties
<1> QED BY <1>3 DEF m, n, Text

LEMMA SubstringType ==
  ASSUME NEW s \in Text, NEW i \in Int, NEW j \in Int
  PROVE  str_substring(s, i, j) # NULL => str_substring(s, i, j) \in Text
<1>1. CASE i < 0 \/ j > Len(s) - 1 \/ i > j
  BY <1>1 DEF str_substring
<1>2. CASE ~ (i < 0 \/ j > Len(s) - 1 \/ i > j)
  <2>1. i \in Nat /\ j < Len(s)
    BY <1>2, TextFacts
  <2>2. SubSeq(s, i + 1, j + 1) \in Text
    BY <2>1, SubText
  <2> QED BY <1>2, <2>2 DEF str_substring
<1> QED BY <1>1, <1>2

LEMMA FromType ==
  ASSUME NEW s \in Text, NEW i \in Nat
  PROVE  From(s, i) \in Text
<1> DEFINE j == Len(s) - 1
<1>1. j \in Int /\ j < Len(s) /\ j + 1 = Len(s)
  BY TextFacts
<1> HIDE DEF j
<1>2. SubSeq(s, i + 1, j + 1) \in Text
  BY <1>1, SubText
<1> QED BY <1>1, <1>2 DEF From

LEMMA SlashText == Slash \in Text /\ Len(Slash) = 1 /\ Slash[1] = "/"
<1>1. "/" \in Characters
  BY CharactersAssumption
<1> QED BY <1>1, OneChar DEF Slash

LEMMA RootText == ROOT_PATH \in Text /\ NULL \notin Text
  BY RootAssumption DEF Text

LEMMA JoinText ==
  ASSUME NEW r \in Text, NEW s \in Text
  PROVE  (r \o Slash) \o s \in Text
<1>1. r \o Slash \in Text
  BY SlashText, ConcatProperties DEF Text
<1> QED BY <1>1, ConcatProperties DEF Text

LEMMA FindsNext ==
  ASSUME NEW s \in Text, NEW c, NEW b, NEW q, CutAt(b, q, s, Len(s), c), NEW k \in 1 .. Len(q), NEW i,
         b[k - 1] = i, k < Len(q)
  PROVE  str_indexOf_start(s, c, i) = b[k] - 1
  BY FindsCut

LEMMA FindsNone ==
  ASSUME NEW s \in Text, NEW c, NEW b, NEW q, CutAt(b, q, s, Len(s), c), NEW i, b[Len(q) - 1] = i
  PROVE  str_indexOf_start(s, c, i) = -1
<1>1. Len(q) \in 1 .. Len(q)
  <2>1. Len(q) \in Nat \ {0}
    BY CutFacts
  <2> QED BY <2>1
<1> QED BY <1>1, FindsCut

LEMMA FindsFirst ==
  ASSUME NEW s \in Text, NEW c, NEW b, NEW q, CutAt(b, q, s, Len(s), c)
  PROVE  /\ Len(q) > 1 => str_indexOf(s, c) = b[1] - 1
         /\ Len(q) = 1 => str_indexOf(s, c) = -1
<1> DEFINE k == 1
           i == 0
<1>1. Len(q) \in Nat \ {0} /\ b[0] = 0
  BY CutFacts
<1>2. k \in 1 .. Len(q) /\ k - 1 = 0 /\ b[k - 1] = i
  BY <1>1
<1>3. str_indexOf(s, c) = str_indexOf_start(s, c, i)
  BY RootText DEF str_indexOf
<1>4. Len(q) = 1 => b[Len(q) - 1] = i
  BY <1>1
<1> HIDE DEF k, i
<1>5. k < Len(q) => str_indexOf_start(s, c, i) = b[k] - 1
  BY <1>2, FindsNext
<1>6. Len(q) = 1 => str_indexOf_start(s, c, i) = -1
  BY <1>4, FindsNone
<1> QED BY <1>3, <1>5, <1>6 DEF k

LEMMA SearchTypes ==
  ASSUME NEW s \in Text, NEW c
  PROVE  str_lastIndexOf(s, c) \in Int /\ str_indexOf(s, c) \in Int
<1> DEFINE q == Pieces(s, c)
           n == Len(q)
<1>1. PICK b : CutAt(b, q, s, Len(s), c)
  BY PiecesAreCut
<1> HIDE DEF q
<1>2. n \in Nat \ {0} /\ \A k \in 0 .. n : b[k] \in 0 .. Len(s) + 1
  BY <1>1, CutFacts
<1>3. str_lastIndexOf(s, c) = b[n - 1] - 1
  BY <1>1, FindsLast
<1>4. /\ n > 1 => str_indexOf(s, c) = b[1] - 1
      /\ n = 1 => str_indexOf(s, c) = -1
  BY <1>1, FindsFirst
<1> HIDE DEF n
<1>5. Len(s) \in Nat /\ n - 1 \in 0 .. n /\ 1 \in 0 .. n /\ (n > 1 \/ n = 1)
  BY <1>2, TextFacts
<1>6. b[n - 1] - 1 \in Int /\ b[1] - 1 \in Int
  BY <1>2, <1>5
<1> QED BY <1>3, <1>4, <1>5, <1>6

LEMMA CommandNames ==
  /\ DOMAIN COMMANDS = {"ls", "cat", "cp", "rm", "mv", "mkdir", "rmdir", "cd", "find"}
  /\ NoCall.name = "none" /\ NoCall.exists \in BOOLEAN
<1>1. DOMAIN COMMANDS = {"ls", "cat", "cp", "rm", "mv", "mkdir", "rmdir", "cd", "find"}
  BY DEF COMMANDS
<1>2. NoCall.name = "none" /\ NoCall.exists \in BOOLEAN
  BY DEF NoCall
<1> QED BY <1>1, <1>2

LEMMA NothingTyped ==
  <<>> \in Text /\ Len(<<>>) = 0
  BY EmptySeq DEF Text

LEMMA TypeInit == Init => TypeInv
<1> SUFFICES ASSUME Init PROVE TypeInv
  OBVIOUS
<1>1. pc = "down" /\ cur_path = ROOT_PATH /\ typed = <<>> /\ t = 0 /\ get_com = <<>> /\ call = NoCall
  BY DEF Init
<1>2. t \in 0 .. Len(typed) /\ Len(get_com) <= t
  BY <1>1, NothingTyped
<1>3. TypeOK
  BY <1>1, <1>2, CommandNames, NothingTyped, RootText DEF TypeOK, Text
<1> QED BY <1>1, <1>3 DEF TypeInv

LEMMA EndsType == Ends => TypeInv'
<1> SUFFICES ASSUME Ends PROVE TypeInv'
  OBVIOUS
<1>1. pc' = "down" /\ cur_path' = ROOT_PATH /\ typed' = <<>> /\ t' = 0 /\ get_com' = <<>> /\ call' = NoCall
  BY DEF Ends, NoLine
<1>2. t' \in 0 .. Len(typed') /\ Len(get_com') <= t'
  BY <1>1, NothingTyped
<1>3. TypeOK'
  BY <1>1, <1>2, CommandNames, NothingTyped, RootText DEF TypeOK, Text
<1> QED BY <1>1, <1>3 DEF TypeInv

LEMMA AsksType ==
  ASSUME TypeInv, pc = "run", NEW name \in DOMAIN COMMANDS, NEW paths, NEW e \in BOOLEAN, Asks(name, paths, e)
  PROVE  TypeInv'
<1>1. pc' = "done" /\ cur_path' = cur_path /\ typed' = typed /\ t' = t /\ get_com' = get_com
  BY DEF Asks, Done, lineVars
<1>2. call'.name = name /\ call'.exists = e
  BY DEF Asks
<1>3. TypeOK'
  BY <1>1, <1>2 DEF TypeInv, TypeOK
<1> QED BY <1>1, <1>3 DEF TypeInv

LEMMA AsksNothingType ==
  ASSUME TypeInv, pc = "run", AsksNothing
  PROVE  TypeInv'
<1>1. pc' = "done" /\ cur_path' = cur_path /\ typed' = typed /\ t' = t /\ get_com' = get_com /\ call' = call
  BY DEF AsksNothing, Done, lineVars
<1>2. TypeOK'
  BY <1>1 DEF TypeInv, TypeOK
<1> QED BY <1>1, <1>2 DEF TypeInv

LEMMA FormatType ==
  ASSUME TypeInv, FormatChar
  PROVE  TypeInv'
<1>1. /\ pc = "format" /\ t < Len(typed) /\ pc' = pc /\ cur_path' = cur_path /\ typed' = typed /\ call' = call
  BY DEF FormatChar
<1>2. typed \in Text /\ get_com \in Text /\ t \in 0 .. Len(typed) /\ Len(get_com) <= t
  BY DEF TypeInv, TypeOK, Text
<1>3. Len(typed) \in Nat /\ Len(get_com) \in Nat /\ t \in Nat
  BY <1>2, TextFacts
<1>4. t' \in t + 1 .. Len(typed) /\ (get_com' = get_com \/ \E x \in Characters : get_com' = Append(get_com, x))
  <2>1. Char \in Characters /\ Blank \in Characters
    <3>1. t + 1 \in 1 .. Len(typed)
      BY <1>1, <1>3
    <3> QED BY <1>2, <3>1, CharactersAssumption, TextFacts DEF Char
  <2>2. t + 1 \in t + 1 .. Len(typed)
    BY <1>1, <1>3
  <2>3. CASE Char = Blank /\ get_com # <<>>
    <3>1. t' = NextWord /\ get_com' = Append(get_com, Blank)
      BY <2>3 DEF FormatChar
    <3>2. typed[t + 1] = Blank
      BY <2>3 DEF Char
    <3>3. NextWord \in t + 1 .. Len(typed)
      BY <1>1, <1>2, <1>3, <3>2, NextWordIs
    <3> QED BY <2>1, <3>1, <3>3
  <2>4. CASE ~ (Char = Blank /\ get_com # <<>>)
    <3>1. t' = t + 1 /\ (get_com' = get_com \/ get_com' = Append(get_com, Char))
      BY <2>4 DEF FormatChar
    <3> QED BY <2>1, <2>2, <3>1
  <2> QED BY <2>3, <2>4
<1>5. get_com' \in Text /\ Len(get_com') <= Len(get_com) + 1 /\ Len(get_com') \in Nat
  <2>1. CASE get_com' = get_com
    BY <1>2, <1>3, <2>1
  <2>2. CASE \E x \in Characters : get_com' = Append(get_com, x)
    <3>1. PICK x \in Characters : get_com' = Append(get_com, x)
      BY <2>2
    <3>2. Append(get_com, x) \in Text /\ Len(Append(get_com, x)) = Len(get_com) + 1
      BY <1>2, AppendProperties DEF Text
    <3> QED BY <1>3, <3>1, <3>2
  <2> QED BY <1>4, <2>1, <2>2
<1>6. t' \in 0 .. Len(typed) /\ Len(get_com') <= t'
  BY <1>2, <1>3, <1>4, <1>5
<1>7. TypeOK'
  BY <1>1, <1>2, <1>5, <1>6 DEF TypeInv, TypeOK, Text
<1> QED BY <1>1, <1>7 DEF TypeInv

LEMMA CdType ==
  ASSUME TypeInv, Cd
  PROVE  TypeInv'
<1> DEFINE arg == From(get_com, 3)
<1>1. pc = "run" /\ pc' = "done" /\ typed' = typed /\ t' = t /\ get_com' = get_com
  BY DEF Cd, Is, Done, lineVars
<1>2. cur_path \in Text /\ get_com \in Text /\ call = NoCall
  BY <1>1 DEF TypeInv, TypeOK, Text
<1>3. \/ cur_path' \in {Parent(cur_path), Drive(cur_path)} /\ call' = call
      \/ cur_path' = (cur_path \o Slash) \o arg /\ call'.name = "cd" /\ call'.exists \in BOOLEAN
  <2>1. \/ cur_path' = Parent(cur_path) /\ call' = call
        \/ cur_path' = Drive(cur_path) /\ call' = call
        \/ /\ cur_path' = cur_path \o Slash \o arg
           /\ \E exists \in BOOLEAN :
                call' = [name |-> "cd", paths |-> <<cur_path \o Slash \o arg>>, exists |-> exists]
    BY DEF Cd
  <2> QED BY <2>1
<1>4. Parent(cur_path) # NULL => Parent(cur_path) \in Text
  <2> DEFINE j == str_lastIndexOf(cur_path, "/") - 1
             i == 0
  <2>1. j \in Int /\ i \in Int
    BY <1>2, SearchTypes
  <2> HIDE DEF i, j
  <2>2. str_substring(cur_path, i, j) # NULL => str_substring(cur_path, i, j) \in Text
    BY <1>2, <2>1, SubstringType
  <2> QED BY <2>2 DEF Parent, i, j
<1>5. Drive(cur_path) # NULL => Drive(cur_path) \in Text
  <2> DEFINE j == str_indexOf(cur_path, "/") - 1
             i == 0
  <2>1. j \in Int /\ i \in Int
    BY <1>2, SearchTypes
  <2>2. Drive(cur_path) \in {cur_path, str_substring(cur_path, i, j)}
    BY DEF Drive
  <2> HIDE DEF i, j
  <2>3. str_substring(cur_path, i, j) # NULL => str_substring(cur_path, i, j) \in Text
    BY <1>2, <2>1, SubstringType
  <2> QED BY <1>2, <2>2, <2>3
<1>6. (cur_path \o Slash) \o arg \in Text
  <2>1. 3 \in Nat
    OBVIOUS
  <2>2. arg \in Text
    BY <1>2, <2>1, FromType
  <2> QED BY <1>2, <2>2, JoinText
<1>7. cur_path' # NULL => cur_path' \in Text
  <2>1. cur_path' = Parent(cur_path) \/ cur_path' = Drive(cur_path) \/ cur_path' = (cur_path \o Slash) \o arg
    BY <1>3
  <2>2. CASE cur_path' = Parent(cur_path)
    BY <1>4, <2>2
  <2>3. CASE cur_path' = Drive(cur_path)
    BY <1>5, <2>3
  <2>4. CASE cur_path' = (cur_path \o Slash) \o arg
    BY <1>6, <2>4
  <2> QED BY <2>1, <2>2, <2>3, <2>4
<1>8. call'.name \in DOMAIN COMMANDS \cup {"none"} /\ call'.exists \in BOOLEAN
  BY <1>2, <1>3, CommandNames
<1>9. TypeOK'
  BY <1>1, <1>7, <1>8 DEF TypeInv, TypeOK, Text
<1> QED BY <1>1, <1>9 DEF TypeInv

LEMMA CommandCalls ==
  ASSUME Unknown \/ Ls \/ OnePath \/ TwoPaths \/ CatFile \/ CatFiles \/ CatOther
  PROVE  /\ pc = "run"
         /\ AsksNothing \/ Ends \/ \E name \in DOMAIN COMMANDS : \E paths : Asks(name, paths, TRUE)
<1>1. pc = "run"
  BY DEF Unknown, Ls, OnePath, TwoPaths, CatFile, CatFiles, CatOther, Is
<1>2. CASE Unknown
  BY <1>1, <1>2 DEF Unknown
<1>3. CASE Ls
  BY <1>1, <1>3, CommandNames DEF Ls
<1>4. CASE OnePath
  BY <1>1, <1>4, CommandNames DEF OnePath
<1>5. CASE TwoPaths
  BY <1>1, <1>5, CommandNames DEF TwoPaths
<1>6. CASE CatFile
  BY <1>1, <1>6, CommandNames DEF CatFile
<1>7. CASE CatFiles
  BY <1>1, <1>7, CommandNames DEF CatFiles
<1>8. CASE CatOther
  BY <1>1, <1>8 DEF CatOther
<1> QED BY <1>2, <1>3, <1>4, <1>5, <1>6, <1>7, <1>8

LEMMA CommandsType ==
  ASSUME TypeInv, Unknown \/ Ls \/ OnePath \/ TwoPaths \/ CatFile \/ CatFiles \/ CatOther
  PROVE  TypeInv'
<1>1. /\ pc = "run"
      /\ AsksNothing \/ Ends \/ \E name \in DOMAIN COMMANDS : \E paths : Asks(name, paths, TRUE)
  BY CommandCalls
<1>2. TRUE \in BOOLEAN
  OBVIOUS
<1> QED BY <1>1, <1>2, AsksNothingType, AsksType, EndsType

LEMMA TypeStep == TypeInv /\ [Next]_vars => TypeInv'
<1> SUFFICES ASSUME TypeInv, [Next]_vars PROVE TypeInv'
  OBVIOUS
<1>1. CASE Start
  <2>1. pc = "down" /\ pc' = "prompt" /\ cur_path' = ROOT_PATH /\ typed' = typed /\ t' = t
        /\ get_com' = get_com /\ call' = call
    BY <1>1 DEF Start, lineVars
  <2> QED BY <2>1, RootText DEF TypeInv, TypeOK, Text
<1>2. CASE Kill \/ PromptNull
  BY <1>2, EndsType DEF Kill, PromptNull
<1>3. ASSUME NEW line \in Lines, ReadLine(line) PROVE TypeInv'
  <2>1. pc = "prompt" /\ cur_path # NULL /\ pc' = "format" /\ typed' = line /\ cur_path' = cur_path
        /\ t' = t /\ get_com' = get_com /\ call' = call
    BY <1>3 DEF ReadLine
  <2>2. line \in Text /\ Len(line) \in Nat
    <3>1. line \in Text
      BY LinesAssumption DEF Text
    <3> QED BY <3>1, TextFacts
  <2>3. t = 0 /\ get_com = <<>> /\ 0 \in 0 .. Len(line)
    BY <2>1, <2>2 DEF TypeInv
  <2>4. TypeOK'
    BY <2>1, <2>2, <2>3, NothingTyped DEF TypeInv, TypeOK, Text
  <2> QED BY <2>1, <2>4 DEF TypeInv
<1>4. CASE FormatChar
  BY <1>4, FormatType
<1>5. CASE FormatEnd
  <2>1. pc = "format" /\ t = Len(typed) /\ pc' = "run" /\ cur_path' = cur_path /\ typed' = typed /\ t' = t
        /\ get_com' = get_com /\ call' = call
    BY <1>5 DEF FormatEnd, lineVars
  <2> QED BY <2>1 DEF TypeInv, TypeOK
<1>6. CASE Unknown \/ Ls \/ OnePath \/ TwoPaths \/ CatFile \/ CatFiles \/ CatOther
  BY <1>6, CommandsType
<1>7. CASE Cd
  BY <1>7, CdType
<1>8. CASE Again
  <2>1. pc' = "prompt" /\ cur_path' = cur_path /\ typed' = <<>> /\ t' = 0 /\ get_com' = <<>> /\ call' = NoCall
    BY <1>8 DEF Again, NoLine
  <2>2. t' \in 0 .. Len(typed') /\ Len(get_com') <= t'
    BY <2>1, NothingTyped
  <2>3. TypeOK'
    BY <2>1, <2>2, CommandNames, NothingTyped DEF TypeInv, TypeOK, Text
  <2> QED BY <2>1, <2>3 DEF TypeInv
<1>9. CASE UNCHANGED vars
  BY <1>9 DEF TypeInv, TypeOK, vars, lineVars
<1> QED BY <1>1, <1>2, <1>3, <1>4, <1>5, <1>6, <1>7, <1>8, <1>9 DEF Next

\* Every variable has a value of its kind: what str_format makes of a line is
\* characters and never longer than what it has read, the call is one a command
\* makes, and the path is a path unless cd left NULL.
THEOREM TypeCorrect == Spec => []TypeOK
<1>1. Init => TypeInv
  BY TypeInit
<1>2. TypeInv /\ [Next]_vars => TypeInv'
  BY TypeStep
<1>3. TypeInv => TypeOK
  BY DEF TypeInv
<1> QED BY <1>1, <1>2, <1>3, PTL DEF Spec

-----------------------------------------------------------------------------
(* What str_format keeps of a line.                                        *)

LEMMA AppendNone == ASSUME NEW x PROVE Append(<<>>, x) = <<x>>
  OBVIOUS

LEMMA ExtendedAppend ==
  ASSUME NEW w \in Lists, NEW x \in Characters
  PROVE  Extended(Append(w, <<>>), x) = Append(w, <<x>>)
<1> DEFINE e == <<>>
           o == <<x>>
           n == Len(w)
           u == Append(w, e)
           v == Append(w, o)
           z == Extended(u, x)
<1>1. e \in Text /\ o \in Text /\ Append(e, x) = o /\ n \in Nat
  BY NothingTyped, OneChar, AppendNone, LenProperties DEF Lists
<1> HIDE DEF e, o
<1>2. /\ u \in Lists /\ Len(u) = n + 1 /\ u[n + 1] = e
      /\ \A i \in 1 .. n : u[i] = w[i]
  BY <1>1, AppendProperties DEF Lists
<1>3. /\ v \in Lists /\ Len(v) = n + 1 /\ v[n + 1] = o
      /\ \A i \in 1 .. n : v[i] = w[i]
  BY <1>1, AppendProperties DEF Lists
<1> HIDE DEF u, v, n
<1>4. /\ z \in Lists /\ Len(z) = n + 1
      /\ \A i \in 1 .. n + 1 : z[i] = IF i = n + 1 THEN Append(u[i], x) ELSE u[i]
  <2>1. /\ z \in Lists /\ Len(z) = Len(u)
        /\ \A i \in 1 .. Len(u) : z[i] = IF i = Len(u) THEN Append(u[i], x) ELSE u[i]
    BY <1>2, ExtendedType
  <2> QED BY <1>2, <2>1
<1> HIDE DEF z
<1>5. \A i \in 1 .. n + 1 : z[i] = v[i]
  <2> TAKE i \in 1 .. n + 1
  <2>1. CASE i = n + 1
    BY <1>1, <1>2, <1>3, <1>4, <2>1
  <2>2. CASE i # n + 1
    <3>1. i \in 1 .. n
      BY <1>1, <2>2
    <3> QED BY <1>2, <1>3, <1>4, <2>2, <3>1
  <2> QED BY <2>1, <2>2
<1>6. z = v
  BY <1>1, <1>3, <1>4, <1>5, SeqEqual DEF Lists
<1> QED BY <1>6 DEF z, u, v, e, o

\* g is what is kept of the words w in the first n characters of the line s.
Kept(w, g, s, n) ==
  /\ w \in Lists
  /\ n = 0 => w = <<>>
  /\ g = <<>> <=> w = <<>>
  /\ w = <<>> \/ s[n] = Blank => Pieces(g, Blank) = Append(w, <<>>)
  /\ w = <<>> /\ n > 0 => s[n] = Blank
  /\ w # <<>> /\ s[n] # Blank => Pieces(g, Blank) = w
  /\ w # <<>> /\ s[n] = Blank /\ n < Len(s) => s[n + 1] # Blank

LEMMA KeptStart ==
  ASSUME NEW s \in Text
  PROVE  Kept(WordsUpTo(s)[0], <<>>, s, 0)
<1>1. WordsUpTo(s)[0] = <<>> /\ <<>> \in Lists
  BY WordsUpToIs, EmptySeq DEF WordsBy, Lists
<1>2. Pieces(<<>>, Blank) = Append(<<>>, <<>>)
  BY PiecesOfNone, AppendNone
<1> QED BY <1>1, <1>2 DEF Kept

\* No word, and no character yet.
LEMMA KeptSkip ==
  ASSUME NEW s \in Text, NEW n \in Nat, n < Len(s), s[n + 1] = Blank,
         Kept(WordsUpTo(s)[n], <<>>, s, n)
  PROVE  Kept(WordsUpTo(s)[n + 1], <<>>, s, n + 1)
<1> DEFINE w == WordsUpTo(s)
<1>1. n + 1 \in 1 .. Len(s) /\ (n + 1) - 1 = n /\ n + 1 # 0
  BY TextFacts
<1>2. w[n + 1] = WordStep(w[n], s, n + 1)
  BY <1>1, WordsUpToIs DEF WordsBy
<1> HIDE DEF w
<1>3. w[n + 1] = w[n]
  BY <1>2 DEF WordStep
<1>4. w[n] = <<>> /\ w[n] \in Lists /\ Pieces(<<>>, Blank) = Append(w[n], <<>>)
  BY DEF Kept, w
<1>5. Kept(w[n + 1], <<>>, s, n + 1)
  BY <1>1, <1>3, <1>4 DEF Kept
<1> QED BY <1>5 DEF w

\* The blanks behind a word.
LEMMA KeptBlank ==
  ASSUME NEW s \in Text, NEW n \in Nat, n < Len(s), s[n + 1] = Blank,
         NEW g \in Text, g # <<>>, Kept(WordsUpTo(s)[n], g, s, n),
         NEW m \in n + 1 .. Len(s), \A i \in n + 1 .. m : s[i] = Blank, m < Len(s) => s[m + 1] # Blank
  PROVE  Kept(WordsUpTo(s)[m], Append(g, Blank), s, m)
<1> DEFINE w == WordsUpTo(s)
           k == m - n
           f == [i \in 0 .. k |-> w[n + i]]
<1>0. Len(s) \in Nat /\ k \in Nat
  BY TextFacts
<1>1. \A i \in 1 .. Len(s) : w[i] = WordStep(w[i - 1], s, i)
  BY WordsUpToIs DEF WordsBy
<1> HIDE DEF w
<1>2. w[m] = w[n]
  <2> DEFINE S == {w[n]}
  <2>1. f[0] \in S
    <3>1. 0 \in 0 .. k /\ n + 0 = n
      BY <1>0
    <3> QED BY <3>1
  <2>2. \A i \in 1 .. k : f[i - 1] \in S => f[i] \in S
    <3> TAKE i \in 1 .. k
    <3>1. i \in 0 .. k /\ i - 1 \in 0 .. k /\ n + i \in 1 .. Len(s) /\ n + i \in n + 1 .. m
          /\ (n + i) - 1 = n + (i - 1)
      BY <1>0
    <3>2. w[n + i] = WordStep(w[n + (i - 1)], s, n + i) /\ s[n + i] = Blank
      BY <1>1, <3>1
    <3>3. w[n + i] = w[n + (i - 1)]
      BY <3>2 DEF WordStep
    <3> QED BY <3>1, <3>3
  <2>3. f[k] = w[m]
    <3>1. k \in 0 .. k /\ n + k = m
      BY <1>0
    <3> QED BY <3>1
  <2>4. k \in 0 .. k
    BY <1>0
  <2> HIDE DEF f, S, k
  <2>5. \A i \in 0 .. k : f[i] \in S
    BY <1>0, <2>1, <2>2, StaysIn
  <2> QED BY <2>3, <2>4, <2>5 DEF S
<1>3. w[n] \in Lists /\ w[n] # <<>> /\ s[n] # Blank /\ Pieces(g, Blank) = w[n]
  BY DEF Kept, w
<1>4. Pieces(Append(g, Blank), Blank) = Append(w[n], <<>>)
  <2>1. Blank \in Characters
    BY CharactersAssumption
  <2>2. Pieces(Append(g, Blank), Blank) = PieceStep(Pieces(g, Blank), Blank, Blank)
    BY <2>1, PiecesAppend
  <2> QED BY <1>3, <2>2 DEF PieceStep
<1>5. s[m] = Blank /\ m # 0
  <2>1. m \in n + 1 .. m
    BY <1>0
  <2> QED BY <2>1
<1>6. Append(g, Blank) # <<>>
  <2>1. Blank \in Characters
    BY CharactersAssumption
  <2> QED BY <2>1, AppendProperties DEF Text
<1>7. Kept(w[m], Append(g, Blank), s, m)
  BY <1>2, <1>3, <1>4, <1>5, <1>6 DEF Kept
<1> QED BY <1>7 DEF w

\* A character of a word, its first or another.
LEMMA KeptChar ==
  ASSUME NEW s \in Text, NEW n \in Nat, n < Len(s), s[n + 1] # Blank,
         NEW g \in Text, Kept(WordsUpTo(s)[n], g, s, n)
  PROVE  Kept(WordsUpTo(s)[n + 1], Append(g, s[n + 1]), s, n + 1)
<1> DEFINE w == WordsUpTo(s)
           x == s[n + 1]
           h == Append(g, x)
<1>1. n + 1 \in 1 .. Len(s) /\ (n + 1) - 1 = n /\ n + 1 # 0 /\ (n + 1 = 1 <=> n = 0) /\ x \in Characters
  BY TextFacts
<1>2. w[n + 1] = WordStep(w[n], s, n + 1)
  BY <1>1, WordsUpToIs DEF WordsBy
<1>3. w[n] \in Lists
  BY DEF Kept
<1>4. Pieces(h, Blank) = Extended(Pieces(g, Blank), x)
  BY <1>1, PiecesAppend DEF PieceStep
<1> HIDE DEF w
<1>5. h # <<>>
  BY <1>1, AppendProperties DEF Text
<1>6. CASE w[n] = <<>> \/ s[n] = Blank
  <2>1. n = 0 \/ s[n] = Blank
    BY <1>1, <1>6 DEF Kept, w
  <2>2. w[n + 1] = Append(w[n], <<x>>)
    BY <1>1, <1>2, <2>1 DEF WordStep
  <2>3. Pieces(g, Blank) = Append(w[n], <<>>)
    BY <1>6 DEF Kept, w
  <2>4. Pieces(h, Blank) = w[n + 1]
    BY <1>1, <1>3, <1>4, <2>2, <2>3, ExtendedAppend
  <2>5. w[n + 1] \in Lists /\ w[n + 1] # <<>>
    <3>1. <<x>> \in Text
      BY <1>1, OneChar
    <3> QED BY <1>3, <2>2, <3>1, AppendProperties DEF Lists
  <2> QED BY <1>1, <1>5, <2>4, <2>5 DEF Kept, w
<1>7. CASE w[n] # <<>> /\ s[n] # Blank
  <2>1. n # 0 /\ Pieces(g, Blank) = w[n]
    BY <1>7 DEF Kept, w
  <2>2. w[n + 1] = Extended(w[n], x)
    BY <1>1, <1>2, <1>7, <2>1 DEF WordStep
  <2>3. Pieces(h, Blank) = w[n + 1]
    BY <1>4, <2>1, <2>2
  <2>4. w[n + 1] \in Lists /\ w[n + 1] # <<>>
    <3>1. Len(w[n]) # 0
      BY <1>3, <1>7, EmptySeq DEF Lists
    <3>2. Extended(w[n], x) \in Lists /\ Len(Extended(w[n], x)) = Len(w[n])
      BY <1>1, <1>3, ExtendedType
    <3>3. Len(<<>>) = 0
      OBVIOUS
    <3> QED BY <2>2, <3>1, <3>2, <3>3
  <2> QED BY <1>1, <1>5, <2>3, <2>4 DEF Kept, w
<1> QED BY <1>6, <1>7

\* From the first character read to the line's end, and while its command is run.
FormatInv == pc \in {"format", "run", "done"} => Kept(WordsUpTo(typed)[t], get_com, typed, t)

LEMMA FormatCharKeeps ==
  ASSUME TypeInv, FormatInv, FormatChar
  PROVE  FormatInv'
<1>1. pc = "format" /\ t < Len(typed) /\ pc' = pc /\ typed' = typed
  BY DEF FormatChar
<1>2. typed \in Text /\ get_com \in Text /\ t \in Nat /\ Len(typed) \in Nat
  BY TextFacts DEF TypeInv, TypeOK, Text
<1>3. Kept(WordsUpTo(typed)[t], get_com, typed, t)
  BY <1>1 DEF FormatInv
<1>4. Kept(WordsUpTo(typed)[t'], get_com', typed, t')
  <2>1. CASE Char = Blank /\ get_com = <<>>
    <3>1. t' = t + 1 /\ get_com' = <<>>
      BY <2>1 DEF FormatChar
    <3>2. typed[t + 1] = Blank /\ Kept(WordsUpTo(typed)[t], <<>>, typed, t)
      BY <1>3, <2>1 DEF Char
    <3>3. Kept(WordsUpTo(typed)[t + 1], <<>>, typed, t + 1)
      BY <1>1, <1>2, <3>2, KeptSkip
    <3> QED BY <3>1, <3>3
  <2>2. CASE Char = Blank /\ get_com # <<>>
    <3>1. t' = NextWord /\ get_com' = Append(get_com, Blank)
      BY <2>2 DEF FormatChar
    <3>2. typed[t + 1] = Blank
      BY <2>2 DEF Char
    <3>3. /\ NextWord \in t + 1 .. Len(typed)
          /\ \A i \in t + 1 .. NextWord : typed[i] = Blank
          /\ NextWord < Len(typed) => typed[NextWord + 1] # Blank
      BY <1>1, <1>2, <3>2, NextWordIs
    <3>4. Kept(WordsUpTo(typed)[NextWord], Append(get_com, Blank), typed, NextWord)
      BY <1>1, <1>2, <1>3, <2>2, <3>2, <3>3, KeptBlank
    <3> QED BY <3>1, <3>4
  <2>3. CASE Char # Blank
    <3>1. t' = t + 1 /\ get_com' = Append(get_com, typed[t + 1])
      BY <2>3 DEF FormatChar, Char
    <3>2. typed[t + 1] # Blank
      BY <2>3 DEF Char
    <3>3. Kept(WordsUpTo(typed)[t + 1], Append(get_com, typed[t + 1]), typed, t + 1)
      BY <1>1, <1>2, <1>3, <3>2, KeptChar
    <3> QED BY <3>1, <3>3
  <2> QED BY <2>1, <2>2, <2>3
<1> QED BY <1>1, <1>4 DEF FormatInv

LEMMA FormatInit == Init => FormatInv
  BY DEF Init, FormatInv

LEMMA FormatStep == TypeInv /\ FormatInv /\ [Next]_vars => FormatInv'
<1> SUFFICES ASSUME TypeInv, FormatInv, [Next]_vars PROVE FormatInv'
  OBVIOUS
<1>1. CASE Start \/ Kill \/ PromptNull \/ Again
  <2>1. pc' \in {"prompt", "down"}
    BY <1>1 DEF Start, Kill, PromptNull, Again, Ends
  <2> QED BY <2>1 DEF FormatInv
<1>2. ASSUME NEW line \in Lines, ReadLine(line) PROVE FormatInv'
  <2>1. pc = "prompt" /\ typed' = line /\ t' = t /\ get_com' = get_com
    BY <1>2 DEF ReadLine
  <2>2. t' = 0 /\ get_com' = <<>> /\ line \in Text
    BY <2>1, LinesAssumption DEF TypeInv, Text
  <2>3. Kept(WordsUpTo(line)[0], <<>>, line, 0)
    BY <2>2, KeptStart
  <2> QED BY <2>1, <2>2, <2>3 DEF FormatInv
<1>3. CASE FormatChar
  BY <1>3, FormatCharKeeps
<1>4. CASE FormatEnd \/ Unknown \/ Ls \/ OnePath \/ TwoPaths \/ CatFile \/ CatFiles \/ CatOther \/ Cd
  <2>1. Ends \/ (pc \in {"format", "run"} /\ pc' \in {"run", "done"} /\ lineVars' = lineVars)
    <3>1. CASE FormatEnd
      BY <3>1 DEF FormatEnd
    <3>2. CASE Cd
      BY <3>2 DEF Cd, Is, Done
    <3>3. CASE Unknown \/ Ls \/ OnePath \/ TwoPaths \/ CatFile \/ CatFiles \/ CatOther
      <4>1. pc = "run" /\ (AsksNothing \/ Ends \/ \E name \in DOMAIN COMMANDS : \E paths : Asks(name, paths, TRUE))
        BY <3>3, CommandCalls
      <4> QED BY <4>1 DEF AsksNothing, Asks, Done
    <3> QED BY <1>4, <3>1, <3>2, <3>3
  <2>2. CASE Ends
    BY <2>2 DEF Ends, FormatInv
  <2>3. CASE pc \in {"format", "run"} /\ lineVars' = lineVars
    BY <2>3 DEF FormatInv, lineVars
  <2> QED BY <2>1, <2>2, <2>3
<1>5. CASE UNCHANGED vars
  BY <1>5 DEF FormatInv, vars, lineVars
<1> QED BY <1>1, <1>2, <1>3, <1>4, <1>5 DEF Next

\* The words of a line are in what str_format makes of it, each as it was typed
\* and in its place, with one blank between two of them and none before the first,
\* however long the line and however many blanks are in it.
THEOREM LineIsFormatted == Spec => []LineFormatted
<1> DEFINE Inv == TypeInv /\ FormatInv
<1>1. Init => Inv
  BY TypeInit, FormatInit
<1>2. Inv /\ [Next]_vars => Inv'
  BY TypeStep, FormatStep
<1>3. Inv => LineFormatted
  <2> SUFFICES ASSUME Inv, pc = "run"
               PROVE  LET words == WordsOf(typed)
                      IN IF words = <<>> THEN get_com = <<>>
                         ELSE Pieces(get_com, Blank) \in {words, Append(words, <<>>)}
    BY DEF LineFormatted
  <2> DEFINE words == WordsOf(typed)
  <2>1. Kept(words, get_com, typed, t)
    BY DEF FormatInv, TypeInv, WordsOf
  <2> HIDE DEF words
  <2>2. words = <<>> => get_com = <<>>
    BY <2>1 DEF Kept
  <2>3. words # <<>> => Pieces(get_com, Blank) \in {words, Append(words, <<>>)}
    BY <2>1 DEF Kept
  <2> QED BY <2>2, <2>3 DEF words
<1> QED BY <1>1, <1>2, <1>3, PTL DEF Spec

-----------------------------------------------------------------------------
(* Where cd leads.                                                         *)

LEMMA TailOfConcat ==
  ASSUME NEW p \in Lists, NEW q \in Lists, Len(p) > 0
  PROVE  (p \o q)[1] = p[1] /\ Tail(p \o q) = Tail(p) \o q
<1> DEFINE m == Len(p)
           n == Len(q)
           pq == p \o q
           l == m - 1
           tp == Tail(p)
           u == Tail(pq)
           v == tp \o q
<1>1. /\ pq \in Lists /\ m \in Nat /\ n \in Nat /\ m > 0 /\ Len(pq) = m + n
      /\ \A i \in 1 .. m : pq[i] = p[i]
      /\ \A i \in 1 .. n : pq[m + i] = q[i]
  BY ConcatParts DEF Lists
<1>2. p # <<>> /\ pq # <<>> /\ l \in Nat /\ m = l + 1 /\ 1 \in 1 .. m /\ Len(q) = n
  <2>1. Len(<<>>) = 0
    OBVIOUS
  <2> QED BY <1>1, <2>1
<1> HIDE DEF pq, n, m, l
<1>3. tp \in Lists /\ Len(tp) = l /\ \A i \in 1 .. l : tp[i] = p[i + 1]
  <2>1. tp \in Lists /\ Len(tp) = Len(p) - 1 /\ \A i \in 1 .. Len(tp) : tp[i] = p[i + 1]
    BY <1>2, HeadTailProperties DEF Lists
  <2> QED BY <1>1, <1>2, <2>1 DEF m
<1>4. u \in Lists /\ Len(u) = l + n /\ \A i \in 1 .. l + n : u[i] = pq[i + 1]
  <2>1. u \in Lists /\ Len(u) = Len(pq) - 1 /\ \A i \in 1 .. Len(u) : u[i] = pq[i + 1]
    BY <1>1, <1>2, HeadTailProperties DEF Lists
  <2> QED BY <1>1, <1>2, <2>1
<1> HIDE DEF tp, u, v
<1>5. /\ v \in Lists /\ Len(v) = l + n
      /\ \A i \in 1 .. l : v[i] = tp[i]
      /\ \A i \in 1 .. n : v[l + i] = q[i]
  <2>1. /\ tp \o q \in Lists /\ Len(tp \o q) = l + n
        /\ \A i \in 1 .. l : (tp \o q)[i] = tp[i]
        /\ \A i \in 1 .. n : (tp \o q)[l + i] = q[i]
    <3>1. tp \in Seq(Text) /\ q \in Seq(Text) /\ Len(tp) = l /\ Len(q) = n
      BY <1>2, <1>3 DEF Lists
    <3>2. /\ tp \o q \in Seq(Text) /\ Len(tp \o q) = l + n
          /\ \A i \in 1 .. l : (tp \o q)[i] = tp[i]
          /\ \A i \in 1 .. n : (tp \o q)[l + i] = q[i]
      BY <3>1, ConcatParts
    <3> QED BY <3>2 DEF Lists
  <2> QED BY <2>1 DEF v
<1>6. \A i \in 1 .. l + n : u[i] = v[i]
  <2> TAKE i \in 1 .. l + n
  <2>1. CASE i <= l
    <3>1. i \in 1 .. l /\ i + 1 \in 1 .. m
      BY <1>2, <2>1
    <3> QED BY <1>1, <1>3, <1>4, <1>5, <3>1
  <2>2. CASE ~ (i <= l)
    <3> DEFINE k == i - l
    <3>1. k \in 1 .. n /\ l + k = i /\ m + k = i + 1
      BY <1>1, <1>2, <2>2
    <3> HIDE DEF k
    <3>2. pq[i + 1] = q[k] /\ v[i] = q[k]
      BY <1>1, <1>5, <3>1
    <3> QED BY <1>4, <3>2
  <2> QED BY <2>1, <2>2
<1>7. u = v
  BY <1>1, <1>2, <1>4, <1>5, <1>6, SeqEqual DEF Lists
<1> QED BY <1>1, <1>2, <1>7 DEF u, v, tp, pq

LEMMA TailOfFront ==
  ASSUME NEW q \in Lists, Len(q) > 1
  PROVE  Front(q)[1] = q[1] /\ Tail(Front(q)) = Front(Tail(q)) /\ Tail(q) # <<>>
<1> DEFINE n == Len(q)
           m == n - 1
           l == n - 2
           r == SubSeq(q, 1, m)
           d == Tail(q)
           u == Tail(r)
           v == SubSeq(d, 1, l)
<1>1. n \in Nat /\ n > 1 /\ m \in Nat /\ l \in Nat /\ m = l + 1 /\ n = m + 1 /\ 1 \in 1 .. m /\ m > 0
  BY LenProperties DEF Lists
<1>2. \A i \in 1 .. n : q[i] \in Text
  BY ElementOfSeq DEF Lists
<1>3. q # <<>>
  <2>1. Len(<<>>) = 0
    OBVIOUS
  <2> QED BY <1>1, <2>1
<1>4. d \in Lists /\ Len(d) = m /\ \A i \in 1 .. m : d[i] = q[i + 1]
  <2>1. d \in Lists /\ Len(d) = Len(q) - 1 /\ \A i \in 1 .. Len(d) : d[i] = q[i + 1]
    BY <1>3, HeadTailProperties DEF Lists
  <2> QED BY <1>1, <2>1
<1> HIDE DEF d, n, m, l
<1>5. r \in Lists /\ Len(r) = m /\ \A i \in 1 .. m : r[i] = q[i]
  <2> DEFINE one == 1
  <2>1. one \in Int /\ m \in Int /\ \A i \in one .. m : q[i] \in Text
    BY <1>1, <1>2
  <2> HIDE DEF one
  <2>2. /\ SubSeq(q, one, m) \in Seq(Text)
        /\ Len(SubSeq(q, one, m)) = IF one <= m THEN m - one + 1 ELSE 0
        /\ \A i \in 1 .. m - one + 1 : SubSeq(q, one, m)[i] = q[one + i - 1]
    BY <2>1, SubSeqProperties
  <2>3. one <= m /\ m - one + 1 = m /\ \A i \in 1 .. m : one + i - 1 = i
    BY <1>1 DEF one
  <2> QED BY <2>2, <2>3 DEF one, Lists
<1>6. v \in Lists /\ Len(v) = l /\ \A i \in 1 .. l : v[i] = d[i]
  <2> DEFINE one == 1
  <2>1. one \in Int /\ l \in Int /\ \A i \in one .. l : d[i] \in Text
    <3>1. \A i \in 1 .. l : i \in 1 .. m /\ i + 1 \in 1 .. n
      BY <1>1
    <3> QED BY <1>1, <1>2, <1>4, <3>1
  <2> HIDE DEF one
  <2>2. /\ SubSeq(d, one, l) \in Seq(Text)
        /\ Len(SubSeq(d, one, l)) = IF one <= l THEN l - one + 1 ELSE 0
        /\ \A i \in 1 .. l - one + 1 : SubSeq(d, one, l)[i] = d[one + i - 1]
    BY <2>1, SubSeqProperties
  <2>3. (IF one <= l THEN l - one + 1 ELSE 0) = l /\ l - one + 1 = l /\ \A i \in 1 .. l : one + i - 1 = i
    BY <1>1 DEF one
  <2> QED BY <2>2, <2>3 DEF one, Lists
<1> HIDE DEF r, v
<1>7. u \in Lists /\ Len(u) = l /\ \A i \in 1 .. l : u[i] = r[i + 1]
  <2>1. r # <<>>
    <3>1. Len(<<>>) = 0
      OBVIOUS
    <3> QED BY <1>1, <1>5, <3>1
  <2>2. u \in Lists /\ Len(u) = Len(r) - 1 /\ \A i \in 1 .. Len(u) : u[i] = r[i + 1]
    BY <1>5, <2>1, HeadTailProperties DEF Lists
  <2> QED BY <1>1, <1>5, <2>2
<1> HIDE DEF u
<1>8. \A i \in 1 .. l : u[i] = v[i]
  <2> TAKE i \in 1 .. l
  <2>1. i \in 1 .. m /\ i + 1 \in 1 .. m
    BY <1>1
  <2> QED BY <1>4, <1>5, <1>6, <1>7, <2>1
<1>9. u = v
  BY <1>6, <1>7, <1>8, SeqEqual DEF Lists
<1>10. Front(q) = r /\ Front(d) = v
  <2>1. Front(q) = SubSeq(q, 1, Len(q) - 1) /\ Front(d) = SubSeq(d, 1, Len(d) - 1)
    BY DEF Front
  <2>2. Len(q) - 1 = m /\ Len(d) - 1 = l
    BY <1>1, <1>4 DEF n
  <2> QED BY <2>1, <2>2 DEF r, v
<1>11. d # <<>>
  <2>1. Len(<<>>) = 0
    OBVIOUS
  <2> QED BY <1>1, <1>4, <2>1
<1> QED BY <1>1, <1>5, <1>9, <1>10, <1>11 DEF u, d

\* The first cut, and all that follow it, are behind the first character.
LEMMA CutsBehind ==
  ASSUME NEW s \in Text, NEW c, NEW b, NEW q, CutAt(b, q, s, Len(s), c), q[1] # <<>>
  PROVE  \A k \in 1 .. Len(q) : b[k] > 1 /\ b[k] \in Int
<1> DEFINE n == Len(q)
           f == [k \in 0 .. n - 1 |-> b[k + 1]]
           S == {i \in Int : i > 1}
<1>1. n \in Nat \ {0} /\ b[0] = 0 /\ Len(s) \in Nat /\ \A k \in 0 .. n : b[k] \in 0 .. Len(s) + 1
  BY CutFacts
<1>2. \A k \in 1 .. n : b[k - 1] < b[k]
  BY CutFacts
<1>3. b[1] > 1 /\ b[1] \in Int
  <2> DEFINE k == 1
  <2>1. k \in 1 .. Len(q) /\ k - 1 = 0
    BY <1>1
  <2> HIDE DEF k
  <2>2. q[k] \in Text /\ Len(q[k]) = b[k] - b[k - 1] - 1 /\ b[k] \in 0 .. Len(s) + 1
    <3>1. k \in 0 .. Len(q)
      BY <1>1, <2>1
    <3> QED BY <2>1, <3>1, CutFacts
  <2>3. Len(q[k]) \in Nat /\ Len(q[k]) # 0
    BY <2>2, EmptySeq, LenProperties DEF k, Text
  <2> QED BY <1>1, <2>1, <2>2, <2>3 DEF k
<1>4. n - 1 \in Nat /\ f[0] \in S
  <2>1. n - 1 \in Nat /\ 0 \in 0 .. n - 1 /\ 0 + 1 = 1
    BY <1>1
  <2> QED BY <1>3, <2>1
<1>5. \A k \in 1 .. n - 1 : f[k - 1] \in S => f[k] \in S
  <2> SUFFICES ASSUME NEW k \in 1 .. n - 1, f[k - 1] \in S PROVE f[k] \in S
    OBVIOUS
  <2>1. /\ k \in 0 .. n - 1 /\ k - 1 \in 0 .. n - 1 /\ (k - 1) + 1 = k
        /\ k + 1 \in 1 .. n /\ k + 1 \in 0 .. n /\ (k + 1) - 1 = k
    BY <1>1
  <2>2. f[k] = b[k + 1] /\ f[k - 1] = b[k]
    BY <2>1
  <2>3. b[k] < b[k + 1] /\ b[k + 1] \in 0 .. Len(s) + 1 /\ b[k] > 1 /\ b[k] \in Int
    BY <1>1, <1>2, <2>1, <2>2
  <2> HIDE DEF f
  <2> QED BY <1>1, <2>2, <2>3
<1> DEFINE m == n - 1
<1> HIDE DEF S
<1>6. \A k \in 0 .. m : f[k] \in S
  <2> HIDE DEF f
  <2>1. m \in Nat /\ \A k \in 1 .. m : f[k - 1] \in S => f[k] \in S
    BY <1>4, <1>5
  <2> HIDE DEF m
  <2> QED BY <1>4, <2>1, StaysIn
<1>7. ASSUME NEW k \in 1 .. n PROVE b[k] > 1 /\ b[k] \in Int
  <2>1. k - 1 \in 0 .. m /\ (k - 1) + 1 = k
    BY <1>1
  <2>2. f[k - 1] = b[k] /\ f[k - 1] \in S
    BY <1>6, <2>1
  <2> QED BY <2>2 DEF S
<1> QED BY <1>7

\* cd .. takes the last name away, or leaves NULL of a drive.
LEMMA ParentLeads ==
  ASSUME NEW s \in Text, NEW q, q = Pieces(s, "/"), q[1] # <<>>
  PROVE  /\ q \in Lists /\ Len(q) \in Nat \ {0}
         /\ Len(q) = 1 => Parent(s) = NULL
         /\ Len(q) > 1 => Parent(s) \in Text /\ Pieces(Parent(s), "/") = Front(q)
<1>1. PICK b : CutAt(b, q, s, Len(s), "/")
  BY PiecesAreCut
<1> DEFINE n == Len(q)
           k == n - 1
           j == b[k] - 2
           i == 0
<1>2. q \in Lists /\ n \in Nat \ {0} /\ b[0] = 0 /\ Len(s) \in Nat
  BY <1>1, CutFacts
<1>3. str_lastIndexOf(s, "/") = b[k] - 1
  BY <1>1, FindsLast
<1>4. Parent(s) = str_substring(s, i, (b[k] - 1) - 1)
  BY <1>3 DEF Parent
<1> HIDE DEF n
<1>5. ASSUME n = 1 PROVE Parent(s) = NULL
  <2>1. (b[k] - 1) - 1 = -2
    BY <1>2, <1>5
  <2>2. str_substring(s, 0, -2) = NULL
    BY DEF str_substring
  <2> QED BY <1>4, <2>1, <2>2
<1>6. ASSUME n > 1 PROVE Parent(s) \in Text /\ Pieces(Parent(s), "/") = Front(q)
  <2>1. k \in 1 .. n /\ k < n
    BY <1>2, <1>6
  <2> HIDE DEF k
  <2>2. b[k] \in 1 .. Len(s) /\ b[k] > 1 /\ b[k] \in Int
    BY <1>1, <2>1, CutFacts, CutsBehind DEF n
  <2>3. (b[k] - 1) - 1 = j /\ ~ (i < 0 \/ j > Len(s) - 1 \/ i > j) /\ i + 1 = 1 /\ j + 1 = b[k] - 1
        /\ i \in Nat /\ j \in Int /\ j < Len(s)
    <3>1. \A z, l \in Nat : z \in 1 .. l /\ z > 1 =>
            /\ (z - 1) - 1 = z - 2 /\ ~ (0 < 0 \/ z - 2 > l - 1 \/ 0 > z - 2) /\ 0 + 1 = 1
            /\ (z - 2) + 1 = z - 1 /\ z - 2 \in Int /\ z - 2 < l
      OBVIOUS
    <3>2. b[k] \in Nat
      BY <2>2
    <3> QED BY <1>2, <2>2, <3>1, <3>2
  <2>4. Parent(s) = SubSeq(s, i + 1, j + 1)
    BY <1>4, <2>3 DEF str_substring
  <2>5. Pieces(SubSeq(s, 1, b[k] - 1), "/") = Front(q)
    BY <1>1, <1>6, FrontPieces DEF n, k
  <2> HIDE DEF i, j
  <2>6. SubSeq(s, i + 1, j + 1) \in Text
    BY <2>3, SubText
  <2> QED BY <2>3, <2>4, <2>5, <2>6
<1> QED BY <1>2, <1>5, <1>6 DEF n

\* cd / leads to the drive.
LEMMA DriveLeads ==
  ASSUME NEW s \in Text, NEW q, q = Pieces(s, "/"), q[1] # <<>>
  PROVE  Drive(s) \in Text /\ Pieces(Drive(s), "/") = <<q[1]>>
<1>1. PICK b : CutAt(b, q, s, Len(s), "/")
  BY PiecesAreCut
<1>2. q \in Lists /\ Len(q) \in Nat \ {0} /\ b[0] = 0 /\ Len(s) \in Nat
  BY <1>1, CutFacts
<1>3. /\ Len(q) > 1 => str_indexOf(s, "/") = b[1] - 1
      /\ Len(q) = 1 => str_indexOf(s, "/") = -1
  BY <1>1, FindsFirst
<1>4. \A i \in 1 .. Len(q) :
        /\ q[i] = SubSeq(s, b[i - 1] + 1, b[i] - 1) /\ q[i] \in Text /\ Len(q[i]) = b[i] - b[i - 1] - 1
        /\ \A l \in b[i - 1] + 1 .. b[i] - 1 : s[l] # "/"
  BY <1>1, CutFacts
<1>5. CASE Len(q) = 1
  <2>1. Drive(s) = s
    BY <1>3, <1>5 DEF Drive
  <2>2. q = <<q[1]>>
    <3>1. q \in Seq(Text) /\ q[1] \in Text
      BY <1>2, <1>5, ElementOfSeq DEF Lists
    <3> PICK z : z = q[1]
      OBVIOUS
    <3>2. <<z>> \in Seq(Text) /\ Len(<<z>>) = 1 /\ <<z>>[1] = z
      BY <3>1
    <3>3. \A i \in 1 .. 1 : i = 1
      OBVIOUS
    <3>4. q = <<z>>
      BY <1>5, <3>1, <3>2, <3>3, SeqEqual
    <3> QED BY <3>4
  <2> QED BY <2>1, <2>2
<1>6. CASE Len(q) > 1
  <2> DEFINE k == 1
             j == b[k] - 2
             i == 0
  <2>1. k \in 1 .. Len(q) /\ k < Len(q) /\ k - 1 = 0
    BY <1>2, <1>6
  <2> HIDE DEF k
  <2>2. b[k] \in 1 .. Len(s) /\ b[k] > 1 /\ b[k] \in Int
    BY <1>1, <2>1, CutFacts, CutsBehind
  <2>3. (b[k] - 1) - 1 = j /\ ~ (i < 0 \/ j > Len(s) - 1 \/ i > j) /\ i + 1 = b[0] + 1 /\ j + 1 = b[k] - 1
        /\ b[k] - 1 # -1
    BY <1>2, <2>2
  <2>4. str_indexOf(s, "/") = b[k] - 1
    BY <1>3, <1>6 DEF k
  <2>5. Drive(s) = SubSeq(s, i + 1, j + 1)
    BY <2>3, <2>4 DEF Drive, str_substring
  <2>6. /\ q[k] = SubSeq(s, b[k - 1] + 1, b[k] - 1) /\ q[k] \in Text /\ Len(q[k]) = b[k] - b[k - 1] - 1
        /\ \A m \in b[k - 1] + 1 .. b[k] - 1 : s[m] # "/"
    BY <1>4, <2>1
  <2>7. Drive(s) = q[k]
    BY <2>1, <2>3, <2>5, <2>6
  <2>8. \A m \in 1 .. Len(q[k]) : q[k][m] # "/"
    <3> DEFINE z == b[k]
               y == 0
    <3>1. z \in Nat /\ y \in Nat /\ y < z /\ z <= Len(s) + 1
      BY <1>2, <2>2
    <3>2. z - y - 1 = Len(q[k]) /\ \A m \in 1 .. Len(q[k]) : y + m = m /\ m \in b[k - 1] + 1 .. b[k] - 1
      BY <1>2, <2>1, <2>2, <2>6
    <3>3. q[k] = SubSeq(s, y + 1, z - 1)
      BY <1>2, <2>1, <2>6
    <3> HIDE DEF y, z
    <3>4. \A m \in 1 .. z - y - 1 : SubSeq(s, y + 1, z - 1)[m] = s[y + m]
      BY <3>1, PieceFacts
    <3> QED BY <2>6, <3>2, <3>3, <3>4
  <2>9. Pieces(q[k], "/") = <<q[k]>>
    BY <2>6, <2>8, Uncut
  <2> QED BY <2>6, <2>7, <2>9 DEF k
<1>7. Len(q) = 1 \/ Len(q) > 1
  BY <1>2
<1> QED BY <1>5, <1>6, <1>7

LEMMA HeadIs ==
  ASSUME NEW q \in Lists, Len(q) > 0
  PROVE  Head(q) = q[1]
  OBVIOUS

\* The drive has a name, which every path begins with.
RootName == Head(Pieces(ROOT_PATH, "/"))
PathInv == cur_path # NULL => Head(Pieces(cur_path, "/")) = RootName

LEMMA RootNamed == RootName # <<>>
<1> DEFINE q == Pieces(ROOT_PATH, "/")
<1>1. PICK b : CutAt(b, q, ROOT_PATH, Len(ROOT_PATH), "/")
  BY RootText, PiecesAreCut
<1> HIDE DEF q
<1>2. q \in Lists /\ Len(q) \in Nat \ {0} /\ b[0] = 0 /\ b[Len(q)] = Len(ROOT_PATH) + 1 /\ Len(ROOT_PATH) \in Nat
  BY <1>1, RootText, CutFacts
<1>3. Head(q) = q[1]
  BY <1>2, HeadIs
<1> DEFINE k == 1
<1>4. k \in 1 .. Len(q) /\ k - 1 = 0
  BY <1>2
<1> HIDE DEF k
<1>5. Len(q[k]) = b[k] - b[k - 1] - 1 /\ b[k - 1] < b[k] /\ (k < Len(q) => b[k] \in 1 .. Len(ROOT_PATH))
  BY <1>1, <1>4, RootText, CutFacts
<1>6. /\ Len(q) > 1 => str_indexOf(ROOT_PATH, "/") = b[k] - 1
      /\ str_indexOf(ROOT_PATH, "/") # 0
  BY <1>1, RootText, RootAssumption, FindsFirst DEF k
<1>7. Len(ROOT_PATH) # 0
  <2> SUFFICES ASSUME Len(ROOT_PATH) = 0 PROVE FALSE
    OBVIOUS
  <2>1. Positions(ROOT_PATH, ":", 0) = {}
    BY DEF Positions
  <2>2. str_indexOf(ROOT_PATH, ":") = -1
    BY <2>1 DEF str_indexOf, str_indexOf_start
  <2> QED BY <2>2, RootAssumption DEF str_full_path
<1> DEFINE n == Len(q)
<1> HIDE DEF n
<1>8. Len(q[k]) # 0
  <2>0. n \in Nat \ {0} /\ n = Len(q)
    BY <1>2 DEF n
  <2>1. CASE n > 1
    <3>1. str_indexOf(ROOT_PATH, "/") = b[k] - 1 /\ b[k] \in 1 .. Len(ROOT_PATH)
      BY <1>4, <1>5, <1>6, <2>0, <2>1 DEF k
    <3> QED BY <1>2, <1>4, <1>5, <1>6, <3>1
  <2>2. CASE n = 1
    <3>1. b[k] = Len(ROOT_PATH) + 1
      BY <1>2, <2>0, <2>2 DEF k
    <3> QED BY <1>2, <1>4, <1>5, <1>7, <3>1
  <2> QED BY <2>0, <2>1, <2>2
<1> QED BY <1>3, <1>8, NothingTyped DEF RootName, q, k

LEMMA FirstWord ==
  ASSUME NEW g \in Text, NEW c, NEW b, NEW q, CutAt(b, q, g, Len(g), c), NEW w \in Text,
         str_substring(g, 0, str_indexOf(g, c) - 1) = w
  PROVE  Len(q) > 1 /\ q[1] = w /\ str_indexOf(g, c) = b[1] - 1
<1> DEFINE k == 1
           n == Len(q)
<1>1. n \in Nat \ {0} /\ b[0] = 0 /\ Len(g) \in Nat
  BY CutFacts
<1>2. /\ n > 1 => str_indexOf(g, c) = b[k] - 1
      /\ n = 1 => str_indexOf(g, c) = -1
  BY FindsFirst
<1>3. w # NULL
  BY RootText
<1> HIDE DEF n
<1>4. n > 1
  <2> SUFFICES ASSUME n = 1 PROVE FALSE
    BY <1>1
  <2>1. str_substring(g, 0, str_indexOf(g, c) - 1) = NULL
    BY <1>2 DEF str_substring
  <2> QED BY <1>3, <2>1
<1>5. k \in 1 .. Len(q) /\ k - 1 = 0 /\ k < Len(q)
  BY <1>1, <1>4 DEF n
<1> HIDE DEF k
<1>6. q[k] = SubSeq(g, b[k - 1] + 1, b[k] - 1) /\ b[k] \in 1 .. Len(g)
  BY <1>5, CutFacts
<1>7. w \in {NULL, SubSeq(g, 0 + 1, ((b[k] - 1) - 1) + 1)}
  BY <1>2, <1>4 DEF str_substring
<1>8. w = SubSeq(g, 1, b[k] - 1)
  <2>1. 0 + 1 = 1 /\ ((b[k] - 1) - 1) + 1 = b[k] - 1
    BY <1>1, <1>6
  <2> QED BY <1>3, <1>7, <2>1
<1>9. b[k - 1] + 1 = 1
  BY <1>1, <1>5
<1> QED BY <1>2, <1>4, <1>6, <1>8, <1>9 DEF k, n

\* The words typed are those str_format has left, at the command's beginning all,
\* with nothing more when no blank was typed behind the last.
LEMMA WordsRead ==
  ASSUME TypeInv, FormatInv, pc = "run", Len(Pieces(get_com, Blank)) > 1
  PROVE  /\ WordsOf(typed) \in Lists /\ WordsOf(typed) # <<>>
         /\ WordsOf(typed)[1] = Pieces(get_com, Blank)[1]
         /\ Last(typed) # Blank => WordsOf(typed) = Pieces(get_com, Blank)
<1> DEFINE w == WordsOf(typed)
           q == Pieces(get_com, Blank)
<1>1. Kept(w, get_com, typed, t) /\ Last(typed) = typed[t]
  BY DEF FormatInv, TypeInv, WordsOf, Last
<1>2. get_com # <<>>
  <2> SUFFICES ASSUME get_com = <<>> PROVE FALSE
    OBVIOUS
  <2>1. q = <<<<>>>>
    BY PiecesOfNone
  <2> QED BY <2>1
<1> HIDE DEF w, q
<1>3. /\ w \in Lists /\ w # <<>>
      /\ Last(typed) = Blank => q = Append(w, <<>>)
      /\ Last(typed) # Blank => q = w
  BY <1>1, <1>2 DEF Kept, q
<1>4. Append(w, <<>>)[1] = w[1]
  <2>1. Len(w) \in Nat /\ Len(w) # 0
    BY <1>3, EmptySeq, LenProperties DEF Lists
  <2>2. 1 \in 1 .. Len(w)
    BY <2>1
  <2> QED BY <1>3, <2>2, NothingTyped, AppendProperties DEF Lists
<1> QED BY <1>3, <1>4 DEF w, q

LEMMA CommandWord ==
  ASSUME NEW name \in DOMAIN COMMANDS
  PROVE  COMMANDS[name] \in Text
  BY CharactersAssumption DEF Text

LEMMA CdLeads ==
  ASSUME TypeInv, FormatInv, PathInv, Cd
  PROVE  /\ PathInv'
         /\ WordsOf(typed)[1] = COMMANDS.cd
         /\ cur_path' # cur_path =>
              LET arg == From(get_com, 3)
                  here == Names(cur_path)
              IN \/ here = <<>> /\ arg = <<".", ".">> /\ cur_path' = NULL
                 \/ /\ cur_path' # NULL
                    /\ Head(Pieces(cur_path', "/")) = Head(Pieces(ROOT_PATH, "/"))
                    /\ Names(cur_path') =
                         IF arg = <<".", ".">> THEN Front(here)
                         ELSE IF arg = Slash THEN <<>>
                         ELSE here \o Pieces(arg, "/")
<1> DEFINE arg == From(get_com, 3)
           dots == <<".", ".">>
           q == Pieces(cur_path, "/")
<1>1. pc = "run" /\ cur_path \in Text /\ get_com \in Text /\ cur_path # NULL
  <2>1. pc = "run"
    BY DEF Cd, Is
  <2> QED BY <2>1 DEF TypeInv, TypeOK, Text
<1>2. WordsOf(typed)[1] = COMMANDS.cd
  <2> DEFINE r == Pieces(get_com, Blank)
  <2>1. COMMANDS["cd"] \in Text /\ COMMANDS.cd = COMMANDS["cd"]
    BY CommandNames, CommandWord
  <2>2. str_substring(get_com, 0, str_indexOf(get_com, Blank) - 1) = COMMANDS["cd"]
    BY DEF Cd, Is, Head1
  <2>3. PICK b : CutAt(b, r, get_com, Len(get_com), Blank)
    BY <1>1, PiecesAreCut
  <2> HIDE DEF r
  <2>4. Len(r) > 1 /\ r[1] = COMMANDS["cd"]
    <3> PICK w : w = COMMANDS["cd"]
      OBVIOUS
    <3>1. w \in Text /\ str_substring(get_com, 0, str_indexOf(get_com, Blank) - 1) = w
      BY <2>1, <2>2
    <3> QED BY <1>1, <2>3, <3>1, FirstWord
  <2> QED BY <1>1, <2>1, <2>4, WordsRead DEF r
<1>3. q \in Lists /\ Len(q) \in Nat /\ Len(q) > 0 /\ q[1] # <<>> /\ q[1] = RootName /\ Head(q) = q[1]
  <2>1. PICK b : CutAt(b, q, cur_path, Len(cur_path), "/")
    BY <1>1, PiecesAreCut
  <2> HIDE DEF q
  <2>2. q \in Lists /\ Len(q) \in Nat \ {0}
    BY <1>1, <2>1, CutFacts
  <2>3. Head(q) = q[1]
    BY <2>2, HeadIs
  <2>4. Head(q) = RootName
    BY <1>1 DEF PathInv, q
  <2> QED BY <2>2, <2>3, <2>4, RootNamed
<1>4. Names(cur_path) = Tail(q)
  BY DEF Names
<1>5. arg \in Text
  <2>1. 3 \in Nat
    OBVIOUS
  <2> QED BY <1>1, <2>1, FromType
<1>6. \/ arg = dots /\ cur_path' = Parent(cur_path)
      \/ arg = Slash /\ cur_path' = Drive(cur_path)
      \/ arg \notin {dots, Slash} /\ cur_path' = (cur_path \o Slash) \o arg
  BY DEF Cd
<1>7. dots # Slash
  BY DEF Slash
<1> PICK new : new = cur_path'
  OBVIOUS
<1> DEFINE Leads == \/ Tail(q) = <<>> /\ arg = dots /\ new = NULL
                    \/ /\ new # NULL
                       /\ Head(Pieces(new, "/")) = RootName
                       /\ Tail(Pieces(new, "/")) = IF arg = dots THEN Front(Tail(q))
                                                   ELSE IF arg = Slash THEN <<>>
                                                   ELSE Tail(q) \o Pieces(arg, "/")
<1>8. ASSUME arg = dots, cur_path' = Parent(cur_path) PROVE Leads
  <2> HIDE DEF q
  <2>1. /\ Len(q) = 1 => new = NULL
        /\ Len(q) > 1 => new \in Text /\ Pieces(new, "/") = Front(q)
    BY <1>1, <1>3, <1>8, ParentLeads DEF q
  <2>2. CASE Len(q) = 1
    <3>1. Tail(q) = <<>>
      <4>1. q \in Seq(Text) /\ q # <<>>
        BY <1>3 DEF Lists
      <4>2. Tail(q) \in Seq(Text) /\ Len(Tail(q)) = Len(q) - 1
        BY <4>1, HeadTailProperties
      <4>3. Len(Tail(q)) = 0
        BY <2>2, <4>2
      <4> QED BY <4>2, <4>3, EmptySeq
    <3> QED BY <1>8, <2>1, <2>2, <3>1
  <2>3. CASE Len(q) > 1
    <3>1. Front(q)[1] = q[1] /\ Tail(Front(q)) = Front(Tail(q))
      BY <1>3, <2>3, TailOfFront
    <3>2. Front(q) \in Lists /\ Len(Front(q)) > 0
      <4>1. Front(q) = Pieces(new, "/") /\ new \in Text
        BY <2>1, <2>3
      <4>2. PICK b : CutAt(b, Front(q), new, Len(new), "/")
        BY <4>1, PiecesAreCut
      <4> QED BY <4>2 DEF CutAt
    <3>3. Head(Front(q)) = RootName
      BY <1>3, <3>1, <3>2, HeadIs
    <3> QED BY <1>8, <2>1, <2>3, <3>1, <3>3, RootText
  <2>4. Len(q) = 1 \/ Len(q) > 1
    <3>1. \A n \in Nat : n > 0 => n = 1 \/ n > 1
      OBVIOUS
    <3> QED BY <1>3, <3>1
  <2> HIDE DEF Leads
  <2> QED BY <2>2, <2>3, <2>4
<1>9. ASSUME arg = Slash, cur_path' = Drive(cur_path) PROVE Leads
  <2> HIDE DEF q
  <2>1. new \in Text /\ Pieces(new, "/") = <<q[1]>>
    BY <1>1, <1>3, <1>9, DriveLeads DEF q
  <2>2. Head(<<q[1]>>) = q[1] /\ Tail(<<q[1]>>) = <<>>
    OBVIOUS
  <2>3. new # NULL /\ Head(Pieces(new, "/")) = RootName /\ Tail(Pieces(new, "/")) = <<>>
    BY <1>3, <2>1, <2>2, RootText
  <2>4. arg = Slash /\ arg # dots
    BY <1>7, <1>9
  <2> HIDE DEF arg, dots
  <2> QED BY <2>3, <2>4
<1>10. ASSUME arg \notin {dots, Slash}, cur_path' = (cur_path \o Slash) \o arg PROVE Leads
  <2> DEFINE r == Pieces(arg, "/")
  <2>1. new \in Text
    BY <1>1, <1>5, <1>10, JoinText
  <2>2. Pieces(new, "/") = q \o r
    <3>1. "/" \in Characters /\ Slash = <<"/">>
      BY CharactersAssumption DEF Slash
    <3> HIDE DEF arg
    <3>2. Pieces((cur_path \o <<"/">>) \o arg, "/") = Pieces(cur_path, "/") \o Pieces(arg, "/")
      BY <1>1, <1>5, <3>1, JoinPieces
    <3> QED BY <1>10, <3>1, <3>2
  <2>3. r \in Lists
    <3>1. PICK b : CutAt(b, r, arg, Len(arg), "/")
      BY <1>5, PiecesAreCut
    <3> QED BY <3>1 DEF CutAt
  <2> HIDE DEF q, r, arg
  <2>4. (q \o r)[1] = q[1] /\ Tail(q \o r) = Tail(q) \o r
    BY <1>3, <2>3, TailOfConcat
  <2>5. Head(q \o r) = q[1]
    <3>1. q \o r \in Lists /\ Len(q \o r) > 0
      <4>1. PICK b : CutAt(b, q \o r, new, Len(new), "/")
        BY <2>1, <2>2, PiecesAreCut
      <4> QED BY <4>1 DEF CutAt
    <3> QED BY <2>4, <3>1, HeadIs
  <2>6. arg # dots /\ arg # Slash
    BY <1>10
  <2> QED BY <1>3, <2>1, <2>2, <2>4, <2>5, <2>6, RootText DEF r
<1>11. Leads
  BY <1>6, <1>8, <1>9, <1>10
<1>12. PathInv'
  <2>1. new # NULL => Head(Pieces(new, "/")) = RootName
    BY <1>11
  <2> HIDE DEF Leads
  <2> QED BY <2>1 DEF PathInv
<1> QED BY <1>2, <1>4, <1>11, <1>12 DEF Names, RootName

\* Between two starts of the process nothing but cd moves.
LEMMA OnlyCdMoves ==
  ASSUME [Next]_vars
  PROVE  /\ Cd \/ cur_path' \in {cur_path, ROOT_PATH}
         /\ pc # "down" /\ pc' # "down" => Cd \/ cur_path' = cur_path
<1>1. CASE Start
  BY <1>1 DEF Start
<1>2. CASE Kill \/ PromptNull
  BY <1>2 DEF Kill, PromptNull, Ends
<1>3. CASE (\E line \in Lines : ReadLine(line)) \/ FormatChar \/ FormatEnd \/ Again
  BY <1>3 DEF ReadLine, FormatChar, FormatEnd, Again
<1>4. CASE Unknown \/ Ls \/ OnePath \/ TwoPaths \/ CatFile \/ CatFiles \/ CatOther
  <2>1. AsksNothing \/ Ends \/ \E name \in DOMAIN COMMANDS : \E paths : Asks(name, paths, TRUE)
    BY <1>4, CommandCalls
  <2> QED BY <2>1 DEF AsksNothing, Ends, Asks
<1>5. CASE UNCHANGED vars
  BY <1>5 DEF vars
<1> QED BY <1>1, <1>2, <1>3, <1>4, <1>5 DEF Next

LEMMA PathInit == Init => PathInv
  BY DEF Init, PathInv, RootName

LEMMA PathStep == TypeInv /\ FormatInv /\ PathInv /\ [Next]_vars => PathInv'
<1> SUFFICES ASSUME TypeInv, FormatInv, PathInv, [Next]_vars PROVE PathInv'
  OBVIOUS
<1>1. CASE cur_path' \in {cur_path, ROOT_PATH}
  BY <1>1 DEF PathInv, RootName
<1>2. CASE Cd
  BY <1>2, CdLeads
<1>3. Cd \/ cur_path' \in {cur_path, ROOT_PATH}
  BY OnlyCdMoves
<1> QED BY <1>1, <1>2, <1>3

\* cur_path is the names from the drive down, whatever string of commands led
\* there: cd appends the names typed, cd .. drops the last one (or leaves NULL of
\* a drive), cd / drops all of them, and nothing else moves, however long the path.
THEOREM CdMovesAsTold == Spec => CdMoves
<1> DEFINE Inv == TypeInv /\ FormatInv /\ PathInv
<1>1. Init => Inv
  BY TypeInit, FormatInit, PathInit
<1>2. Inv /\ [Next]_vars => Inv'
  BY TypeStep, FormatStep, PathStep
<1>3. Inv /\ [Next]_vars =>
        [pc # "down" /\ pc' # "down" /\ cur_path' # cur_path =>
       LET arg == From(get_com, 3)
           here == Names(cur_path)
       IN /\ WordsOf(typed)[1] = COMMANDS.cd
          /\ \/ here = <<>> /\ arg = <<".", ".">> /\ cur_path' = NULL
             \/ /\ cur_path' # NULL
                /\ Head(Pieces(cur_path', "/")) = Head(Pieces(ROOT_PATH, "/"))
                /\ Names(cur_path') =
                     IF arg = <<".", ".">> THEN Front(here)
                     ELSE IF arg = Slash THEN <<>>
                     ELSE here \o Pieces(arg, "/")]_vars
  <2> SUFFICES ASSUME Inv, [Next]_vars, pc # "down", pc' # "down", cur_path' # cur_path
               PROVE  LET arg == From(get_com, 3)
                          here == Names(cur_path)
                      IN /\ WordsOf(typed)[1] = COMMANDS.cd
                         /\ \/ here = <<>> /\ arg = <<".", ".">> /\ cur_path' = NULL
                            \/ /\ cur_path' # NULL
                               /\ Head(Pieces(cur_path', "/")) = Head(Pieces(ROOT_PATH, "/"))
                               /\ Names(cur_path') =
                                    IF arg = <<".", ".">> THEN Front(here)
                                    ELSE IF arg = Slash THEN <<>>
                                    ELSE here \o Pieces(arg, "/")
    BY Zenon
  <2>1. Cd
    BY OnlyCdMoves
  <2> QED BY <2>1, CdLeads
<1> QED BY <1>1, <1>2, <1>3, PTL DEF Spec, CdMoves

-----------------------------------------------------------------------------
(* What the commands find in the line.                                     *)

\* The words of a line have characters.
LEMMA WordsNotEmpty ==
  ASSUME NEW s \in Text
  PROVE  \A k \in 1 .. Len(WordsOf(s)) : WordsOf(s)[k] # <<>>
<1> DEFINE w == WordsUpTo(s)
           n == Len(s)
           e == <<>>
           S == {q \in Lists : \A k \in 1 .. Len(q) : q[k] # e}
<1>1. /\ n \in Nat /\ w[0] = <<>> /\ w[0] \in Lists /\ Len(w[0]) = 0
      /\ \A i \in 1 .. n : w[i] = WordStep(w[i - 1], s, i)
  BY TextFacts, WordsUpToIs, EmptySeq DEF WordsBy, Lists
<1> HIDE DEF w
<1>2. w[0] \in S
  BY <1>1
<1>3. \A i \in 1 .. n : w[i - 1] \in S => w[i] \in S
  <2> SUFFICES ASSUME NEW i \in 1 .. n, w[i - 1] \in S PROVE w[i] \in S
    OBVIOUS
  <2> PICK q : q = w[i - 1]
    OBVIOUS
  <2> DEFINE l == Len(q)
             x == s[i]
             o == <<x>>
             u == Append(q, o)
             v == Extended(q, x)
  <2>1. q \in Lists /\ l \in Nat /\ \A k \in 1 .. l : q[k] # e /\ q[k] \in Text
    <3>1. q \in Lists /\ \A k \in 1 .. l : q[k] # e
      OBVIOUS
    <3> QED BY <3>1, LenProperties, ElementOfSeq DEF Lists
  <2>2. x \in Characters /\ o \in Text /\ o # e
    BY TextFacts, OneChar, NothingTyped
  <2> HIDE DEF l, x, o, e
  <2>3. u \in S
    <3>1. u \in Lists /\ Len(u) = l + 1 /\ u[l + 1] = o /\ \A k \in 1 .. l : u[k] = q[k]
      BY <2>1, <2>2, AppendProperties DEF Lists, l
    <3>2. \A k \in 1 .. l + 1 : k \in 1 .. l \/ k = l + 1
      BY <2>1
    <3> HIDE DEF u
    <3>3. \A k \in 1 .. Len(u) : u[k] # e
      BY <2>1, <2>2, <3>1, <3>2
    <3> QED BY <3>1, <3>3
  <2>4. v \in S
    <3>1. v \in Lists /\ Len(v) = l /\ \A k \in 1 .. l : v[k] = IF k = l THEN Append(q[k], x) ELSE q[k]
      BY <2>1, <2>2, ExtendedType DEF l
    <3>2. \A k \in 1 .. l : Append(q[k], x) # e
      <4>1. \A y \in Text, c \in Characters : Append(y, c) # e
        BY AppendProperties DEF Text, e
      <4> QED BY <2>1, <2>2, <4>1
    <3> HIDE DEF v
    <3>3. \A k \in 1 .. Len(v) : v[k] # e
      BY <2>1, <3>1, <3>2
    <3> QED BY <3>1, <3>3
  <2>5. w[i] \in {q, u, v}
    BY <1>1 DEF WordStep, x, o
  <2> QED BY <2>3, <2>4, <2>5
<1> HIDE DEF S
<1>4. \A i \in 0 .. n : w[i] \in S
  BY <1>1, <1>2, <1>3, StaysIn
<1>5. WordsOf(s) = w[n] /\ n \in 0 .. n
  BY <1>1 DEF WordsOf, w
<1> QED BY <1>4, <1>5 DEF S

\* From one cut to before the next is a piece.
LEMMA Span ==
  ASSUME NEW s \in Text, NEW c, NEW b, NEW q, CutAt(b, q, s, Len(s), c), NEW k \in 1 .. Len(q)
  PROVE  /\ q[k] = SubSeq(s, b[k - 1] + 1, (b[k] - 2) + 1)
         /\ q[k] # <<>> => ~ (b[k - 1] < 0 \/ b[k] - 2 > Len(s) - 1 \/ b[k - 1] > b[k] - 2)
<1>1. Len(s) \in Nat /\ b[k] \in 0 .. Len(s) + 1
  <2>1. Len(q) \in Nat
    BY CutFacts
  <2>2. k \in 0 .. Len(q)
    BY <2>1
  <2> QED BY <2>1, <2>2, CutFacts
<1>2. /\ q[k] = SubSeq(s, b[k - 1] + 1, b[k] - 1) /\ q[k] \in Text
      /\ b[k - 1] \in 0 .. Len(s) /\ Len(q[k]) = b[k] - b[k - 1] - 1
  BY CutFacts
<1>3. (b[k] - 2) + 1 = b[k] - 1
  BY <1>1
<1>4. q[k] # <<>> => Len(q[k]) # 0 /\ Len(q[k]) \in Nat
  BY <1>2, EmptySeq, LenProperties DEF Text
<1> PICK x : x = b[k - 1]
  OBVIOUS
<1> PICK y : y = b[k]
  OBVIOUS
<1> PICK m : m = Len(q[k])
  OBVIOUS
<1>5. x \in 0 .. Len(s) /\ y \in 0 .. Len(s) + 1 /\ m = y - x - 1
  BY <1>1, <1>2
<1>6. m # 0 /\ m \in Nat => ~ (x < 0 \/ y - 2 > Len(s) - 1 \/ x > y - 2)
  <2>1. \A l \in Nat : \A i \in 0 .. l, j \in 0 .. l + 1 :
          j - i - 1 # 0 /\ j - i - 1 \in Nat => ~ (i < 0 \/ j - 2 > l - 1 \/ i > j - 2)
    OBVIOUS
  <2> QED BY <1>1, <1>5, <2>1
<1>7. q[k] = SubSeq(s, b[k - 1] + 1, (b[k] - 2) + 1)
  BY <1>2, <1>3
<1>8. q[k] # <<>> => ~ (b[k - 1] < 0 \/ b[k] - 2 > Len(s) - 1 \/ b[k - 1] > b[k] - 2)
  BY <1>4, <1>6
<1> QED BY <1>7, <1>8

LEMMA SubstringIs ==
  ASSUME NEW s \in Text, NEW c, NEW b, NEW q, CutAt(b, q, s, Len(s), c), NEW k \in 1 .. Len(q),
         NEW i, i = b[k - 1], NEW j, j = b[k] - 2
  PROVE  /\ str_substring(s, i, j) # NULL => str_substring(s, i, j) = q[k]
         /\ q[k] # <<>> => str_substring(s, i, j) = q[k]
<1>1. /\ q[k] = SubSeq(s, i + 1, j + 1)
      /\ q[k] # <<>> => ~ (i < 0 \/ j > Len(s) - 1 \/ i > j)
  BY Span
<1> QED BY <1>1 DEF str_substring

LEMMA FromIs ==
  ASSUME NEW s \in Text, NEW c, NEW b, NEW q, CutAt(b, q, s, Len(s), c), NEW i, i = b[Len(q) - 1]
  PROVE  From(s, i) = q[Len(q)]
<1> DEFINE k == Len(q)
<1>1. k \in 1 .. Len(q) /\ b[k] = Len(s) + 1 /\ Len(s) \in Nat
  <2>1. Len(q) \in Nat \ {0}
    BY CutFacts
  <2> QED BY <2>1, CutFacts
<1>2. b[k] - 1 = Len(s)
  BY <1>1
<1>3. i = b[k - 1]
  OBVIOUS
<1> HIDE DEF k
<1>4. q[k] = SubSeq(s, b[k - 1] + 1, b[k] - 1)
  BY <1>1, CutFacts
<1>5. From(s, i) = SubSeq(s, i + 1, Len(s))
  BY DEF From
<1>6. From(s, i) = q[k]
  BY <1>2, <1>3, <1>4, <1>5
<1> QED BY <1>6 DEF k

LEMMA FileName ==
  ASSUME NEW s \in Text
  PROVE  get_fn_from_path(s) \in Text /\ get_fn_from_path(s) = Last(Pieces(s, "/"))
<1> DEFINE q == Pieces(s, "/")
           n == Len(q)
           k == n - 1
<1>1. PICK b : CutAt(b, q, s, Len(s), "/")
  BY PiecesAreCut
<1> HIDE DEF q
<1>2. q \in Lists /\ n \in Nat \ {0} /\ n \in 1 .. n
  <2>1. q \in Lists /\ n \in Nat \ {0}
    BY <1>1, CutFacts
  <2> QED BY <2>1
<1>3. q[n] \in Text /\ b[k] \in 0 .. Len(s) /\ Len(s) \in Nat
  BY <1>1, <1>2, CutFacts
<1>4. str_lastIndexOf(s, "/") = b[k] - 1
  BY <1>1, FindsLast
<1>5. str_lastIndexOf(s, "/") + 1 = b[k]
  BY <1>3, <1>4
<1>6. From(s, b[k]) = q[n]
  BY <1>1, FromIs
<1>7. Last(q) = q[n]
  BY DEF Last
<1> QED BY <1>3, <1>5, <1>6, <1>7 DEF get_fn_from_path, q

\* A path is full when it names a drive.
LEMMA FullIs ==
  ASSUME NEW s \in Text, cur_path \in Text
  PROVE  Full(s) = Resolved(s) /\ Full(s) \in Text
<1> DEFINE found == Positions(s, ":", 0)
<1>0. Len(s) \in Nat /\ s # NULL /\ DOMAIN s = 1 .. Len(s)
  BY TextFacts, RootText, LenProperties DEF Text
<1>1. found \subseteq Nat
  BY <1>0 DEF Positions
<1>2. found # {} <=> ":" \in ToSet(s)
  <2>1. ASSUME NEW i \in found PROVE ":" \in ToSet(s)
    <3>1. i + 1 \in 1 .. Len(s) /\ s[i + 1] = ":"
      BY <1>0 DEF Positions
    <3> QED BY <1>0, <3>1 DEF ToSet
  <2>2. ASSUME ":" \in ToSet(s) PROVE found # {}
    <3>1. PICK i \in 1 .. Len(s) : s[i] = ":"
      BY <1>0, <2>2 DEF ToSet
    <3>2. i - 1 \in 0 .. Len(s) - 1 /\ i - 1 >= 0 /\ (i - 1) + 1 = i
      BY <1>0
    <3>3. i - 1 \in found
      BY <3>1, <3>2 DEF Positions
    <3> QED BY <3>3
  <2> QED BY <2>1, <2>2
<1>3. str_full_path(s) <=> found # {}
  <2>1. str_indexOf(s, ":") = IF found = {} THEN -1 ELSE Min(found)
    BY <1>0 DEF str_indexOf, str_indexOf_start
  <2>2. found # {} => Min(found) \in Nat
    <3> SUFFICES ASSUME found # {} PROVE Min(found) \in Nat
      OBVIOUS
    <3> HIDE DEF found
    <3>1. PICK x \in found : \A y \in found : x <= y
      BY <1>1, Least
    <3>2. Min(found) = x
      <4>1. found \subseteq Int
        BY <1>1
      <4> QED BY <3>1, <4>1, MinIs
    <3> QED BY <1>1, <3>2
  <2> HIDE DEF found
  <2> QED BY <2>1, <2>2 DEF str_full_path
<1>4. Full(s) = Resolved(s)
  BY <1>2, <1>3 DEF Full, Resolved
<1> QED BY <1>4, JoinText DEF Resolved

\* get_com is the words q of the line typed, cut at b, the first a command's name.
ReadAs(b, q, name) ==
  /\ CutAt(b, q, get_com, Len(get_com), Blank) /\ Len(q) > 1
  /\ q[1] = COMMANDS[name] /\ str_indexOf(get_com, Blank) = b[1] - 1
  /\ \A k \in 1 .. Len(q) : q[k] # <<>>

LEMMA LineRead ==
  ASSUME TypeInv, FormatInv, pc = "run", Last(typed) # Blank, NEW name \in DOMAIN COMMANDS, Head1 = COMMANDS[name]
  PROVE  \E b : ReadAs(b, WordsOf(typed), name)
<1> DEFINE q == Pieces(get_com, Blank)
<1>1. typed \in Text /\ get_com \in Text
  BY DEF TypeInv, TypeOK, Text
<1>2. PICK b : CutAt(b, q, get_com, Len(get_com), Blank)
  BY <1>1, PiecesAreCut
<1>3. Len(q) > 1 /\ q[1] = COMMANDS[name] /\ str_indexOf(get_com, Blank) = b[1] - 1
  <2> HIDE DEF q
  <2> PICK w : w = COMMANDS[name]
    OBVIOUS
  <2>1. w \in Text /\ str_substring(get_com, 0, str_indexOf(get_com, Blank) - 1) = w
    BY CommandWord DEF Head1
  <2> QED BY <1>1, <1>2, <2>1, FirstWord
<1>4. WordsOf(typed) = q
  BY <1>3, WordsRead
<1>5. \A k \in 1 .. Len(q) : q[k] # <<>>
  BY <1>1, <1>4, WordsNotEmpty
<1> HIDE DEF q
<1> QED BY <1>2, <1>3, <1>4, <1>5 DEF ReadAs

\* What the searches and the substrings give for a line of the words q.
Parsed(b, q) ==
  /\ Len(q) \in Nat /\ Len(q) > 1 /\ b[Len(q)] = Len(get_com) + 1 /\ Len(get_com) \in Nat
  /\ str_indexOf(get_com, Blank) = b[1] - 1
  /\ From(get_com, b[Len(q) - 1]) = q[Len(q)]
  /\ \A k \in 1 .. Len(q) :
       /\ b[k] \in Int /\ q[k] \in Text
       /\ str_substring(get_com, b[k - 1], b[k] - 2) = q[k]
       /\ k < Len(q) => str_indexOf_start(get_com, Blank, b[k - 1]) = b[k] - 1 /\ b[k] - 1 \in Positions(get_com, Blank, 0)

LEMMA IsParsed ==
  ASSUME get_com \in Text, NEW b, NEW q, NEW name, ReadAs(b, q, name)
  PROVE  Parsed(b, q)
<1>1. CutAt(b, q, get_com, Len(get_com), Blank) /\ Len(q) > 1 /\ str_indexOf(get_com, Blank) = b[1] - 1
      /\ \A k \in 1 .. Len(q) : q[k] # <<>>
  BY DEF ReadAs
<1>2. Len(q) \in Nat /\ b[Len(q)] = Len(get_com) + 1 /\ Len(get_com) \in Nat
      /\ \A k \in 0 .. Len(q) : b[k] \in 0 .. Len(get_com) + 1
  BY <1>1, CutFacts
<1>3. From(get_com, b[Len(q) - 1]) = q[Len(q)]
  BY <1>1, FromIs
<1>4. ASSUME NEW k \in 1 .. Len(q)
      PROVE  /\ b[k] \in Int /\ q[k] \in Text
             /\ str_substring(get_com, b[k - 1], b[k] - 2) = q[k]
             /\ k < Len(q) => str_indexOf_start(get_com, Blank, b[k - 1]) = b[k] - 1
                              /\ b[k] - 1 \in Positions(get_com, Blank, 0)
  <2>1. k \in 0 .. Len(q)
    BY <1>2
  <2>2. b[k] \in Int
    BY <1>2, <2>1
  <2>3. q[k] \in Text /\ (k < Len(q) => get_com[b[k]] = Blank /\ b[k] \in 1 .. Len(get_com))
    BY <1>1, CutFacts
  <2>4. str_substring(get_com, b[k - 1], b[k] - 2) = q[k]
    BY <1>1, SubstringIs
  <2>5. k < Len(q) => str_indexOf_start(get_com, Blank, b[k - 1]) = b[k] - 1
    BY <1>1, FindsNext
  <2>6. k < Len(q) => b[k] - 1 \in Positions(get_com, Blank, 0)
    <3> SUFFICES ASSUME k < Len(q) PROVE b[k] - 1 \in Positions(get_com, Blank, 0)
      OBVIOUS
    <3>1. b[k] - 1 \in 0 .. Len(get_com) - 1 /\ b[k] - 1 >= 0 /\ (b[k] - 1) + 1 = b[k]
      BY <1>2, <2>2, <2>3
    <3> QED BY <2>3, <3>1 DEF Positions
  <2> QED BY <2>2, <2>3, <2>4, <2>5, <2>6
<1> QED BY <1>1, <1>2, <1>3, <1>4 DEF Parsed

\* rm, mkdir, rmdir and find.
LEMMA OnePathIs ==
  ASSUME get_com \in Text, cur_path \in Text, NEW b, NEW q, Parsed(b, q), Len(q) = 2
  PROVE  two_init_path = Resolved(q[2])
<1>1. /\ b[1] \in Int /\ str_indexOf(get_com, Blank) = b[1] - 1 /\ From(get_com, b[1]) = q[2] /\ q[2] \in Text
  <2>1. 1 \in 1 .. Len(q) /\ 2 \in 1 .. Len(q) /\ Len(q) - 1 = 1
    OBVIOUS
  <2> QED BY <2>1 DEF Parsed
<1>2. str_indexOf(get_com, Blank) + 1 = b[1]
  BY <1>1
<1> QED BY <1>1, <1>2, FullIs DEF two_init_path

\* cp and mv.
LEMMA TwoPathsAre ==
  ASSUME get_com \in Text, cur_path \in Text, NEW b, NEW q, Parsed(b, q), Len(q) = 3
  PROVE  /\ Full(Second) = Resolved(q[2])
         /\ Target(Full(Second)) = Resolved(InTarget(q[3], Resolved(q[2])))
<1>1. 1 \in 1 .. Len(q) /\ 2 \in 1 .. Len(q) /\ 3 \in 1 .. Len(q) /\ 2 - 1 = 1 /\ 3 - 1 = 2
      /\ 1 < Len(q) /\ 2 < Len(q)
  OBVIOUS
<1>2. /\ b[1] \in Int /\ b[2] \in Int /\ b[3] \in Int /\ q[2] \in Text /\ q[3] \in Text
      /\ str_indexOf(get_com, Blank) = b[1] - 1
      /\ str_indexOf_start(get_com, Blank, b[1]) = b[2] - 1
      /\ str_substring(get_com, b[1], b[2] - 2) = q[2]
      /\ str_substring(get_com, b[2], b[3] - 2) = q[3]
      /\ b[3] = Len(get_com) + 1 /\ Len(get_com) \in Nat
  BY <1>1 DEF Parsed
<1>3. (b[1] - 1) + 1 = b[1] /\ (b[2] - 1) - 1 = b[2] - 2 /\ (b[2] - 1) + 1 = b[2] /\ Len(get_com) - 1 = b[3] - 2
  <2>1. \A i \in Int : (i - 1) + 1 = i /\ (i - 1) - 1 = i - 2 /\ i - 1 = (i + 1) - 2
    OBVIOUS
  <2>2. b[1] \in Int /\ b[2] \in Int
    BY <1>2
  <2>3. (b[1] - 1) + 1 = b[1] /\ (b[2] - 1) - 1 = b[2] - 2 /\ (b[2] - 1) + 1 = b[2]
    BY <2>1, <2>2
  <2>4. b[3] = Len(get_com) + 1 /\ Len(get_com) \in Int
    BY <1>2
  <2>5. Len(get_com) - 1 = b[3] - 2
    BY <2>1, <2>4
  <2> QED BY <2>3, <2>5
<1>4. Second = q[2] /\ Third = q[3]
  <2>1. Second = str_substring(get_com, (b[1] - 1) + 1, str_indexOf_start(get_com, Blank, (b[1] - 1) + 1) - 1)
    BY <1>2 DEF Second
  <2>2. Third = str_substring(get_com, str_indexOf_start(get_com, Blank, (b[1] - 1) + 1) + 1, Len(get_com) - 1)
    BY <1>2 DEF Third
  <2>3. Second = str_substring(get_com, b[1], (b[2] - 1) - 1)
    BY <1>2, <1>3, <2>1
  <2>4. Third = str_substring(get_com, (b[2] - 1) + 1, Len(get_com) - 1)
    BY <1>2, <1>3, <2>2
  <2> QED BY <1>2, <1>3, <2>3, <2>4
<1>5. Full(Second) = Resolved(q[2]) /\ Full(Second) \in Text
  BY <1>2, <1>4, FullIs
<1> PICK src : src = Full(Second)
  OBVIOUS
<1>6. get_fn_from_path(src) \in Text /\ get_fn_from_path(src) = Last(Pieces(src, "/"))
  BY <1>5, FileName
<1>7. Target(src) = Full(InTarget(q[3], src)) /\ InTarget(q[3], src) \in Text
  <2>1. q[3] \o get_fn_from_path(src) \in Text
    BY <1>2, <1>6, ConcatProperties DEF Text
  <2> QED BY <1>2, <1>4, <1>6, <2>1 DEF Target, InTarget
<1>8. Target(src) = Resolved(InTarget(q[3], src))
  BY <1>7, FullIs
<1> QED BY <1>5, <1>8

\* cat of three files.
CatAsks ==
  LET f1 == str_indexOf(get_com, Blank)
      f2 == str_indexOf_start(get_com, Blank, f1 + 1)
      f3 == str_indexOf_start(get_com, Blank, f2 + 1)
      f4 == str_indexOf_start(get_com, Blank, f3 + 1)
  IN <<Full(str_substring(get_com, f1 + 1, f2 - 1)),
       Full(str_substring(get_com, f2 + 1, f3 - 1)),
       Full(From(get_com, f4 + 1))>>

LEMMA CatPathsAre ==
  ASSUME get_com \in Text, cur_path \in Text, NEW b, NEW q, Parsed(b, q), Len(q) = 5
  PROVE  CatAsks = <<Resolved(q[2]), Resolved(q[3]), Resolved(q[5])>>
<1> DEFINE f1 == str_indexOf(get_com, Blank)
           f2 == str_indexOf_start(get_com, Blank, f1 + 1)
           f3 == str_indexOf_start(get_com, Blank, f2 + 1)
           f4 == str_indexOf_start(get_com, Blank, f3 + 1)
<1>1. /\ 1 \in 1 .. Len(q) /\ 2 \in 1 .. Len(q) /\ 3 \in 1 .. Len(q) /\ 4 \in 1 .. Len(q) /\ 5 \in 1 .. Len(q)
      /\ 2 - 1 = 1 /\ 3 - 1 = 2 /\ 4 - 1 = 3 /\ Len(q) - 1 = 4
      /\ 2 < Len(q) /\ 3 < Len(q) /\ 4 < Len(q)
  OBVIOUS
<1>2. /\ b[1] \in Int /\ b[2] \in Int /\ b[3] \in Int /\ b[4] \in Int
      /\ q[2] \in Text /\ q[3] \in Text /\ q[5] \in Text
      /\ f1 = b[1] - 1
      /\ str_indexOf_start(get_com, Blank, b[1]) = b[2] - 1
      /\ str_indexOf_start(get_com, Blank, b[2]) = b[3] - 1
      /\ str_indexOf_start(get_com, Blank, b[3]) = b[4] - 1
      /\ str_substring(get_com, b[1], b[2] - 2) = q[2]
      /\ str_substring(get_com, b[2], b[3] - 2) = q[3]
      /\ From(get_com, b[4]) = q[5]
  BY <1>1 DEF Parsed
<1> HIDE DEF f1
<1>3. f1 + 1 = b[1]
  BY <1>2
<1>4. f2 = b[2] - 1
  BY <1>2, <1>3
<1> HIDE DEF f2
<1>5. f2 + 1 = b[2] /\ f2 - 1 = b[2] - 2
  BY <1>2, <1>4
<1>6. f3 = b[3] - 1
  BY <1>2, <1>5
<1> HIDE DEF f3
<1>7. f3 + 1 = b[3] /\ f3 - 1 = b[3] - 2
  BY <1>2, <1>6
<1>8. f4 = b[4] - 1
  BY <1>2, <1>7
<1> HIDE DEF f4
<1>9. f4 + 1 = b[4]
  BY <1>2, <1>8
<1>10. /\ Full(str_substring(get_com, f1 + 1, f2 - 1)) = Resolved(q[2])
       /\ Full(str_substring(get_com, f2 + 1, f3 - 1)) = Resolved(q[3])
       /\ Full(From(get_com, f4 + 1)) = Resolved(q[5])
  BY <1>2, <1>3, <1>5, <1>7, <1>9, FullIs
<1> QED BY <1>10 DEF CatAsks, f1, f2, f3, f4

\* A line of five words has more than one blank.
LEMMA BlanksOfFive ==
  ASSUME get_com \in Text, NEW b, NEW q, NEW name, ReadAs(b, q, name), Len(q) = 5
  PROVE  str_constain_char(get_com, Blank) # 1
<1> DEFINE found == Positions(get_com, Blank, 0)
<1>1. Parsed(b, q)
  BY IsParsed
<1>2. 1 \in 1 .. Len(q) /\ 2 \in 1 .. Len(q) /\ 1 < Len(q) /\ 2 < Len(q) /\ 2 - 1 = 1
  OBVIOUS
<1>3. b[1] - 1 \in found /\ b[2] - 1 \in found /\ b[1] \in Int /\ b[2] \in Int /\ Len(get_com) \in Nat
  BY <1>1, <1>2 DEF Parsed
<1>4. b[1] < b[2]
  <2>1. CutAt(b, q, get_com, Len(get_com), Blank)
    BY DEF ReadAs
  <2>2. b[2 - 1] < b[2]
    BY <1>2, <2>1, CutFacts
  <2> QED BY <1>2, <2>2
<1>5. IsFiniteSet(found)
  <2>1. IsFiniteSet(0 .. Len(get_com) - 1)
    BY <1>3, FS_Interval
  <2>2. found \subseteq 0 .. Len(get_com) - 1
    BY DEF Positions
  <2> QED BY <2>1, <2>2, FS_Subset
<1> HIDE DEF found
<1>6. Cardinality(found) # 1
  <2> SUFFICES ASSUME Cardinality(found) = 1 PROVE FALSE
    OBVIOUS
  <2>1. PICK x : found = {x}
    BY <1>5, FS_Singleton
  <2>2. b[1] - 1 = b[2] - 1
    BY <1>3, <2>1
  <2> QED BY <1>3, <1>4, <2>2
<1> QED BY <1>6 DEF str_constain_char, found

-----------------------------------------------------------------------------
(* The paths the commands hand on.                                         *)

\* What PathsAsTyped says of the words of a line, and of the call made for it.
AsTyped(words, name, paths) ==
  /\ words[1] = COMMANDS[name] \/ words = <<COMMANDS.find>>
  /\ name \in {"rm", "mkdir", "rmdir", "find"} /\ Len(words) = 2 => paths = <<Resolved(words[2])>>
  /\ name \in {"cp", "mv"} /\ Len(words) = 3 =>
       paths = <<Resolved(words[2]), Resolved(InTarget(words[3], Resolved(words[2])))>>
  /\ name = "cat" /\ Len(words) = 5 =>
       paths = <<Resolved(words[2]), Resolved(words[3]), Resolved(words[5])>>

LEMMA AskedAsTyped ==
  ASSUME NEW name, NEW paths, Asks(name, paths, TRUE),
         Last(typed) # Blank => AsTyped(WordsOf(typed), name, paths)
  PROVE  PathsAsTyped'
<1>1. typed' = typed /\ cur_path' = cur_path /\ call'.name = name /\ call'.paths = paths
  BY DEF Asks, Done, lineVars
<1>2. CASE Last(typed) = Blank
  BY <1>1, <1>2 DEF PathsAsTyped
<1>3. CASE Last(typed) # Blank
  <2>1. AsTyped(WordsOf(typed), name, paths)
    BY <1>3
  <2>2. AsTyped(WordsOf(typed), name, paths)'
    <3> PICK w : w = WordsOf(typed)
      OBVIOUS
    <3>1. \A s : Resolved(s)' = Resolved(s)
      BY <1>1 DEF Resolved
    <3>2. WordsOf(typed)' = w
      BY <1>1
    <3> QED BY <2>1, <3>1, <3>2 DEF AsTyped
  <2> QED BY <1>1, <2>2 DEF PathsAsTyped, AsTyped
<1> QED BY <1>2, <1>3

LEMMA UnaskedAsTyped ==
  ASSUME call' = NoCall
  PROVE  PathsAsTyped'
  BY CommandNames DEF PathsAsTyped

\* A command other than ls is named by the first word.
LEMMA NamedByHead ==
  ASSUME NEW name, Is(name), name # "ls"
  PROVE  pc = "run" /\ Head1 = COMMANDS[name]
  BY DEF Is

LEMMA LsAsTyped ==
  ASSUME TypeInv, FormatInv, Is("ls"), Last(typed) # Blank
  PROVE  WordsOf(typed)[1] = COMMANDS["ls"] \/ WordsOf(typed) = <<COMMANDS.find>>
<1>1. pc = "run" /\ (get_com \in {COMMANDS.ls, COMMANDS.find} \/ Head1 = COMMANDS["ls"])
  BY DEF Is
<1>2. CASE Head1 = COMMANDS["ls"]
  <2>1. "ls" \in DOMAIN COMMANDS
    BY CommandNames
  <2>2. PICK b : ReadAs(b, WordsOf(typed), "ls")
    BY <1>1, <1>2, <2>1, LineRead
  <2> QED BY <2>2 DEF ReadAs
<1>3. CASE get_com \in {COMMANDS.ls, COMMANDS.find}
  <2> DEFINE w == WordsOf(typed)
  <2>1. get_com = <<"l", "s">> \/ get_com = <<"f", "i", "n", "d">>
    <3>1. COMMANDS.ls = <<"l", "s">> /\ COMMANDS.find = <<"f", "i", "n", "d">>
      BY DEF COMMANDS
    <3> QED BY <1>3, <3>1
  <2>2. get_com # <<>> /\ \A i \in 1 .. Len(get_com) : get_com[i] # Blank
    <3>1. CASE get_com = <<"l", "s">>
      <4>1. Len(get_com) = 2 /\ get_com[1] # Blank /\ get_com[2] # Blank
        BY <3>1 DEF Blank
      <4>2. \A i \in 1 .. 2 : i = 1 \/ i = 2
        OBVIOUS
      <4>3. Len(<<>>) = 0
        OBVIOUS
      <4> QED BY <4>1, <4>2, <4>3
    <3>2. CASE get_com = <<"f", "i", "n", "d">>
      <4>1. /\ Len(get_com) = 4 /\ get_com[1] # Blank /\ get_com[2] # Blank
            /\ get_com[3] # Blank /\ get_com[4] # Blank
        BY <3>2 DEF Blank
      <4>2. \A i \in 1 .. 4 : i = 1 \/ i = 2 \/ i = 3 \/ i = 4
        OBVIOUS
      <4>3. Len(<<>>) = 0
        OBVIOUS
      <4> QED BY <4>1, <4>2, <4>3
    <3> QED BY <2>1, <3>1, <3>2
  <2>3. get_com \in Text
    BY DEF TypeInv, TypeOK, Text
  <2>4. Pieces(get_com, Blank) = <<get_com>>
    BY <2>2, <2>3, Uncut
  <2>5. Kept(w, get_com, typed, t) /\ Last(typed) = typed[t]
    BY <1>1 DEF FormatInv, TypeInv, WordsOf, Last
  <2> HIDE DEF w
  <2>7. w = <<get_com>>
    BY <2>2, <2>4, <2>5 DEF Kept
  <2>8. w[1] = get_com
    BY <2>7
  <2>9. COMMANDS["ls"] = COMMANDS.ls
    OBVIOUS
  <2> QED BY <1>3, <2>7, <2>8, <2>9 DEF w
<1> QED BY <1>1, <1>2, <1>3

LEMMA CommandsAsTyped ==
  ASSUME TypeInv, FormatInv, Unknown \/ Ls \/ OnePath \/ TwoPaths \/ CatFile \/ CatFiles \/ CatOther
  PROVE  PathsAsTyped'
<1> DEFINE w == WordsOf(typed)
<1>1. pc = "run" /\ get_com \in Text /\ cur_path \in Text /\ call = NoCall
  <2>1. pc = "run"
    BY CommandCalls
  <2> QED BY <2>1 DEF TypeInv, TypeOK, Text
<1>2. CASE AsksNothing
  BY <1>1, <1>2, UnaskedAsTyped DEF AsksNothing
<1>3. CASE Ends
  BY <1>3, UnaskedAsTyped DEF Ends, NoLine
<1>4. CASE Ls
  <2>1. Is("ls") /\ Asks("ls", <<cur_path>>, TRUE)
    BY <1>4 DEF Ls
  <2>2. Last(typed) # Blank => AsTyped(w, "ls", <<cur_path>>)
    BY <2>1, LsAsTyped DEF AsTyped
  <2> PICK name : name = "ls"
    OBVIOUS
  <2> PICK paths : paths = <<cur_path>>
    OBVIOUS
  <2>3. Asks(name, paths, TRUE) /\ (Last(typed) # Blank => AsTyped(w, name, paths))
    BY <2>1, <2>2
  <2> QED BY <2>3, AskedAsTyped
<1>5. ASSUME NEW name \in {"rm", "mkdir", "rmdir", "find"}, Is(name), Asks(name, <<two_init_path>>, TRUE)
      PROVE  PathsAsTyped'
  <2>1. name \in DOMAIN COMMANDS /\ name # "ls" /\ name \notin {"cp", "mv"} /\ name # "cat"
    BY CommandNames
  <2>2. pc = "run" /\ Head1 = COMMANDS[name]
    BY <1>5, <2>1, NamedByHead
  <2> PICK paths : paths = <<two_init_path>>
    OBVIOUS
  <2>3. ASSUME Last(typed) # Blank PROVE AsTyped(w, name, paths)
    <3>1. PICK b : ReadAs(b, w, name)
      BY <2>1, <2>2, <2>3, LineRead
    <3> HIDE DEF w
    <3>2. Parsed(b, w)
      BY <1>1, <3>1, IsParsed
    <3>3. Len(w) = 2 => two_init_path = Resolved(w[2])
      BY <1>1, <3>2, OnePathIs
    <3> QED BY <2>1, <3>1, <3>3 DEF AsTyped, ReadAs
  <2> QED BY <1>5, <2>3, AskedAsTyped
<1>6. ASSUME NEW name \in {"cp", "mv"}, Is(name), NEW paths,
             paths = <<Full(Second), Target(Full(Second))>>, Asks(name, paths, TRUE)
      PROVE  PathsAsTyped'
  <2>1. name \in DOMAIN COMMANDS /\ name # "ls" /\ name # "cat" /\ name \notin {"rm", "mkdir", "rmdir", "find"}
    BY CommandNames
  <2>2. pc = "run" /\ Head1 = COMMANDS[name]
    BY <1>6, <2>1, NamedByHead
  <2>3. ASSUME Last(typed) # Blank PROVE AsTyped(w, name, paths)
    <3>1. PICK b : ReadAs(b, w, name)
      BY <2>1, <2>2, <2>3, LineRead
    <3> HIDE DEF w
    <3>2. Parsed(b, w)
      BY <1>1, <3>1, IsParsed
    <3>3. Len(w) = 3 => /\ Full(Second) = Resolved(w[2])
                        /\ Target(Full(Second)) = Resolved(InTarget(w[3], Resolved(w[2])))
      BY <1>1, <3>2, TwoPathsAre
    <3> QED BY <1>6, <2>1, <3>1, <3>3 DEF AsTyped, ReadAs
  <2> QED BY <1>6, <2>3, AskedAsTyped
<1>7. ASSUME NEW paths, Asks("cat", paths, TRUE), Is("cat"),
             str_constain_char(get_com, Blank) = 1 \/ paths = CatAsks
      PROVE  PathsAsTyped'
  <2> PICK name : name = "cat"
    OBVIOUS
  <2>1. name \in DOMAIN COMMANDS /\ name # "ls" /\ name \notin {"cp", "mv", "rm", "mkdir", "rmdir", "find"}
    BY CommandNames
  <2>2. pc = "run" /\ Head1 = COMMANDS[name]
    BY <1>7, <2>1, NamedByHead
  <2>3. ASSUME Last(typed) # Blank PROVE AsTyped(w, name, paths)
    <3>1. PICK b : ReadAs(b, w, name)
      BY <2>1, <2>2, <2>3, LineRead
    <3> HIDE DEF w
    <3>2. Parsed(b, w)
      BY <1>1, <3>1, IsParsed
    <3>3. Len(w) = 5 => CatAsks = <<Resolved(w[2]), Resolved(w[3]), Resolved(w[5])>>
      BY <1>1, <3>2, CatPathsAre
    <3>4. Len(w) = 5 => str_constain_char(get_com, Blank) # 1
      BY <1>1, <3>1, BlanksOfFive
    <3> QED BY <1>7, <2>1, <3>1, <3>3, <3>4 DEF AsTyped, ReadAs
  <2>4. Asks(name, paths, TRUE)
    BY <1>7
  <2> QED BY <2>3, <2>4, AskedAsTyped
<1>8. CASE OnePath
  <2>1. AsksNothing \/ \E name \in {"rm", "mkdir", "rmdir", "find"} : Is(name) /\ Asks(name, <<two_init_path>>, TRUE)
    BY <1>8 DEF OnePath
  <2> QED BY <1>2, <1>5, <2>1
<1>9. CASE TwoPaths
  <2>1. AsksNothing \/ Ends
        \/ \E name \in {"cp", "mv"} : Is(name) /\ Asks(name, <<Full(Second), Target(Full(Second))>>, TRUE)
    BY <1>9 DEF TwoPaths
  <2> QED BY <1>2, <1>3, <1>6, <2>1
<1>10. CASE CatFile
  <2>1. Is("cat") /\ str_constain_char(get_com, Blank) = 1 /\ \E paths : Asks("cat", paths, TRUE)
    BY <1>10 DEF CatFile
  <2> QED BY <1>7, <2>1
<1>11. CASE CatFiles
  <2>1. Is("cat") /\ (AsksNothing \/ Asks("cat", CatAsks, TRUE))
    BY <1>11 DEF CatFiles, CatAsks
  <2> QED BY <1>2, <1>7, <2>1
<1>12. CASE Unknown \/ CatOther
  BY <1>2, <1>12 DEF Unknown, CatOther
<1> QED BY <1>4, <1>8, <1>9, <1>10, <1>11, <1>12

\* A command's paths are the words typed after its name, in their order, each from
\* where the prompt is unless it names a drive, for a line with no blank at its end
\* and of as many words as the command takes, of any length and from any directory.
THEOREM PathsAreAsTyped == Spec => []PathsAsTyped
<1> DEFINE Inv == TypeInv /\ FormatInv /\ PathsAsTyped
<1>1. Init => Inv
  <2> SUFFICES ASSUME Init PROVE Inv
    OBVIOUS
  <2>1. PathsAsTyped
    BY CommandNames DEF Init, PathsAsTyped
  <2> QED BY <2>1, TypeInit, FormatInit
<1>2. Inv /\ [Next]_vars => Inv'
  <2> SUFFICES ASSUME Inv, [Next]_vars PROVE PathsAsTyped'
    BY TypeStep, FormatStep
  <2>1. CASE Unknown \/ Ls \/ OnePath \/ TwoPaths \/ CatFile \/ CatFiles \/ CatOther
    BY <2>1, CommandsAsTyped
  <2>2. CASE Cd
    <3>1. call' = NoCall \/ call'.name = "cd"
      BY <2>2 DEF Cd, Is, TypeInv
    <3> QED BY <3>1, UnaskedAsTyped DEF PathsAsTyped
  <2>3. CASE Kill \/ PromptNull \/ Again
    BY <2>3, UnaskedAsTyped DEF Kill, PromptNull, Again, Ends, NoLine
  <2>4. CASE Start \/ (\E line \in Lines : ReadLine(line)) \/ FormatChar \/ FormatEnd
    <3>1. call' = NoCall
      BY <2>4 DEF Start, ReadLine, FormatChar, FormatEnd, TypeInv
    <3> QED BY <3>1, UnaskedAsTyped
  <2>5. CASE UNCHANGED vars
    <3>1. typed' = typed /\ cur_path' = cur_path /\ call' = call
      BY <2>5 DEF vars, lineVars
    <3> QED BY <3>1 DEF PathsAsTyped, Resolved
  <2> QED BY <2>1, <2>2, <2>3, <2>4, <2>5 DEF Next
<1> QED BY <1>1, <1>2, PTL DEF Spec
=============================================================================
