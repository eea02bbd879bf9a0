-------------------------- MODULE FileShellProofs --------------------------
(***************************************************************************)
(* Proofs about FileShell, for every set of names and file contents, every *)
(* depth, and drives, recursions and command lines of any size. The bounds *)
(* of the runs are constants here like the others.                         *)
(***************************************************************************)
EXTENDS FileShell, SequenceTheorems, TLAPS

-----------------------------------------------------------------------------
(***************************************************************************)
(* What the calls of FileTree leave alone, and that they turn trees into   *)
(* trees, for every set of names and every depth.                          *)
(***************************************************************************)

Path == Seq(Names)

-----------------------------------------------------------------------------
(* Paths.                                                                  *)

LEMMA UnderItself == ASSUME NEW p \in Path PROVE Under(p, p)
BY LenProperties DEF Under, Path

LEMMA UnderEntry ==
  ASSUME NEW p \in Path, NEW q \in Path, NEW n \in Names, Under(p, q)
  PROVE  Append(p, n) \in Path /\ Under(Append(p, n), q)
<1>1. /\ Append(p, n) \in Path /\ Len(Append(p, n)) = Len(p) + 1
      /\ \A i \in 1 .. Len(p) : Append(p, n)[i] = p[i]
  BY AppendProperties DEF Path
<1>2. Len(p) \in Nat /\ Len(q) \in Nat
  BY LenProperties DEF Path
<1> QED BY <1>1, <1>2 DEF Under

\* What is below two paths makes one of them lie below the other.
LEMMA UnderBoth ==
  ASSUME NEW p \in Path, NEW q \in Path, NEW r \in Path, Under(p, q), Under(p, r)
  PROVE  ~Unrelated(q, r)
<1>1. Len(p) \in Nat /\ Len(q) \in Nat /\ Len(r) \in Nat
  BY LenProperties DEF Path
<1> QED BY <1>1 DEF Under, Unrelated

\* m is new with what p has behind old.
IsMoved(m, p, old, new) ==
  /\ m \in Path /\ Len(m) = Len(new) + (Len(p) - Len(old))
  /\ \A i \in 1 .. Len(new) : m[i] = new[i]
  /\ \A i \in 1 .. Len(p) - Len(old) : m[Len(new) + i] = p[Len(old) + i]

\* A moved path is the new one with what was below the old one.
LEMMA MovedIs ==
  ASSUME NEW p \in Path, NEW old \in Path, NEW new \in Path, Under(p, old)
  PROVE  IsMoved(Moved(p, old, new), p, old, new)
<1> DEFINE rest == SubSeq(p, Len(old) + 1, Len(p))
           m == Moved(p, old, new)
<1>1. Len(p) \in Nat /\ Len(old) \in Nat /\ Len(new) \in Nat /\ Len(old) <= Len(p)
  BY LenProperties DEF Path, Under
<1>2. /\ rest \in Path /\ Len(rest) = Len(p) - Len(old)
      /\ \A i \in 1 .. Len(rest) : rest[i] = p[Len(old) + i]
  <2>1. \A i \in Len(old) + 1 .. Len(p) : p[i] \in Names
    BY <1>1, ElementOfSeq DEF Path
  <2> QED BY <1>1, <2>1, SubSeqProperties DEF Path
<1> HIDE DEF rest
<1>3. /\ m \in Path /\ Len(m) = Len(new) + Len(rest)
      /\ \A i \in 1 .. Len(new) + Len(rest) :
           m[i] = IF i <= Len(new) THEN new[i] ELSE rest[i - Len(new)]
  BY <1>2, ConcatProperties DEF Moved, Path, rest
<1> HIDE DEF m
<1>4. ASSUME NEW i \in 1 .. Len(p) - Len(old) PROVE m[Len(new) + i] = p[Len(old) + i]
  <2>1. /\ Len(new) + i \in 1 .. Len(new) + Len(rest) /\ ~(Len(new) + i <= Len(new))
        /\ Len(new) + i - Len(new) = i /\ i \in 1 .. Len(rest)
    BY <1>1, <1>2
  <2> QED BY <1>2, <1>3, <2>1
<1> QED BY <1>1, <1>2, <1>3, <1>4 DEF m, IsMoved

\* It is below the new path, and moves back to where it was.
LEMMA MovedFacts ==
  ASSUME NEW p \in Path, NEW old \in Path, NEW new \in Path, Under(p, old)
  PROVE  /\ Moved(p, old, new) \in Path
         /\ Under(Moved(p, old, new), new)
         /\ Moved(Moved(p, old, new), new, old) = p
<1> DEFINE m == Moved(p, old, new)
           back == Moved(m, new, old)
<1>1. Len(p) \in Nat /\ Len(old) \in Nat /\ Len(new) \in Nat /\ Len(old) <= Len(p)
  BY LenProperties DEF Path, Under
<1>2. /\ m \in Path /\ Len(m) = Len(new) + (Len(p) - Len(old))
      /\ \A i \in 1 .. Len(new) : m[i] = new[i]
      /\ \A i \in 1 .. Len(p) - Len(old) : m[Len(new) + i] = p[Len(old) + i]
  BY MovedIs DEF IsMoved
<1> HIDE DEF m
<1>3. Under(m, new)
  BY <1>1, <1>2 DEF Under
<1>4. /\ back \in Path /\ Len(back) = Len(old) + (Len(m) - Len(new))
      /\ \A i \in 1 .. Len(old) : back[i] = old[i]
      /\ \A i \in 1 .. Len(m) - Len(new) : back[Len(old) + i] = m[Len(new) + i]
  <2>1. m \in Path /\ new \in Path /\ old \in Path /\ Under(m, new)
    BY <1>2, <1>3
  <2>2. IsMoved(back, m, new, old)
    BY <2>1, MovedIs
  <2> QED BY <2>2 DEF IsMoved
<1> HIDE DEF back
<1>5. Len(m) - Len(new) = Len(p) - Len(old) /\ Len(back) = Len(p)
  BY <1>1, <1>2, <1>4
<1>6. ASSUME NEW i \in 1 .. Len(p) PROVE back[i] = p[i]
  <2>1. CASE i <= Len(old)
    BY <1>1, <1>4, <2>1 DEF Under
  <2>2. CASE i > Len(old)
    <3>1. i - Len(old) \in 1 .. Len(p) - Len(old) /\ Len(old) + (i - Len(old)) = i
      BY <1>1, <2>2
    <3> QED BY <1>2, <1>4, <1>5, <3>1
  <2> QED BY <1>1, <2>1, <2>2
<1>7. back = p
  BY <1>4, <1>5, <1>6, SeqEqual DEF Path
<1> QED BY <1>2, <1>3, <1>7 DEF m, back

-----------------------------------------------------------------------------
(* What the system calls leave alone.                                      *)

LEMMA PutFacts ==
  ASSUME NEW t, DOMAIN t \subseteq Path, NEW p \in Path, NEW e
  PROVE  /\ DOMAIN Put(t, p, e) \subseteq Path
         /\ \A q : q # p => SameAt(Put(t, p, e), t, q)
BY DEF Put, SameAt

LEMMA DropFacts ==
  ASSUME NEW t, DOMAIN t \subseteq Path, NEW p \in Path
  PROVE  /\ DOMAIN Drop(t, p) \subseteq Path
         /\ \A q : q # p => SameAt(Drop(t, p), t, q)
BY DEF Drop, SameAt

LEMMA RenamedFacts ==
  ASSUME NEW t, DOMAIN t \subseteq Path, NEW old \in Path, NEW new \in Path
  PROVE  /\ DOMAIN Renamed(t, old, new) \subseteq Path
         /\ \A q : Under(q, old) \/ Under(q, new) \/ SameAt(Renamed(t, old, new), t, q)
         /\ \A p \in Below(t, old) :
              /\ Moved(p, old, new) \in DOMAIN Renamed(t, old, new)
              /\ Renamed(t, old, new)[Moved(p, old, new)] = t[p]
<1> DEFINE below == Below(t, old)
           u == Renamed(t, old, new)
           moved == {Moved(p, old, new) : p \in below}
<1>1. \A p \in below :
        /\ p \in Path /\ Moved(p, old, new) \in Path
        /\ Under(Moved(p, old, new), new) /\ Moved(Moved(p, old, new), new, old) = p
  BY MovedFacts DEF Below
<1>2. DOMAIN u = (DOMAIN t \ below) \cup moved
  BY DEF Renamed
<1>3. \A q \in DOMAIN u : u[q] = IF Under(q, new) THEN t[Moved(q, new, old)] ELSE t[q]
  BY DEF Renamed
<1> HIDE DEF u, moved
<1>4. DOMAIN u \subseteq Path
  BY <1>1, <1>2 DEF moved
<1>5. ASSUME NEW q, ~Under(q, old), ~Under(q, new)
      PROVE  SameAt(u, t, q)
  <2>1. q \notin below
    BY <1>5 DEF Below
  <2>2. q \notin moved
    BY <1>1, <1>5 DEF moved
  <2> QED BY <1>2, <1>3, <1>5, <2>1, <2>2 DEF SameAt
<1>6. ASSUME NEW p \in below
      PROVE  Moved(p, old, new) \in DOMAIN u /\ u[Moved(p, old, new)] = t[p]
  <2>1. Moved(p, old, new) \in moved
    BY <1>6 DEF moved
  <2> QED BY <1>1, <1>2, <1>3, <2>1
<1> QED BY <1>4, <1>5, <1>6 DEF u

-----------------------------------------------------------------------------
(* That what each call leaves is a drive again. IsTree speaks of parents;  *)
(* with all that is above an entry in place of the parent it can be moved. *)

Closed(t) == \A p \in DOMAIN t, q \in Path : Under(p, q) /\ q # p => IsDir(t, q)
IsDrive(t) ==
  /\ DOMAIN t \subseteq Path /\ <<>> \in DOMAIN t
  /\ t \in [DOMAIN t -> Entry]
  /\ Closed(t)

LEMMA ParentFacts ==
  ASSUME NEW p \in Path, p # <<>>
  PROVE  /\ Parent(p) \in Path /\ Parent(p) # p /\ Len(Parent(p)) = Len(p) - 1
         /\ \A q \in Path : Under(p, q) /\ q # p => Under(Parent(p), q)
         /\ Under(p, Parent(p))
<1> DEFINE par == Parent(p)
<1>1. Len(p) \in Nat \ {0} /\ \A i \in 1 .. Len(p) - 1 : p[i] \in Names
  BY EmptySeq, ElementOfSeq DEF Path
<1>2. /\ par \in Path /\ Len(par) = Len(p) - 1
      /\ \A i \in 1 .. Len(par) : par[i] = p[i]
  <2> DEFINE n == Len(p) - 1
  <2>1. n \in Int /\ 1 \in Int /\ \A i \in 1 .. n : p[i] \in Names
    BY <1>1
  <2>2. par = SubSeq(p, 1, n)
    BY DEF Parent
  <2> HIDE DEF n, par
  <2>3. /\ par \in Path /\ Len(par) = IF 1 <= n THEN n - 1 + 1 ELSE 0
        /\ \A i \in 1 .. n - 1 + 1 : par[i] = p[1 + i - 1]
    BY <2>1, <2>2, SubSeqProperties DEF Path
  <2>4. n \in Nat /\ n = Len(p) - 1
    BY <1>1 DEF n
  <2>5. Len(par) = n
    BY <2>3, <2>4
  <2>6. ASSUME NEW i \in 1 .. n PROVE par[i] = p[i]
    <3>1. i \in 1 .. n - 1 + 1 /\ 1 + i - 1 = i
      BY <2>4
    <3> QED BY <2>3, <3>1
  <2> QED BY <2>3, <2>4, <2>5, <2>6
<1> HIDE DEF par
<1>3. ASSUME NEW q \in Path, Under(p, q), q # p PROVE Under(par, q)
  <2>1. Len(q) \in Nat /\ Len(q) <= Len(p) /\ \A i \in 1 .. Len(q) : p[i] = q[i]
    BY <1>3, LenProperties DEF Under, Path
  <2>2. Len(q) # Len(p)
    BY <1>3, <2>1, SeqEqual DEF Path
  <2>3. Len(q) <= Len(par)
    BY <1>1, <1>2, <2>1, <2>2
  <2> QED BY <1>1, <1>2, <2>1, <2>3 DEF Under
<1>4. Under(p, par) /\ par # p
  BY <1>1, <1>2 DEF Under
<1> QED BY <1>2, <1>3, <1>4 DEF par

LEMMA UnderAll == ASSUME NEW p \in Path PROVE Under(p, <<>>)
BY LenProperties DEF Under, Path

LEMMA UnderTrans ==
  ASSUME NEW p \in Path, NEW q \in Path, NEW r \in Path, Under(p, q), Under(q, r)
  PROVE  Under(p, r)
<1>1. Len(p) \in Nat /\ Len(q) \in Nat /\ Len(r) \in Nat
  BY LenProperties DEF Path
<1> QED BY <1>1 DEF Under

LEMMA UnderEach ==
  ASSUME NEW p \in Path, NEW q \in Path, Under(p, q), Under(q, p)
  PROVE  p = q
<1>1. Len(p) \in Nat /\ Len(q) \in Nat /\ Len(p) = Len(q)
  BY LenProperties DEF Path, Under
<1> QED BY <1>1, SeqEqual DEF Path, Under

LEMMA DriveIsTree == ASSUME NEW t, IsDrive(t) PROVE IsTree(t)
BY ParentFacts DEF IsDrive, IsTree, Closed, Path

\* An entry made in a directory, where none was or a file.
LEMMA PutDrive ==
  ASSUME NEW t, IsDrive(t), NEW p \in Path, p # <<>>, IsDir(t, Parent(p)), ~IsDir(t, p),
         NEW e \in Entry
  PROVE  IsDrive(Put(t, p, e))
<1> DEFINE u == Put(t, p, e)
<1>1. /\ DOMAIN u = DOMAIN t \cup {p} /\ u[p] = e
      /\ \A q \in DOMAIN t : q # p => u[q] = t[q]
      /\ u \in [DOMAIN u -> Entry]
  BY DEF Put, IsDrive
<1> HIDE DEF u
<1>2. ASSUME NEW q \in DOMAIN u, NEW r \in Path, Under(q, r), r # q
      PROVE  IsDir(u, r)
  <2>1. IsDir(t, r)
    <3>1. CASE q \in DOMAIN t
      BY <1>2, <3>1 DEF IsDrive, Closed
    <3>2. CASE q = p
      <4>1. Parent(p) \in Path /\ Parent(p) \in DOMAIN t /\ Under(Parent(p), r)
        BY <1>2, <3>2, ParentFacts DEF IsDir, Exists
      <4> QED BY <4>1 DEF IsDrive, Closed
    <3> QED BY <1>1, <3>1, <3>2
  <2> QED BY <1>1, <2>1 DEF IsDir, Exists
<1> QED BY <1>1, <1>2 DEF IsDrive, Closed, u

LEMMA RewriteDrive ==
  ASSUME NEW t, IsDrive(t), NEW p \in Path, IsFile(t, p), NEW e \in Entry
  PROVE  IsDrive(Put(t, p, e))
<1> DEFINE u == Put(t, p, e)
<1>1. /\ DOMAIN u = DOMAIN t
      /\ \A q \in DOMAIN t : q # p => u[q] = t[q]
      /\ u \in [DOMAIN u -> Entry]
  BY DEF Put, IsDrive, IsFile, Exists
<1> HIDE DEF u
<1>2. \A r : IsDir(t, r) => IsDir(u, r)
  BY <1>1 DEF IsDir, Exists, IsFile
<1> QED BY <1>1, <1>2 DEF IsDrive, Closed, u

\* A file is removed, or a directory with nothing in it.
LEMMA DropDrive ==
  ASSUME NEW t, IsDrive(t), NEW p \in Path, p # <<>>,
         IsFile(t, p) \/ (IsDir(t, p) /\ Entries(t, p) = {})
  PROVE  IsDrive(Drop(t, p))
<1> DEFINE u == Drop(t, p)
<1>1. /\ DOMAIN u = DOMAIN t \ {p} /\ \A q \in DOMAIN u : u[q] = t[q]
      /\ u \in [DOMAIN u -> Entry]
  BY DEF Drop, IsDrive
<1> HIDE DEF u
<1>2. ASSUME NEW q \in DOMAIN t, Under(q, p), q # p PROVE FALSE
  <2>1. q \in Path /\ IsDir(t, p)
    BY <1>2 DEF IsDrive, Closed
  <2>2. Entries(t, p) = {}
    BY <2>1 DEF IsFile, IsDir
  <2>3. /\ Len(p) \in Nat /\ Len(q) \in Nat /\ Len(p) < Len(q)
        /\ \A i \in 1 .. Len(p) : q[i] = p[i]
    <3>1. Len(p) \in Nat /\ Len(q) \in Nat
      BY <2>1, LenProperties DEF Path
    <3>2. Len(p) # Len(q)
      BY <1>2, <2>1, <3>1, SeqEqual DEF Path, Under
    <3> QED BY <1>2, <3>1, <3>2 DEF Under
  <2> DEFINE n == q[Len(p) + 1]
             r == Append(p, n)
  <2>4. n \in Names
    BY <2>1, <2>3, ElementOfSeq DEF Path
  <2> HIDE DEF n
  <2>5. /\ r \in Path /\ Len(r) = Len(p) + 1
        /\ \A i \in 1 .. Len(r) : r[i] = IF i <= Len(p) THEN p[i] ELSE n
    BY <2>3, <2>4, AppendProperties DEF Path
  <2> HIDE DEF r
  <2>6. Under(q, r)
    BY <2>3, <2>5 DEF Under, n
  <2>7. r \in DOMAIN t
    BY <2>1, <2>5, <2>6 DEF IsDrive, Closed, IsDir, Exists
  <2> QED BY <2>2, <2>4, <2>7 DEF Entries, r
<1>3. ASSUME NEW q \in DOMAIN u, NEW r \in Path, Under(q, r), r # q
      PROVE  IsDir(u, r)
  BY <1>1, <1>2, <1>3 DEF IsDrive, Closed, IsDir, Exists
<1> QED BY <1>1, <1>3 DEF IsDrive, Closed, u

\* What is above a path that is moved is moved with it, down to where the move
\* began.
LEMMA MovedAbove ==
  ASSUME NEW p \in Path, NEW old \in Path, NEW new \in Path, NEW r \in Path,
         Under(p, old), Under(Moved(p, old, new), r), Under(r, new)
  PROVE  Under(p, Moved(r, new, old))
<1> DEFINE m == Moved(p, old, new)
           b == Moved(r, new, old)
<1>1. m \in Path /\ b \in Path /\ Under(m, r)
  BY MovedFacts
<1>2. Len(p) \in Nat /\ Len(old) \in Nat /\ Len(new) \in Nat /\ Len(r) \in Nat
  BY LenProperties DEF Path
<1>3. /\ Len(m) = Len(new) + (Len(p) - Len(old))
      /\ \A i \in 1 .. Len(p) - Len(old) : m[Len(new) + i] = p[Len(old) + i]
  BY MovedIs DEF IsMoved
<1>4. /\ Len(b) = Len(old) + (Len(r) - Len(new))
      /\ \A i \in 1 .. Len(old) : b[i] = old[i]
      /\ \A i \in 1 .. Len(r) - Len(new) : b[Len(old) + i] = r[Len(new) + i]
  BY MovedIs DEF IsMoved
<1> HIDE DEF m, b
<1>5. Len(r) <= Len(m) /\ \A i \in 1 .. Len(r) : m[i] = r[i]
  BY <1>1 DEF Under
<1>6. Len(old) <= Len(p) /\ Len(new) <= Len(r) /\ \A i \in 1 .. Len(old) : p[i] = old[i]
  BY DEF Under
<1>7. Len(b) <= Len(p) /\ Len(b) \in Nat
  BY <1>2, <1>3, <1>4, <1>5, <1>6
<1>8. ASSUME NEW i \in 1 .. Len(b) PROVE p[i] = b[i]
  <2>1. CASE i <= Len(old)
    BY <1>2, <1>4, <1>6, <1>7, <1>8, <2>1
  <2>2. CASE i > Len(old)
    <3> DEFINE j == i - Len(old)
    <3>1. /\ j \in 1 .. Len(r) - Len(new) /\ j \in 1 .. Len(p) - Len(old)
          /\ i = Len(old) + j /\ Len(new) + j \in 1 .. Len(r)
      BY <1>2, <1>4, <1>6, <1>7, <1>8, <2>2
    <3> HIDE DEF j
    <3>2. m[Len(new) + j] = p[i] /\ b[i] = r[Len(new) + j] /\ m[Len(new) + j] = r[Len(new) + j]
      BY <1>3, <1>4, <1>5, <3>1
    <3> QED BY <3>2
  <2> QED BY <1>2, <1>7, <2>1, <2>2
<1> QED BY <1>7, <1>8 DEF Under, b

\* A directory with all it holds appears where nothing was.
LEMMA RenamedDrive ==
  ASSUME NEW t, IsDrive(t), NEW old \in Path, NEW new \in Path, CanRename(t, old, new)
  PROVE  IsDrive(Renamed(t, old, new))
<1> DEFINE below == Below(t, old)
           u == Renamed(t, old, new)
           moved == {Moved(p, old, new) : p \in below}
<1>1. \A p \in below :
        /\ p \in Path /\ Moved(p, old, new) \in Path /\ p \in DOMAIN t /\ Under(p, old)
        /\ Under(Moved(p, old, new), new) /\ Moved(Moved(p, old, new), new, old) = p
  BY MovedFacts DEF Below, IsDrive
<1>2. DOMAIN u = (DOMAIN t \ below) \cup moved
  BY DEF Renamed
<1>3. \A q \in DOMAIN u : u[q] = IF Under(q, new) THEN t[Moved(q, new, old)] ELSE t[q]
  BY DEF Renamed
<1>4. u = [q \in DOMAIN u |-> u[q]]
  BY DEF Renamed
<1> HIDE DEF u, moved
<1>5. /\ new \notin DOMAIN t /\ ~Under(new, old) /\ new # <<>> /\ IsDir(t, Parent(new))
  BY DEF CanRename, Exists
<1>6. \A q \in DOMAIN t \ below : q \in Path /\ q \in DOMAIN u /\ ~Under(q, new) /\ u[q] = t[q]
  <2>1. ASSUME NEW q \in DOMAIN t, Under(q, new) PROVE FALSE
    BY <1>5, <2>1 DEF IsDrive, Closed, IsDir, Exists
  <2> QED BY <1>2, <1>3, <2>1 DEF IsDrive
<1>7. \A p \in below :
        Moved(p, old, new) \in DOMAIN u /\ u[Moved(p, old, new)] = t[p]
  BY <1>1, <1>2, <1>3 DEF moved
<1>8. DOMAIN u \subseteq Path
  BY <1>1, <1>2, <1>6 DEF moved
<1>9. <<>> \in DOMAIN u
  <2>1. <<>> \in DOMAIN t /\ <<>> \in Path
    BY DEF IsDrive
  <2>2. old # <<>>
    BY <1>5, UnderAll
  <2>3. ~Under(<<>>, old)
    BY <2>1, <2>2, UnderAll, UnderEach
  <2> QED BY <1>2, <2>1, <2>3 DEF Below
<1>10. u \in [DOMAIN u -> Entry]
  <2>1. \A q \in DOMAIN u : u[q] \in Entry
    BY <1>1, <1>2, <1>6, <1>7 DEF IsDrive, moved
  <2> QED BY <1>4, <2>1
<1>11. ASSUME NEW r \in Path, IsDir(t, r), ~Under(r, old)
       PROVE  IsDir(u, r)
  BY <1>6, <1>11 DEF IsDir, Exists, Below
<1>12. ASSUME NEW q \in DOMAIN t \ below, NEW r \in Path, Under(q, r), r # q
       PROVE  IsDir(u, r)
  <2>1. IsDir(t, r)
    BY <1>12 DEF IsDrive, Closed
  <2>2. ~Under(r, old)
    BY <1>6, <1>12, UnderTrans DEF Below
  <2> QED BY <1>11, <2>1, <2>2
<1>13. ASSUME NEW p \in below, NEW r \in Path, Under(Moved(p, old, new), r), r # Moved(p, old, new)
       PROVE  IsDir(u, r)
  <2> DEFINE m == Moved(p, old, new)
             b == Moved(r, new, old)
  <2>1. m \in Path /\ Under(m, new) /\ p \in Path /\ p \in DOMAIN t /\ Under(p, old)
    BY <1>1
  <2>2. CASE Under(r, new)
    <3>1. b \in Path /\ Under(b, old) /\ Moved(b, old, new) = r
      BY <2>2, MovedFacts
    <3>2. Under(p, b)
      BY <1>13, <2>1, <2>2, MovedAbove
    <3>3. p # b
      BY <1>13, <3>1
    <3>4. IsDir(t, b)
      BY <2>1, <3>1, <3>2, <3>3 DEF IsDrive, Closed
    <3>5. b \in below
      BY <3>1, <3>4 DEF Below, IsDir, Exists
    <3>6. r \in DOMAIN u /\ u[r] = t[b]
      BY <1>7, <3>1, <3>5
    <3> QED BY <3>4, <3>6 DEF IsDir, Exists
  <2>3. CASE ~Under(r, new)
    <3> HIDE DEF m
    <3>1. Under(new, r)
      BY <1>13, <2>1, <2>3, UnderBoth DEF Unrelated, m
    <3>2. new # r
      BY <2>3, <3>1
    <3>3. Parent(new) \in Path /\ Under(Parent(new), r)
      BY <1>5, <3>1, <3>2, ParentFacts
    <3>4. IsDir(t, r)
      BY <1>5, <3>3 DEF IsDrive, Closed, IsDir, Exists
    <3>5. ~Under(r, old)
      BY <1>5, <3>1, UnderTrans
    <3> QED BY <1>11, <3>4, <3>5
  <2> QED BY <2>2, <2>3
<1>14. Closed(u)
  BY <1>2, <1>12, <1>13 DEF Closed, moved
<1> QED BY <1>8, <1>9, <1>10, <1>14 DEF IsDrive, u

-----------------------------------------------------------------------------
(* What every step of a command keeps.                                     *)

\* A call in progress works for the command it belongs to: what it removes or
\* writes is at or below the target, and a rename is the one of mv.
Calls ==
  [proc : {"remove", "copy", "write", "rename", "cat"}, at : {"call", "make", "loop", "stuck"},
   src : Path, dst : Path, todo : SUBSET Names]
CallsFor(cmd) ==
  {c \in Calls :
     /\ c.proc = "remove" => Under(c.src, cmd.dst)
     /\ c.proc \in {"copy", "write", "cat"} => Under(c.dst, cmd.dst)
     /\ c.proc = "rename" => cmd.name = "mv" /\ c.src = cmd.src /\ c.dst = cmd.dst}

\* The calls in progress: a rename is made by the command itself, and last.
StacksFor(cmd) ==
  {s \in Seq(CallsFor(cmd)) : \A i \in 1 .. Len(s) : s[i].proc = "rename" => i = Len(s)}

\* Nothing differs outside what the command may change.
SameElsewhere == \A p : InTarget(p) \/ SameAt(files, start, p)

\* What is moved is still in place, or has arrived.
InPlace == \A p \in Below(start, command.src) : SameAt(files, start, p)
Arrived ==
  \A p \in Below(start, command.src) :
    LET q == Moved(p, command.src, command.dst)
    IN q \in DOMAIN files /\ files[q] = start[p]

ShellInv ==
  /\ DOMAIN files \subseteq Path /\ (Busy => DOMAIN start \subseteq Path)
  /\ command.src \in Path /\ command.dst \in Path
  /\ calls \in StacksFor(command)
  /\ ~Busy => calls = <<>>
  /\ Busy => SameElsewhere
  /\ Busy /\ command.name = "mv" /\ Unrelated(command.src, command.dst) =>
       InPlace \/ (Arrived /\ calls = <<>>)

-----------------------------------------------------------------------------
(* The calls in progress.                                                  *)

LEMMA StackFacts ==
  ASSUME NEW cmd, NEW s \in StacksFor(cmd), s # <<>>
  PROVE  /\ Head(s) \in CallsFor(cmd)
         /\ Tail(s) \in StacksFor(cmd)
         /\ Head(s).proc = "rename" => Tail(s) = <<>>
<1>1. s \in Seq(CallsFor(cmd)) /\ \A i \in 1 .. Len(s) : s[i].proc = "rename" => i = Len(s)
  BY DEF StacksFor
<1> DEFINE rest == Tail(s)
<1>2. /\ Head(s) \in CallsFor(cmd) /\ Head(s) = s[1]
      /\ rest \in Seq(CallsFor(cmd)) /\ Len(s) \in Nat \ {0} /\ Len(rest) = Len(s) - 1
      /\ \A i \in 1 .. Len(rest) : rest[i] = s[i + 1]
  BY <1>1, HeadTailProperties, EmptySeq
<1> HIDE DEF rest
<1>3. ASSUME NEW i \in 1 .. Len(rest), rest[i].proc = "rename"
      PROVE  i = Len(rest)
  <2>1. i + 1 \in 1 .. Len(s) /\ s[i + 1].proc = "rename"
    BY <1>2, <1>3
  <2>2. i + 1 = Len(s)
    BY <1>1, <2>1
  <2> QED BY <1>2, <2>2
<1>4. ASSUME Head(s).proc = "rename" PROVE Len(rest) = 0
  <2>1. 1 \in 1 .. Len(s) /\ s[1].proc = "rename"
    BY <1>2, <1>4
  <2>2. Len(s) = 1
    BY <1>1, <2>1
  <2>3. Len(rest) = Len(s) - 1 /\ Len(s) \in Nat
    BY <1>2
  <2> QED BY <2>2, <2>3
<1>5. Len(rest) = 0 => rest = <<>>
  BY <1>2, EmptySeq
<1> QED BY <1>2, <1>3, <1>4, <1>5 DEF StacksFor, rest

LEMMA PushFacts ==
  ASSUME NEW cmd, NEW s \in StacksFor(cmd), NEW c \in CallsFor(cmd), c.proc # "rename"
  PROVE  <<c>> \o s \in StacksFor(cmd)
<1>1. s \in Seq(CallsFor(cmd)) /\ \A i \in 1 .. Len(s) : s[i].proc = "rename" => i = Len(s)
  BY DEF StacksFor
<1>2. <<c>> \in Seq(CallsFor(cmd)) /\ Len(<<c>>) = 1 /\ <<c>>[1] = c
  OBVIOUS
<1> DEFINE new == <<c>> \o s
<1>3. /\ new \in Seq(CallsFor(cmd)) /\ Len(new) = 1 + Len(s) /\ Len(s) \in Nat
      /\ \A i \in 1 .. 1 + Len(s) : new[i] = IF i <= 1 THEN c ELSE s[i - 1]
  BY <1>1, <1>2, ConcatProperties, LenProperties
<1> HIDE DEF new
<1>4. ASSUME NEW i \in 1 .. Len(new), new[i].proc = "rename" PROVE i = Len(new)
  <2>1. i # 1
    BY <1>3, <1>4
  <2>2. i - 1 \in 1 .. Len(s) /\ new[i] = s[i - 1]
    BY <1>3, <2>1
  <2> QED BY <1>1, <1>3, <1>4, <2>2
<1> QED BY <1>3, <1>4 DEF StacksFor, new

LEMMA EmptyStack == ASSUME NEW cmd PROVE <<>> \in StacksFor(cmd)
BY DEF StacksFor

LEMMA OneCall ==
  ASSUME NEW cmd, NEW c \in CallsFor(cmd)
  PROVE  <<c>> \in StacksFor(cmd)
<1>1. <<c>> \in Seq(CallsFor(cmd)) /\ Len(<<c>>) = 1
  OBVIOUS
<1> QED BY <1>1 DEF StacksFor

\* The running call, wherever it goes on.
LEMMA TopFacts ==
  ASSUME ShellInv, calls # <<>>
  PROVE  /\ Busy
         /\ Top \in CallsFor(command) /\ Rest \in StacksFor(command)
         /\ Top.proc = "rename" => Rest = <<>>
         /\ \A where \in {"call", "make", "loop", "stuck"}, names \in SUBSET Names :
              Top.proc # "rename" => At(where, names) \in StacksFor(command)
<1>1. Busy /\ calls \in StacksFor(command)
  BY DEF ShellInv
<1>2. /\ Top \in CallsFor(command) /\ Rest \in StacksFor(command)
      /\ Top.proc = "rename" => Rest = <<>>
  BY <1>1, StackFacts DEF Top, Rest
<1>3. ASSUME NEW where \in {"call", "make", "loop", "stuck"}, NEW names \in SUBSET Names,
             Top.proc # "rename"
      PROVE  At(where, names) \in StacksFor(command)
  <2> DEFINE c == [Top EXCEPT !.at = where, !.todo = names]
  <2>1. c \in CallsFor(command) /\ c.proc # "rename"
    BY <1>2, <1>3 DEF CallsFor, Calls
  <2> HIDE DEF c
  <2>2. <<c>> \o Rest \in StacksFor(command)
    BY <1>2, <2>1, PushFacts
  <2> QED BY <2>2 DEF At, c
<1> QED BY <1>1, <1>2, <1>3

-----------------------------------------------------------------------------
(* The invariant over one step.                                            *)

\* The drive has changed at or below d only.
Within(d) ==
  /\ DOMAIN files' \subseteq Path
  /\ \A q : Under(q, d) \/ SameAt(files', files, q)

LEMMA SameWithin ==
  ASSUME DOMAIN files \subseteq Path, files' = files, NEW d
  PROVE  Within(d)
BY DEF Within, SameAt

LEMMA PutWithin ==
  ASSUME DOMAIN files \subseteq Path, NEW p \in Path, NEW d, Under(p, d), NEW e,
         files' = files \/ files' = Put(files, p, e)
  PROVE  Within(d)
BY SameWithin, PutFacts DEF Within

LEMMA DropWithin ==
  ASSUME DOMAIN files \subseteq Path, NEW p \in Path, NEW d, Under(p, d),
         files' = files \/ files' = Drop(files, p)
  PROVE  Within(d)
BY SameWithin, DropFacts DEF Within

\* A step of a command that changes its target only keeps the invariant.
LEMMA KeepsInv ==
  ASSUME ShellInv, calls # <<>>, UNCHANGED <<command, start>>,
         Within(command.dst), calls' \in StacksFor(command)
  PROVE  ShellInv'
<1>1. Busy
  BY DEF ShellInv
<1>2. SameElsewhere'
  BY <1>1 DEF ShellInv, Within, SameElsewhere, InTarget, SameAt
<1>3. ASSUME command.name = "mv", Unrelated(command.src, command.dst)
      PROVE  InPlace'
  <2>1. InPlace
    BY <1>1, <1>3 DEF ShellInv
  <2>2. ASSUME NEW p \in Below(start, command.src) PROVE SameAt(files', start, p)
    <3>1. p \in Path /\ Under(p, command.src)
      BY <1>1 DEF ShellInv, Below
    <3>2. ~Under(p, command.dst)
      BY <1>3, <3>1, UnderBoth DEF ShellInv
    <3> QED BY <2>1, <3>2 DEF Within, InPlace, SameAt
  <2> QED BY <2>2 DEF InPlace
<1> QED BY <1>1, <1>2, <1>3 DEF ShellInv, Within, Busy

\* A command begins.
LEMMA BeginInv ==
  ASSUME ShellInv, NEW name, NEW src \in Path, NEW dst \in Path, name # "none",
         Begin(name, src, dst), Within(dst),
         calls' \in StacksFor([name |-> name, src |-> src, dst |-> dst])
  PROVE  ShellInv'
<1>1. /\ command' = [name |-> name, src |-> src, dst |-> dst] /\ start' = files
      /\ command'.src = src /\ command'.dst = dst /\ command'.name = name
  BY DEF Begin
<1>2. Busy' /\ DOMAIN files \subseteq Path
  BY <1>1 DEF ShellInv, Busy, NoCommand
<1>3. SameElsewhere'
  BY <1>1 DEF Within, SameElsewhere, InTarget, SameAt
<1>4. ASSUME Unrelated(src, dst) PROVE InPlace'
  <2>1. ASSUME NEW p \in Below(files, src) PROVE SameAt(files', files, p)
    <3>1. p \in Path /\ Under(p, src)
      BY <1>2 DEF Below
    <3> QED BY <1>4, <3>1, UnderBoth DEF Within
  <2> QED BY <1>1, <2>1 DEF InPlace
<1> QED BY <1>1, <1>2, <1>3, <1>4 DEF ShellInv, Within

LEMMA EndsInv ==
  ASSUME Ends, DOMAIN files' \subseteq Path
  PROVE  ShellInv'
<1>1. <<>> \in Path /\ ~Busy' /\ calls' = <<>> /\ command'.src = <<>> /\ command'.dst = <<>>
  BY DEF Path, Ends, Busy, NoCommand
<1> QED BY <1>1, EmptyStack DEF ShellInv

\* file_copy: it writes where it was told to.
LEMMA FileCopyKeeps ==
  ASSUME DOMAIN files \subseteq Path, NEW cmd, NEW src \in Path, NEW dst \in Path,
         Under(dst, cmd.dst), NEW rest \in StacksFor(cmd), FileCopy(src, dst, rest)
  PROVE  Within(cmd.dst) /\ calls' \in StacksFor(cmd)
<1>1. Call("write", src, dst) \in CallsFor(cmd) /\ Call("write", src, dst).proc = "write"
  BY DEF Call, CallsFor, Calls
<1>2. <<Call("write", src, dst)>> \o rest \in StacksFor(cmd)
  BY <1>1, PushFacts
<1>3. files' = files \/ files' = Put(files, dst, File(<<>>))
  BY DEF FileCopy, Declined
<1>4. calls' = rest \/ calls' = <<Call("write", src, dst)>> \o rest
  BY DEF FileCopy
<1> QED BY <1>2, <1>3, <1>4, PutWithin

-----------------------------------------------------------------------------
(* The steps of dir_remove_deep, dir_copy, file_copy and file_move.        *)

LEMMA RemoveEntryInv == ASSUME ShellInv, RemoveEntry PROVE ShellInv'
<1>1. calls # <<>> /\ Top.proc = "remove" /\ UNCHANGED <<command, start>>
  BY DEF RemoveEntry, Running, Top, commandVars
<1>2. Top \in CallsFor(command)
  BY <1>1, TopFacts
<1>3. Top.src \in Path /\ Under(Top.src, command.dst) /\ Top.todo \in SUBSET Names
  BY <1>1, <1>2 DEF CallsFor, Calls
<1>4. PICK n \in Top.todo :
        \/ RemoveFile(Append(Top.src, n)) /\ calls' = Without(n)
        \/ /\ calls' = <<Call("remove", Append(Top.src, n), Append(Top.src, n))>> \o Without(n)
           /\ files' = files
  BY DEF RemoveEntry
<1> DEFINE p == Append(Top.src, n)
<1>5. p \in Path /\ Under(p, command.dst)
  BY <1>3, UnderEntry DEF ShellInv
<1>6. Without(n) \in StacksFor(command)
  BY <1>1, <1>3, TopFacts DEF Without
<1> HIDE DEF p
<1>7. Call("remove", p, p) \in CallsFor(command) /\ Call("remove", p, p).proc = "remove"
  BY <1>5 DEF Call, CallsFor, Calls
<1>8. calls' \in StacksFor(command)
  BY <1>4, <1>6, <1>7, PushFacts DEF p
<1>9. Within(command.dst)
  <2>1. files' = files \/ files' = Drop(files, p)
    BY <1>4 DEF RemoveFile, Attempt, Declined, p
  <2> QED BY <1>5, <2>1, DropWithin DEF ShellInv
<1> QED BY <1>1, <1>8, <1>9, KeepsInv

\* The steps that only return or list, and those that make or remove one entry.
LEMMA RemoveRefusedInv == ASSUME ShellInv, RemoveRefused PROVE ShellInv'
<1>1. calls # <<>> /\ calls' = Rest /\ files' = files /\ UNCHANGED <<command, start>>
  BY DEF RemoveRefused, Running, commandVars
<1> QED BY <1>1, TopFacts, SameWithin, KeepsInv DEF ShellInv

LEMMA RemoveListInv == ASSUME ShellInv, RemoveList PROVE ShellInv'
<1>1. calls # <<>> /\ Top.proc = "remove"
  BY DEF RemoveList, Running, Top
<1>2. CASE NullList
  BY <1>2, EndsInv DEF NullList, ShellInv
<1>3. CASE ~NullList
  <2>1. /\ calls' = At("loop", Entries(files, Top.src))
        /\ files' = files /\ UNCHANGED <<command, start>>
    BY <1>3 DEF RemoveList, commandVars
  <2>2. calls' \in StacksFor(command)
    BY <1>1, <2>1, TopFacts DEF Entries
  <2> QED BY <1>1, <2>1, <2>2, SameWithin, KeepsInv DEF ShellInv
<1> QED BY <1>2, <1>3

LEMMA RemoveSelfInv == ASSUME ShellInv, RemoveSelf PROVE ShellInv'
<1>1. /\ calls # <<>> /\ Top.proc = "remove"
      /\ calls' = Rest /\ UNCHANGED <<command, start>>
  BY DEF RemoveSelf, Running, Top, commandVars
<1>2. Rest \in StacksFor(command) /\ Top.src \in Path /\ Under(Top.src, command.dst)
  BY <1>1, TopFacts DEF CallsFor, Calls
<1>3. files' = files \/ files' = Drop(files, Top.src)
  BY DEF RemoveSelf, RemoveEmptyDir, Attempt, Declined
<1> QED BY <1>1, <1>2, <1>3, DropWithin, KeepsInv DEF ShellInv

LEMMA FileCopyWriteInv == ASSUME ShellInv, FileCopyWrite PROVE ShellInv'
<1>1. /\ calls # <<>> /\ Top.proc = "write"
      /\ calls' = Rest /\ UNCHANGED <<command, start>>
  BY DEF FileCopyWrite, Running, Top, commandVars
<1>2. Rest \in StacksFor(command) /\ Top.dst \in Path /\ Under(Top.dst, command.dst)
  BY <1>1, TopFacts DEF CallsFor, Calls
<1>3. \/ files' = files
      \/ files' = Put(files, Top.dst, File(AsText(files[Top.src].data)))
  BY DEF FileCopyWrite, Attempt, Declined
<1> QED BY <1>1, <1>2, <1>3, PutWithin, KeepsInv DEF ShellInv

\* A loop that is never left: nothing more is written.
LEMMA ReadStops ==
  ASSUME ReadFails
  PROVE  /\ calls # <<>> /\ Top.proc \in {"write", "cat"}
         /\ calls' = At("stuck", {}) /\ files' = files /\ clean' = FALSE
         /\ UNCHANGED <<up, command, start>>
BY DEF ReadFails, Running, Top, Declined, commandVars

LEMMA ReadFailsInv == ASSUME ShellInv, ReadFails PROVE ShellInv'
<1>1. calls' \in StacksFor(command)
  BY ReadStops, TopFacts
<1> QED BY <1>1, ReadStops, SameWithin, KeepsInv DEF ShellInv

\* cat, which works for itself alone.
CatStep == CatCopies \/ CatGrows \/ CatFillsDisk \/ CatNoSecond

LEMMA CatRuns ==
  ASSUME CatStep
  PROVE  calls # <<>> /\ Top.proc = "cat" /\ Top.at = "call"
BY DEF CatStep, CatCopies, CatGrows, CatFillsDisk, CatNoSecond, Running, Top

LEMMA CatStepInv == ASSUME ShellInv, CatStep PROVE ShellInv'
<1>1. /\ calls # <<>> /\ DOMAIN files \subseteq Path
      /\ Rest \in StacksFor(command) /\ calls \in StacksFor(command)
      /\ Top.dst \in Path /\ Under(Top.dst, command.dst)
  BY CatRuns, TopFacts DEF CallsFor, Calls, ShellInv
<1>2. CASE CatCopies \/ CatFillsDisk
  <2>1. /\ calls' = Rest /\ UNCHANGED <<command, start>>
        /\ \/ files' = files
           \/ files' = Put(files, Top.dst, File(CatText(command.src, Top.src, Top.dst)))
    BY <1>2 DEF CatCopies, CatFillsDisk, Attempt, Declined, commandVars
  <2> QED BY <1>1, <2>1, PutWithin, KeepsInv
<1>3. CASE CatGrows
  <2>1. calls' = calls /\ UNCHANGED <<command, start>>
    BY <1>3 DEF CatGrows, commandVars
  <2>2. PICK e : files' = Put(files, Top.dst, e)
    BY <1>3 DEF CatGrows
  <2> QED BY <1>1, <2>1, <2>2, PutWithin, KeepsInv
<1>4. CASE CatNoSecond
  BY <1>1, <1>4, EndsInv DEF CatNoSecond
<1> QED BY <1>2, <1>3, <1>4 DEF CatStep

\* What a running dir_copy works on.
LEMMA CopyFacts ==
  ASSUME ShellInv, calls # <<>>, Top.proc = "copy"
  PROVE  /\ Top.src \in Path /\ Top.dst \in Path /\ Under(Top.dst, command.dst)
         /\ Top.todo \in SUBSET Names /\ DOMAIN files \subseteq Path
BY TopFacts DEF CallsFor, Calls, ShellInv

LEMMA CopyRefusedInv == ASSUME ShellInv, CopyRefused PROVE ShellInv'
<1>1. calls # <<>> /\ calls' = Rest /\ files' = files /\ UNCHANGED <<command, start>>
  BY DEF CopyRefused, Running, Declined, commandVars
<1> QED BY <1>1, TopFacts, SameWithin, KeepsInv DEF ShellInv

LEMMA CopyBeginInv == ASSUME ShellInv, CopyBegin PROVE ShellInv'
<1>1. /\ calls # <<>> /\ Top.proc = "copy" /\ files' = files /\ UNCHANGED <<command, start>>
      /\ \/ calls' = <<Call("remove", Top.dst, Top.dst)>> \o At("make", {})
         \/ calls' = <<>> \o At("make", {})
  BY DEF CopyBegin, Running, Top, commandVars
<1>2. At("make", {}) \in StacksFor(command)
  BY <1>1, TopFacts
<1>3. <<>> \o At("make", {}) = At("make", {})
  BY <1>2, ConcatEmptySeq DEF StacksFor
<1> DEFINE c == Call("remove", Top.dst, Top.dst)
<1>4. c \in CallsFor(command) /\ c.proc = "remove"
  BY <1>1, CopyFacts DEF Call, CallsFor, Calls
<1> HIDE DEF c
<1>5. calls' \in StacksFor(command)
  BY <1>1, <1>2, <1>3, <1>4, PushFacts DEF c
<1> QED BY <1>1, <1>5, SameWithin, KeepsInv DEF ShellInv

LEMMA CopyMakeInv == ASSUME ShellInv, CopyMake PROVE ShellInv'
<1>1. calls # <<>> /\ Top.proc = "copy"
  BY DEF CopyMake, Running, Top
<1>2. /\ Top.dst \in Path /\ Under(Top.dst, command.dst) /\ DOMAIN files \subseteq Path
  BY <1>1, CopyFacts
<1>3. files' = files \/ files' = Put(files, Top.dst, Dir)
  BY DEF CopyMake, CreateDir, Attempt, Declined
<1>4. Within(command.dst)
  BY <1>2, <1>3, PutWithin
<1>5. CASE Ends
  BY <1>4, <1>5, EndsInv DEF Within
<1>6. CASE ~Ends
  <2>1. calls' = At("loop", Entries(files', Top.src)) /\ UNCHANGED <<command, start>>
    BY <1>6 DEF CopyMake, commandVars
  <2>2. calls' \in StacksFor(command)
    BY <1>1, <2>1, TopFacts DEF Entries
  <2> QED BY <1>1, <1>4, <2>1, <2>2, KeepsInv
<1> QED BY <1>5, <1>6

LEMMA CopyEntryInv == ASSUME ShellInv, CopyEntry PROVE ShellInv'
<1>1. calls # <<>> /\ Top.proc = "copy" /\ UNCHANGED <<command, start>>
  BY DEF CopyEntry, Running, Top, commandVars
<1>2. /\ Top.src \in Path /\ Top.dst \in Path /\ Under(Top.dst, command.dst)
      /\ Top.todo \in SUBSET Names /\ DOMAIN files \subseteq Path
  BY <1>1, CopyFacts
<1>3. PICK n \in Top.todo :
        \/ FileCopy(Append(Top.src, n), Append(Top.dst, n), Without(n))
        \/ /\ calls' = <<Call("copy", Append(Top.src, n), Append(Top.dst, n))>> \o Without(n)
           /\ files' = files
  BY DEF CopyEntry
<1> DEFINE src == Append(Top.src, n)
           dst == Append(Top.dst, n)
<1>4. src \in Path /\ dst \in Path /\ Under(dst, command.dst)
  <2>1. Under(Top.src, Top.src)
    BY <1>2, UnderItself
  <2> QED BY <1>2, <2>1, UnderEntry DEF ShellInv
<1>5. Without(n) \in StacksFor(command)
  BY <1>1, <1>2, TopFacts DEF Without
<1> HIDE DEF src, dst
<1>6. CASE FileCopy(src, dst, Without(n))
  <2>1. Within(command.dst) /\ calls' \in StacksFor(command)
    BY <1>2, <1>4, <1>5, <1>6, FileCopyKeeps
  <2> QED BY <1>1, <2>1, KeepsInv
<1>7. CASE calls' = <<Call("copy", src, dst)>> \o Without(n) /\ files' = files
  <2>1. Call("copy", src, dst) \in CallsFor(command) /\ Call("copy", src, dst).proc = "copy"
    BY <1>4 DEF Call, CallsFor, Calls
  <2>2. calls' \in StacksFor(command)
    BY <1>5, <1>7, <2>1, PushFacts
  <2> QED BY <1>1, <1>2, <1>7, <2>2, SameWithin, KeepsInv
<1> QED BY <1>3, <1>6, <1>7 DEF src, dst

LEMMA CopyReturnsInv == ASSUME ShellInv, CopyReturns PROVE ShellInv'
<1>1. calls # <<>> /\ calls' = Rest /\ files' = files /\ UNCHANGED <<command, start>>
  BY DEF CopyReturns, Running, commandVars
<1> QED BY <1>1, TopFacts, SameWithin, KeepsInv DEF ShellInv

\* The one step that changes something outside the target: what it takes away
\* from the source is at the target after it, and nothing of mv is left to do.
LEMMA RenameInv == ASSUME ShellInv, Rename PROVE ShellInv'
<1>1. /\ calls # <<>> /\ Top.proc = "rename"
      /\ calls' = Rest /\ UNCHANGED <<command, start>>
      /\ files' = files \/ files' = Renamed(files, Top.src, Top.dst)
  BY DEF Rename, Running, Top, commandVars, Attempt, Declined
<1>2. /\ Busy /\ Rest = <<>> /\ Rest \in StacksFor(command)
      /\ command.name = "mv" /\ Top.src = command.src /\ Top.dst = command.dst
  BY <1>1, TopFacts DEF CallsFor
<1>3. CASE files' = files
  BY <1>1, <1>2, <1>3, SameWithin, KeepsInv DEF ShellInv
<1>4. CASE files' = Renamed(files, command.src, command.dst)
  <2> DEFINE src == command.src
             dst == command.dst
  <2>1. /\ DOMAIN files' \subseteq Path
        /\ \A q : Under(q, src) \/ Under(q, dst) \/ SameAt(files', files, q)
        /\ \A p \in Below(files, src) :
             Moved(p, src, dst) \in DOMAIN files' /\ files'[Moved(p, src, dst)] = files[p]
    BY <1>4, RenamedFacts DEF ShellInv
  <2>2. SameElsewhere'
    BY <1>1, <1>2, <2>1 DEF ShellInv, SameElsewhere, InTarget, SameAt
  <2>3. ASSUME Unrelated(src, dst) PROVE Arrived'
    <3>1. InPlace
      BY <1>1, <1>2, <2>3 DEF ShellInv
    <3>2. ASSUME NEW p \in Below(start, src)
          PROVE  /\ Moved(p, src, dst) \in DOMAIN files'
                 /\ files'[Moved(p, src, dst)] = start[p]
      <4>1. p \in Below(files, src) /\ files[p] = start[p]
        BY <3>1, <3>2 DEF InPlace, Below, SameAt
      <4> QED BY <2>1, <4>1
    <3> QED BY <1>1, <3>2 DEF Arrived
  <2> QED BY <1>1, <1>2, <2>1, <2>2, <2>3 DEF ShellInv, Busy
<1> QED BY <1>1, <1>2, <1>3, <1>4

LEMMA ReturnInv == ASSUME ShellInv, Return PROVE ShellInv'
<1>1. /\ files' = files /\ calls = <<>> /\ calls' = calls /\ command' = NoCommand
  BY DEF Return, Done
<1>2. ~Busy' /\ <<>> \in Path /\ command'.src = <<>> /\ command'.dst = <<>>
  BY <1>1 DEF Busy, NoCommand, Path
<1> QED BY <1>1, <1>2, EmptyStack DEF ShellInv

LEMMA StepInv == ASSUME ShellInv, Step PROVE ShellInv'
BY RemoveRefusedInv, RemoveListInv, RemoveEntryInv, RemoveSelfInv, CopyRefusedInv, CopyBeginInv,
   CopyMakeInv, CopyEntryInv, CopyReturnsInv, FileCopyWriteInv, RenameInv, ReturnInv,
   ReadFailsInv, CatStepInv
   DEF Step, CatStep

-----------------------------------------------------------------------------
(* The commands.                                                           *)

LEMMA PromptFacts ==
  ASSUME ShellInv, AtPrompt
  PROVE  calls = <<>> /\ DOMAIN files \subseteq Path
BY DEF ShellInv, AtPrompt, Busy

LEMMA MkDirInv == ASSUME ShellInv, NEW p \in Path, MkDir(p) PROVE ShellInv'
<1>1. Begin("mkdir", p, p) /\ AtPrompt /\ calls' = calls
  BY DEF MkDir, Begin
<1>2. files' = files \/ files' = Put(files, p, Dir)
  BY DEF MkDir, CreateDir, Attempt, Declined
<1>3. Within(p)
  BY <1>1, <1>2, PromptFacts, UnderItself, PutWithin
<1> QED BY <1>1, <1>3, PromptFacts, EmptyStack, BeginInv

LEMMA RmInv == ASSUME ShellInv, NEW p \in Path, Rm(p) PROVE ShellInv'
<1>1. Begin("rm", p, p) /\ AtPrompt /\ calls' = calls
  BY DEF Rm, Begin
<1>2. files' = files \/ files' = Drop(files, p)
  BY DEF Rm, RemoveFile, Attempt, Declined
<1>3. Within(p)
  BY <1>1, <1>2, PromptFacts, UnderItself, DropWithin
<1> QED BY <1>1, <1>3, PromptFacts, EmptyStack, BeginInv

LEMMA RmDirInv == ASSUME ShellInv, NEW p \in Path, RmDir(p) PROVE ShellInv'
<1> DEFINE cmd == [name |-> "rmdir", src |-> p, dst |-> p]
<1>1. Begin("rmdir", p, p) /\ AtPrompt /\ calls' = <<Call("remove", p, p)>> /\ files' = files
  BY DEF RmDir, Begin
<1>2. Call("remove", p, p) \in CallsFor(cmd)
  BY UnderItself DEF Call, CallsFor, Calls
<1>3. calls' \in StacksFor(cmd)
  BY <1>1, <1>2, OneCall
<1> QED BY <1>1, <1>3, PromptFacts, SameWithin, BeginInv

LEMMA CpInv ==
  ASSUME ShellInv, NEW src \in Path, NEW dst \in Path, Cp(src, dst) PROVE ShellInv'
<1> DEFINE cmd == [name |-> "cp", src |-> src, dst |-> dst]
<1>1. Begin("cp", src, dst) /\ AtPrompt /\ Under(dst, cmd.dst) /\ cmd.dst = dst
  BY UnderItself DEF Cp, Begin
<1>2. DOMAIN files \subseteq Path
  BY <1>1, PromptFacts
<1>3. CASE FileCopy(src, dst, <<>>)
  <2>1. Within(cmd.dst) /\ calls' \in StacksFor(cmd)
    BY <1>1, <1>2, <1>3, EmptyStack, FileCopyKeeps
  <2> QED BY <1>1, <2>1, BeginInv
<1>4. CASE calls' = <<Call("copy", src, dst)>> /\ files' = files
  <2>1. Call("copy", src, dst) \in CallsFor(cmd)
    BY <1>1 DEF Call, CallsFor, Calls
  <2> QED BY <1>1, <1>2, <1>4, <2>1, OneCall, SameWithin, BeginInv
<1> QED BY <1>3, <1>4 DEF Cp

LEMMA MvInv ==
  ASSUME ShellInv, NEW src \in Path, NEW dst \in Path, Mv(src, dst) PROVE ShellInv'
<1> DEFINE cmd == [name |-> "mv", src |-> src, dst |-> dst]
           rename == Call("rename", src, dst)
           remove == Call("remove", dst, dst)
<1>1. Begin("mv", src, dst) /\ AtPrompt
  BY DEF Mv, Begin
<1>2. calls = <<>> /\ DOMAIN files \subseteq Path /\ Under(dst, dst)
  BY <1>1, PromptFacts, UnderItself
<1>3. /\ rename \in CallsFor(cmd)
      /\ remove \in CallsFor(cmd) /\ remove.proc # "rename"
  BY <1>2 DEF Call, CallsFor, Calls
<1>4. files' = files \/ files' = Drop(files, dst)
  BY DEF Mv, RemoveFile, Attempt, Declined
<1>5. \/ calls' = <<>>
      \/ calls' = <<rename>>
      \/ calls' = <<remove>> \o <<rename>>
  BY <1>2 DEF Mv
<1> HIDE DEF rename, remove
<1>6. calls' \in StacksFor(cmd)
  BY <1>3, <1>5, EmptyStack, OneCall, PushFacts
<1>7. Within(dst)
  BY <1>2, <1>4, DropWithin
<1> QED BY <1>1, <1>6, <1>7, BeginInv

LEMMA CatInv ==
  ASSUME ShellInv, NEW p1 \in Path, NEW p2 \in Path, NEW p3 \in Path, Cat(p1, p2, p3)
  PROVE  ShellInv'
<1> DEFINE cmd == [name |-> "cat", src |-> p1, dst |-> p3]
           c == Call("cat", p2, p3)
<1>1. Begin("cat", p1, p3) /\ AtPrompt
  BY DEF Cat, Begin
<1>2. calls = <<>> /\ DOMAIN files \subseteq Path /\ Under(p3, p3)
  BY <1>1, PromptFacts, UnderItself
<1>3. c \in CallsFor(cmd)
  BY <1>2 DEF Call, CallsFor, Calls
<1> HIDE DEF c
<1>4. calls' = <<>> \/ calls' = <<c>>
  BY <1>2 DEF Cat, c
<1>5. calls' \in StacksFor(cmd)
  BY <1>3, <1>4, EmptyStack, OneCall
<1>6. \/ files' = files
      \/ files' = Put(files, p3, IF Exists(files, p3) THEN files[p3] ELSE File(<<>>))
  BY DEF Cat, Declined
<1>7. Within(p3)
  BY <1>2, <1>6, PutWithin
<1> QED BY <1>1, <1>5, <1>7, BeginInv

LEMMA SaveFileInv ==
  ASSUME ShellInv, NEW p \in Path, NEW d, SaveFile(p, d) PROVE ShellInv'
<1>1. /\ files' = Put(files, p, File(<<d>>)) /\ ~Busy /\ DOMAIN files \subseteq Path
      /\ UNCHANGED <<calls, command, start>>
  BY PromptFacts DEF SaveFile, commandVars, AtPrompt, Busy
<1>2. DOMAIN files' \subseteq Path
  BY <1>1, PutFacts
<1> QED BY <1>1, <1>2 DEF ShellInv, Busy

LEMMA EnterInv == ASSUME ShellInv, Enter PROVE ShellInv'
<1>1. Typed \subseteq Path
  BY DEF Typed, Paths, BoundedSeq, SeqOf, Path
<1>2. DOMAIN files \subseteq Path
  BY DEF ShellInv
<1>3. PICK p \in Typed :
        \/ MkDir(p) \/ Rm(p) \/ RmDir(p)
        \/ \E src \in DOMAIN files \ {<<>>} : Cp(src, p) \/ Mv(src, p)
        \/ \E d \in Data : SaveFile(p, d)
        \/ \E p1, p2 \in DOMAIN files : Cat(p1, p2, p)
  BY DEF Enter
<1> QED BY <1>1, <1>2, <1>3, MkDirInv, RmInv, RmDirInv, CpInv, MvInv, SaveFileInv, CatInv

-----------------------------------------------------------------------------
(* The theorems.                                                           *)

LEMMA InitInv == Init => ShellInv
<1> SUFFICES ASSUME Init PROVE ShellInv
  OBVIOUS
<1>1. <<>> \in Path /\ DOMAIN files \subseteq Path /\ command = NoCommand /\ calls = <<>>
  BY DEF Init, Path
<1> QED BY <1>1, EmptyStack DEF ShellInv, Busy, NoCommand

LEMMA NextInv == ShellInv /\ [Next]_vars => ShellInv'
<1> SUFFICES ASSUME ShellInv, [Next]_vars PROVE ShellInv'
  OBVIOUS
<1>1. CASE Start
  BY <1>1 DEF Start, ShellInv, commandVars, Busy, SameElsewhere, InTarget, InPlace, Arrived
<1>2. CASE Kill
  BY <1>2, EndsInv DEF Kill, ShellInv
<1>3. CASE Enter
  BY <1>3, EnterInv
<1>4. CASE Step
  BY <1>4, StepInv
<1>5. CASE UNCHANGED vars
  BY <1>5 DEF vars, ShellInv, commandVars, Busy, SameElsewhere, InTarget, InPlace, Arrived
<1> QED BY <1>1, <1>2, <1>3, <1>4, <1>5 DEF Next

LEMMA ShellInvHolds == Spec => []ShellInv
BY InitInv, NextInv, PTL DEF Spec

\* No command changes anything outside its target, or outside source and target
\* of mv: not in the middle of a recursion of any depth, not after any failure.
THEOREM NothingElseTouched == Spec => []OnlyTargetChanges
<1>1. ShellInv => OnlyTargetChanges
  BY DEF ShellInv, SameElsewhere, OnlyTargetChanges
<1> QED BY <1>1, ShellInvHolds, PTL

\* Whatever fails and wherever the process ends, what mv moves to an unrelated
\* path is whole at one of the two places.
THEOREM MovedIsSomewhere == Spec => []MoveLosesNothing
<1>1. ShellInv => MoveLosesNothing
  BY DEF ShellInv, InPlace, Arrived, MoveLosesNothing
<1> QED BY <1>1, ShellInvHolds, PTL

-----------------------------------------------------------------------------
(* The drive stays a drive, and every variable of its kind. What has to be *)
(* known besides is that a call that writes is the running one, and that   *)
(* its files are there, unless it is stuck in its loop.                    *)

Plain == {c \in Calls : c.proc \notin {"write", "cat"}}
Writing(t, src, dst, rest) ==
  /\ src \in Path /\ dst \in Path /\ rest \in Seq(Plain)
  /\ calls = <<Call("write", src, dst)>> \o rest
  /\ IsFile(t, src) /\ IsFile(t, dst)
\* cat, whose target only gets longer.
Catting(t, src, dst) ==
  /\ src \in Path /\ dst \in Path
  /\ calls = <<Call("cat", src, dst)>>
  /\ IsFile(t, command.src) /\ Exists(t, src) /\ IsFile(t, dst)
  /\ Exists(start, dst) => Len(start[dst].data) <= Len(t[dst].data)
Stuck ==
  calls \in Seq(Calls) /\ calls # <<>> /\ Top.proc \in {"write", "cat"} /\ Top.at = "stuck"
GoodCalls ==
  \/ calls \in Seq(Plain)
  \/ \E src, dst, rest : Writing(files, src, dst, rest)
  \/ \E src, dst : Catting(files, src, dst)
  \/ Stuck

Commands ==
  [name : {"none", "mkdir", "rm", "rmdir", "cp", "mv", "cat"}, src : Path, dst : Path]

TypeInv ==
  /\ IsDrive(files)
  /\ up \in BOOLEAN /\ clean \in BOOLEAN
  /\ GoodCalls
  /\ command \in Commands
  /\ IF Busy THEN IsDrive(start) ELSE start = Nowhere /\ calls = <<>> /\ clean

LEMMA CallFacts ==
  ASSUME NEW proc \in {"remove", "copy", "write", "rename", "cat"},
         NEW src \in Path, NEW dst \in Path
  PROVE  Call(proc, src, dst) \in Calls /\ Call(proc, src, dst).proc = proc
BY DEF Call, Calls

LEMMA WritingFacts ==
  ASSUME NEW src \in Path, NEW dst \in Path, NEW rest \in Seq(Plain)
  PROVE  LET s == <<Call("write", src, dst)>> \o rest
         IN /\ s \in Seq(Calls) /\ s # <<>>
            /\ Head(s) = Call("write", src, dst) /\ Tail(s) = rest
<1> DEFINE c == Call("write", src, dst)
<1>1. c \in Calls
  BY CallFacts
<1> HIDE DEF c
<1>2. rest \in Seq(Calls) /\ <<c>> \in Seq(Calls)
  BY <1>1, SeqMonotonic DEF Plain
<1>3. <<c>> \o rest \in Seq(Calls) /\ Len(<<c>> \o rest) = 1 + Len(rest) /\ Len(rest) \in Nat
  BY <1>2, ConcatProperties, LenProperties
<1>4. <<c>> \o rest # <<>>
  BY <1>3, EmptySeq
<1>5. Head(<<c>> \o rest) = c /\ Tail(<<c>> \o rest) = rest
  BY <1>2
<1> QED BY <1>3, <1>4, <1>5 DEF c

LEMMA CattingFacts ==
  ASSUME NEW src, NEW dst, Catting(files, src, dst)
  PROVE  /\ calls \in Seq(Calls) /\ Top = Call("cat", src, dst) /\ Rest = <<>>
         /\ Top.proc = "cat" /\ Top.src = src /\ Top.dst = dst
<1> DEFINE c == Call("cat", src, dst)
<1>1. c \in Calls /\ c.proc = "cat" /\ c.src = src /\ c.dst = dst /\ calls = <<c>>
  BY CallFacts DEF Catting, Call
<1> HIDE DEF c
<1>2. calls \in Seq(Calls) /\ Head(calls) = c /\ Tail(calls) = <<>>
  BY <1>1
<1> QED BY <1>1, <1>2 DEF Top, Rest, c

\* When the running call does not write, no call does.
LEMMA PlainTop ==
  ASSUME GoodCalls, calls # <<>>, Top.proc \notin {"write", "cat"}
  PROVE  /\ Top \in Plain /\ Rest \in Seq(Plain)
         /\ \A where \in {"call", "make", "loop"}, names \in SUBSET Names :
              At(where, names) \in Seq(Plain)
<1>1. calls \in Seq(Plain)
  <2>1. ASSUME NEW src, NEW dst, NEW rest, Writing(files, src, dst, rest) PROVE FALSE
    BY <2>1, WritingFacts, CallFacts DEF Writing, Top
  <2>2. ASSUME NEW src, NEW dst, Catting(files, src, dst) PROVE FALSE
    BY <2>2, CattingFacts
  <2> QED BY <2>1, <2>2 DEF GoodCalls, Stuck
<1>2. Top \in Plain /\ Rest \in Seq(Plain)
  BY <1>1, HeadTailProperties DEF Top, Rest
<1>3. ASSUME NEW where \in {"call", "make", "loop"}, NEW names \in SUBSET Names
      PROVE  At(where, names) \in Seq(Plain)
  <2> DEFINE c == [Top EXCEPT !.at = where, !.todo = names]
  <2>1. c \in Plain
    BY <1>2 DEF Plain, Calls
  <2> HIDE DEF c
  <2>2. <<c>> \o Rest \in Seq(Plain)
    BY <1>2, <2>1, ConcatProperties
  <2> QED BY <2>2 DEF At, c
<1> QED BY <1>2, <1>3

LEMMA PlainPush ==
  ASSUME NEW c \in Plain, NEW s \in Seq(Plain)
  PROVE  <<c>> \o s \in Seq(Plain)
BY ConcatProperties

LEMMA TextFacts ==
  ASSUME NEW data \in Seq(Data \cup {Mangled})
  PROVE  AsText(data) \in Seq(Data \cup {Mangled})
<1>1. AsText(data) \in [1 .. Len(data) -> Data \cup {Mangled}] /\ Len(data) \in Nat
  BY DataAssumption DEF AsText
<1> QED BY <1>1

LEMMA FileEntry ==
  ASSUME NEW data \in Seq(Data \cup {Mangled}) PROVE File(data) \in Entry
BY DEF File, Entry

LEMMA DirEntry == Dir \in Entry
BY DEF Dir, Entry

\* The calls that change the drive.
LEMMA AttemptType ==
  ASSUME NEW can \in BOOLEAN, NEW after, clean \in BOOLEAN, IsDrive(files), Attempt(can, after),
         can => IsDrive(after)
  PROVE  IsDrive(files') /\ clean' \in BOOLEAN
BY DEF Attempt, Declined

LEMMA RemoveFileType ==
  ASSUME clean \in BOOLEAN, IsDrive(files), NEW p \in Path, p # <<>>, RemoveFile(p)
  PROVE  IsDrive(files') /\ clean' \in BOOLEAN
<1>1. CanRemoveFile(files, p) => IsDrive(Drop(files, p))
  BY DropDrive DEF CanRemoveFile
<1>2. CanRemoveFile(files, p) \in BOOLEAN
  BY DEF CanRemoveFile, IsFile
<1> QED BY <1>1, <1>2, AttemptType DEF RemoveFile

LEMMA RemoveDirType ==
  ASSUME clean \in BOOLEAN, IsDrive(files), NEW p \in Path, RemoveEmptyDir(p)
  PROVE  IsDrive(files') /\ clean' \in BOOLEAN
<1>1. CanRemoveDir(files, p) => IsDrive(Drop(files, p))
  BY DropDrive DEF CanRemoveDir
<1>2. CanRemoveDir(files, p) \in BOOLEAN
  BY DEF CanRemoveDir
<1> QED BY <1>1, <1>2, AttemptType DEF RemoveEmptyDir

LEMMA CanMakeDirDrive ==
  ASSUME IsDrive(files), NEW p \in Path, CanMakeDir(files, p)
  PROVE  IsDrive(Put(files, p, Dir))
BY PutDrive, DirEntry DEF CanMakeDir, IsDir

LEMMA CreateDirType ==
  ASSUME clean \in BOOLEAN, IsDrive(files), NEW p \in Path, CreateDir(p)
  PROVE  IsDrive(files') /\ clean' \in BOOLEAN
<1>1. CanMakeDir(files, p) \in BOOLEAN
  BY DEF CanMakeDir
<1> QED BY <1>1, CanMakeDirDrive, AttemptType DEF CreateDir

LEMMA FileCopyType ==
  ASSUME clean \in BOOLEAN, IsDrive(files), NEW src \in Path, NEW dst \in Path,
         NEW rest \in Seq(Plain), FileCopy(src, dst, rest)
  PROVE  IsDrive(files') /\ clean' \in BOOLEAN /\ GoodCalls'
<1>1. CASE calls' = rest /\ files' = files /\ clean' \in BOOLEAN
  BY <1>1 DEF GoodCalls
<1>2. CASE /\ IsFile(files, src) /\ CanWrite(files, dst) /\ clean' = clean
           /\ files' = Put(files, dst, File(<<>>))
           /\ calls' = <<Call("write", src, dst)>> \o rest
  <2>1. File(<<>>) \in Entry
    BY EmptySeq, FileEntry
  <2>2. IsDrive(files')
    BY <1>2, <2>1, PutDrive DEF CanWrite
  <2>3. IsFile(files', src) /\ IsFile(files', dst)
    BY <1>2 DEF Put, File, IsFile, Exists
  <2> QED BY <1>2, <2>2, <2>3 DEF GoodCalls, Writing
<1> QED BY <1>1, <1>2 DEF FileCopy, Declined

LEMMA CallsType == ASSUME GoodCalls PROVE calls \in Seq(Calls)
<1>1. CASE calls \in Seq(Plain)
  BY <1>1, SeqMonotonic DEF Plain
<1>2. ASSUME NEW src, NEW dst, NEW rest, Writing(files, src, dst, rest)
      PROVE  calls \in Seq(Calls)
  BY <1>2, WritingFacts DEF Writing
<1>3. ASSUME NEW src, NEW dst, Catting(files, src, dst)
      PROVE  calls \in Seq(Calls)
  BY <1>3, CattingFacts
<1> QED BY <1>1, <1>2, <1>3 DEF GoodCalls, Stuck

\* A step of a command, and the end of the process.
LEMMA StepType ==
  ASSUME TypeInv, calls # <<>>, UNCHANGED <<up, command, start>>,
         IsDrive(files') /\ clean' \in BOOLEAN, GoodCalls'
  PROVE  TypeInv'
BY DEF TypeInv, Busy

LEMMA EndsType ==
  ASSUME Ends, IsDrive(files')
  PROVE  TypeInv'
<1>1. /\ <<>> \in Seq(Plain) /\ calls' = <<>> /\ ~Busy' /\ start' = Nowhere
      /\ clean' = TRUE /\ up' = FALSE /\ command' \in Commands
  BY EmptySeq DEF Ends, Busy, NoCommand, Commands, Path
<1> QED BY <1>1 DEF TypeInv, GoodCalls

\* Each step of dir_remove_deep, dir_copy and file_copy.
LEMMA PlainFacts ==
  ASSUME NEW c \in Plain
  PROVE  c.src \in Path /\ c.dst \in Path /\ c.todo \in SUBSET Names
BY DEF Plain, Calls

LEMMA RemoveStepsType ==
  ASSUME TypeInv, RemoveRefused \/ RemoveList \/ RemoveEntry \/ RemoveSelf
  PROVE  TypeInv'
<1>1. calls # <<>> /\ Top.proc = "remove" /\ GoodCalls /\ IsDrive(files) /\ clean \in BOOLEAN
  BY DEF TypeInv, RemoveRefused, RemoveList, RemoveEntry, RemoveSelf, Running, Top
<1>2. Top \in Plain /\ Rest \in Seq(Plain)
  BY <1>1, PlainTop
<1>3. Top.src \in Path /\ Top.todo \in SUBSET Names
  BY <1>2, PlainFacts
<1>4. CASE RemoveRefused
  <2>1. GoodCalls' /\ files' = files /\ clean' = clean /\ UNCHANGED <<up, command, start>>
    BY <1>2, <1>4 DEF RemoveRefused, GoodCalls, commandVars
  <2> QED BY <1>1, <2>1, StepType
<1>5. CASE RemoveList
  <2>1. CASE NullList
    BY <1>1, <2>1, EndsType DEF NullList
  <2>2. CASE ~NullList
    <3>1. /\ calls' = At("loop", Entries(files, Top.src))
          /\ files' = files /\ clean' = clean /\ UNCHANGED <<up, command, start>>
      BY <1>5, <2>2 DEF RemoveList, commandVars
    <3>2. GoodCalls'
      BY <1>1, <3>1, PlainTop DEF Entries, GoodCalls
    <3> QED BY <1>1, <3>1, <3>2, StepType
  <2> QED BY <2>1, <2>2
<1>6. CASE RemoveEntry
  <2>1. PICK n \in Top.todo :
          \/ RemoveFile(Append(Top.src, n)) /\ calls' = Without(n)
          \/ /\ calls' = <<Call("remove", Append(Top.src, n), Append(Top.src, n))>> \o Without(n)
             /\ UNCHANGED <<files, clean>>
    BY <1>6 DEF RemoveEntry
  <2> DEFINE q == Append(Top.src, n)
  <2>2. q \in Path /\ q # <<>>
    BY <1>3, AppendProperties DEF Path
  <2>3. Without(n) \in Seq(Plain)
    BY <1>1, <1>3, PlainTop DEF Without
  <2> HIDE DEF q
  <2>4. Call("remove", q, q) \in Plain
    BY <2>2, CallFacts DEF Plain
  <2>5. GoodCalls'
    BY <2>1, <2>3, <2>4, PlainPush DEF GoodCalls, q
  <2>6. IsDrive(files') /\ clean' \in BOOLEAN
    BY <1>1, <2>1, <2>2, RemoveFileType DEF q
  <2>7. UNCHANGED <<up, command, start>>
    BY <1>6 DEF RemoveEntry, commandVars
  <2> QED BY <1>1, <2>5, <2>6, <2>7, StepType
<1>7. CASE RemoveSelf
  <2>1. RemoveEmptyDir(Top.src) /\ GoodCalls' /\ UNCHANGED <<up, command, start>>
    BY <1>2, <1>7 DEF RemoveSelf, GoodCalls, commandVars
  <2>2. IsDrive(files') /\ clean' \in BOOLEAN
    BY <1>1, <1>3, <2>1, RemoveDirType
  <2> QED BY <1>1, <2>1, <2>2, StepType
<1> QED BY <1>4, <1>5, <1>6, <1>7

LEMMA CopyStepsType ==
  ASSUME TypeInv, CopyRefused \/ CopyBegin \/ CopyMake \/ CopyEntry \/ CopyReturns
  PROVE  TypeInv'
<1>1. calls # <<>> /\ Top.proc = "copy" /\ GoodCalls /\ IsDrive(files) /\ clean \in BOOLEAN
  BY DEF TypeInv, CopyRefused, CopyBegin, CopyMake, CopyEntry, CopyReturns, Running, Top
<1>2. Top \in Plain /\ Rest \in Seq(Plain)
  BY <1>1, PlainTop
<1>3. Top.src \in Path /\ Top.dst \in Path /\ Top.todo \in SUBSET Names
  BY <1>2, PlainFacts
<1>4. CASE CopyRefused \/ CopyReturns
  <2>1. /\ GoodCalls' /\ files' = files /\ clean' \in BOOLEAN /\ UNCHANGED <<up, command, start>>
    BY <1>1, <1>2, <1>4 DEF CopyRefused, CopyReturns, Declined, GoodCalls, commandVars
  <2> QED BY <1>1, <2>1, StepType
<1>5. CASE CopyBegin
  <2> DEFINE c == Call("remove", Top.dst, Top.dst)
  <2>1. /\ files' = files /\ clean' = clean /\ UNCHANGED <<up, command, start>>
        /\ calls' = <<c>> \o At("make", {}) \/ calls' = <<>> \o At("make", {})
    BY <1>5 DEF CopyBegin, commandVars
  <2>2. At("make", {}) \in Seq(Plain)
    BY <1>1, PlainTop
  <2>3. c \in Plain
    BY <1>3, CallFacts DEF Plain
  <2> HIDE DEF c
  <2>4. GoodCalls'
    BY <2>1, <2>2, <2>3, PlainPush, ConcatEmptySeq DEF GoodCalls
  <2> QED BY <1>1, <2>1, <2>4, StepType
<1>6. CASE CopyMake
  <2>1. CASE Ends
    <3>1. files' = files \/ (CanMakeDir(files, Top.dst) /\ files' = Put(files, Top.dst, Dir))
      BY <1>6 DEF CopyMake, CreateDir, Attempt, Declined
    <3> QED BY <1>1, <1>3, <2>1, <3>1, CanMakeDirDrive, EndsType
  <2>2. CASE ~Ends
    <3>1. /\ CreateDir(Top.dst) /\ calls' = At("loop", Entries(files', Top.src))
          /\ UNCHANGED <<up, command, start>>
      BY <1>6, <2>2 DEF CopyMake, commandVars
    <3>2. IsDrive(files') /\ clean' \in BOOLEAN
      BY <1>1, <1>3, <3>1, CreateDirType
    <3>3. GoodCalls'
      BY <1>1, <3>1, PlainTop DEF Entries, GoodCalls
    <3> QED BY <1>1, <3>1, <3>2, <3>3, StepType
  <2> QED BY <2>1, <2>2
<1>7. CASE CopyEntry
  <2>1. PICK n \in Top.todo :
          \/ FileCopy(Append(Top.src, n), Append(Top.dst, n), Without(n))
          \/ /\ calls' = <<Call("copy", Append(Top.src, n), Append(Top.dst, n))>> \o Without(n)
             /\ UNCHANGED <<files, clean>>
    BY <1>7 DEF CopyEntry
  <2> DEFINE src == Append(Top.src, n)
             dst == Append(Top.dst, n)
  <2>2. src \in Path /\ dst \in Path
    BY <1>3, AppendProperties DEF Path
  <2>3. Without(n) \in Seq(Plain)
    BY <1>1, <1>3, PlainTop DEF Without
  <2> HIDE DEF src, dst
  <2>4. UNCHANGED <<up, command, start>>
    BY <1>7 DEF CopyEntry, commandVars
  <2>5. CASE FileCopy(src, dst, Without(n))
    BY <1>1, <2>2, <2>3, <2>4, <2>5, FileCopyType, StepType
  <2>6. CASE calls' = <<Call("copy", src, dst)>> \o Without(n) /\ UNCHANGED <<files, clean>>
    <3>1. Call("copy", src, dst) \in Plain
      BY <2>2, CallFacts DEF Plain
    <3>2. GoodCalls'
      BY <2>3, <2>6, <3>1, PlainPush DEF GoodCalls
    <3> QED BY <1>1, <2>4, <2>6, <3>2, StepType
  <2> QED BY <2>1, <2>5, <2>6 DEF src, dst
<1> QED BY <1>4, <1>5, <1>6, <1>7

LEMMA FileCopyWriteType == ASSUME TypeInv, FileCopyWrite PROVE TypeInv'
<1>1. /\ calls # <<>> /\ Top.proc = "write" /\ Top.at = "call"
      /\ GoodCalls /\ IsDrive(files) /\ clean \in BOOLEAN
  BY DEF TypeInv, FileCopyWrite, Running, Top
<1>2. calls \notin Seq(Plain)
  BY <1>1, HeadTailProperties DEF Top, Plain
<1>3. PICK src, dst, rest : Writing(files, src, dst, rest)
  BY <1>1, <1>2, CattingFacts DEF GoodCalls, Stuck
<1>4. /\ src \in Path /\ dst \in Path /\ rest \in Seq(Plain)
      /\ IsFile(files, src) /\ IsFile(files, dst)
      /\ Top = Call("write", src, dst) /\ Rest = rest
  BY <1>3, WritingFacts DEF Writing, Top, Rest
<1>5. Top.src = src /\ Top.dst = dst
  BY <1>4 DEF Call
<1> DEFINE e == File(AsText(files[src].data))
<1>6. e \in Entry
  <2>1. files[src].data \in Seq(Data \cup {Mangled})
    BY <1>1, <1>4 DEF IsDrive, IsFile, Exists, Entry
  <2> QED BY <2>1, TextFacts, FileEntry
<1> HIDE DEF e
<1>7. IsDrive(Put(files, dst, e))
  BY <1>1, <1>4, <1>6, RewriteDrive
<1>8. /\ Attempt(TRUE, Put(files, dst, e)) /\ calls' = rest /\ UNCHANGED <<up, command, start>>
  BY <1>4, <1>5 DEF FileCopyWrite, commandVars, e
<1>9. IsDrive(files') /\ clean' \in BOOLEAN
  BY <1>1, <1>7, <1>8 DEF Attempt, Declined
<1>10. GoodCalls'
  BY <1>4, <1>8 DEF GoodCalls
<1> QED BY <1>1, <1>8, <1>9, <1>10, StepType

\* A call that gets stuck is still one of the calls.
LEMMA ReadFailsType == ASSUME TypeInv, ReadFails PROVE TypeInv'
<1>1. /\ calls # <<>> /\ calls' = At("stuck", {}) /\ Top.proc \in {"write", "cat"}
      /\ files' = files /\ clean' = FALSE /\ UNCHANGED <<up, command, start>>
  BY ReadStops
<1>2. calls \in Seq(Calls)
  BY CallsType DEF TypeInv
<1>3. Top \in Calls /\ Rest \in Seq(Calls)
  BY <1>1, <1>2, HeadTailProperties DEF Top, Rest
<1> DEFINE d == [Top EXCEPT !.at = "stuck", !.todo = {}]
<1>4. d \in Calls /\ d.at = "stuck" /\ d.proc \in {"write", "cat"}
  BY <1>1, <1>3 DEF Calls
<1>5. calls' = <<d>> \o Rest
  BY <1>1 DEF At
<1> HIDE DEF d
<1>6. calls' \in Seq(Calls) /\ calls' # <<>> /\ Head(calls') = d
  BY <1>3, <1>4, <1>5
<1>7. GoodCalls'
  BY <1>4, <1>6 DEF GoodCalls, Stuck, Top
<1> QED BY <1>1, <1>7, StepType DEF TypeInv

\* The steps of cat: what it reads and writes is there, and the block it reads is
\* before the end it has moved on.
LEMMA CatRunning ==
  ASSUME TypeInv, CatStep
  PROVE  /\ Catting(files, Top.src, Top.dst) /\ Rest = <<>> /\ calls # <<>>
         /\ IsDrive(files) /\ IsDrive(start) /\ clean \in BOOLEAN
<1>1. calls # <<>> /\ Top.proc = "cat" /\ Top.at = "call"
  BY CatRuns
<1>2. /\ GoodCalls /\ IsDrive(files) /\ IsDrive(start) /\ clean \in BOOLEAN
  BY <1>1 DEF TypeInv
<1>3. calls \notin Seq(Plain)
  BY <1>1, HeadTailProperties DEF Top, Plain
<1>4. ASSUME NEW src, NEW dst, NEW rest PROVE ~Writing(files, src, dst, rest)
  <2>1. Call("write", src, dst).proc = "write"
    BY DEF Call
  <2> QED BY <1>1, <2>1, WritingFacts DEF Writing, Top
<1>5. PICK src, dst : Catting(files, src, dst)
  BY <1>1, <1>2, <1>3, <1>4 DEF GoodCalls, Stuck
<1> QED BY <1>1, <1>2, <1>5, CattingFacts

LEMMA CatStepType == ASSUME TypeInv, CatStep PROVE TypeInv'
<1> DEFINE dst == Top.dst
           kinds == Data \cup {Mangled}
<1>1. /\ Catting(files, Top.src, dst) /\ Rest = <<>> /\ calls # <<>>
      /\ IsDrive(files) /\ IsDrive(start) /\ clean \in BOOLEAN
  BY CatRunning
<1>2. /\ dst \in Path /\ IsFile(files, dst) /\ IsFile(files, command.src)
      /\ Exists(files, Top.src) /\ Exists(files, dst)
  BY <1>1 DEF Catting, IsFile
<1>3. /\ \A p \in DOMAIN files : files[p].data \in Seq(kinds)
      /\ \A p \in DOMAIN start : start[p].data \in Seq(kinds)
  BY <1>1 DEF IsDrive, Entry
<1>4. files[dst].data \in Seq(kinds) /\ files[command.src].data \in Seq(kinds)
      /\ files[Top.src].data \in Seq(kinds)
  BY <1>2, <1>3 DEF IsFile, Exists
<1>5. ASSUME NEW data \in Seq(kinds), files' = Put(files, dst, File(data))
      PROVE  IsDrive(files')
  <2>1. File(data) \in Entry
    BY <1>5, FileEntry
  <2> QED BY <1>1, <1>2, <1>5, <2>1, RewriteDrive
<1>6. CASE CatCopies \/ CatFillsDisk
  <2> DEFINE text == CatText(command.src, Top.src, dst)
  <2>1. text \in Seq(kinds)
    <3>1. AsText(files[command.src].data) \in Seq(kinds) /\ AsText(files[Top.src].data) \in Seq(kinds)
      BY <1>4, TextFacts
    <3>2. files[dst].data \o AsText(files[command.src].data) \in Seq(kinds)
      BY <1>4, <3>1, ConcatProperties
    <3>3. (files[dst].data \o AsText(files[command.src].data)) \o AsText(files[Top.src].data) \in Seq(kinds)
      BY <3>1, <3>2, ConcatProperties
    <3> QED BY <1>2, <3>3 DEF CatText
  <2> HIDE DEF text
  <2>2. /\ calls' = Rest /\ UNCHANGED <<up, command, start>> /\ clean' \in BOOLEAN
        /\ files' = files \/ files' = Put(files, dst, File(text))
    BY <1>1, <1>6 DEF CatCopies, CatFillsDisk, Attempt, Declined, commandVars, text
  <2>3. IsDrive(files')
    BY <1>1, <1>5, <2>1, <2>2
  <2>4. GoodCalls'
    BY <1>1, <2>2, EmptySeq DEF GoodCalls
  <2> QED BY <1>1, <2>2, <2>3, <2>4, StepType
<1>7. CASE CatGrows
  <2> DEFINE old == files[dst].data
             read == (IF command.src = dst THEN <<>> ELSE files[command.src].data) \o old
             at == Len(old) - Len(start[dst].data) + 1
             new == old \o AsText(<<read[at]>>)
  <2>1. /\ ReadsItself(start, command.src, Top.src, dst)
        /\ files' = Put(files, dst, File(new))
        /\ UNCHANGED <<calls, clean, up, command, start>>
    BY <1>7 DEF CatGrows, commandVars
  <2>2. /\ Exists(start, dst) /\ Len(start[dst].data) \in Nat \ {0} /\ Len(old) \in Nat
        /\ Len(start[dst].data) <= Len(old)
    <3>1. Exists(start, dst) /\ Len(start[dst].data) >= BUFFER /\ BUFFER \in Nat \ {0}
      BY <2>1, BufferAssumption DEF ReadsItself
    <3>2. start[dst].data \in Seq(kinds)
      BY <1>3, <3>1 DEF Exists
    <3>3. Len(start[dst].data) \in Nat /\ Len(old) \in Nat
      BY <1>4, <3>2, LenProperties
    <3>4. Len(start[dst].data) <= Len(old)
      BY <1>1, <3>1 DEF Catting
    <3> QED BY <3>1, <3>3, <3>4
  <2>3. read \in Seq(kinds) /\ Len(read) \in Nat /\ Len(read) >= Len(old)
    <3>1. <<>> \in Seq(kinds) /\ old \in Seq(kinds)
      BY <1>4, EmptySeq
    <3>2. \A s, t \in Seq(kinds) : /\ s \o t \in Seq(kinds) /\ Len(s) \in Nat /\ Len(t) \in Nat
                                  /\ Len(s \o t) = Len(s) + Len(t)
      OBVIOUS
    <3>3. PICK s \in Seq(kinds) : read = s \o old
      BY <1>4, <3>1
    <3> HIDE DEF read, old
    <3> QED BY <3>1, <3>2, <3>3
  <2> HIDE DEF read
  <2>4. at \in 1 .. Len(read)
    BY <2>2, <2>3
  <2> HIDE DEF at
  <2>5. read[at] \in kinds
    BY <2>3, <2>4
  <2>6. AsText(<<read[at]>>) \in Seq(kinds)
    <3>1. <<read[at]>> \in Seq(kinds)
      BY <2>5
    <3> QED BY <3>1, TextFacts
  <2>7. new \in Seq(kinds) /\ Len(new) >= Len(old)
    <3>1. \A s, t \in Seq(kinds) : s \o t \in Seq(kinds) /\ Len(s \o t) >= Len(s)
      OBVIOUS
    <3> QED BY <1>4, <2>6, <3>1
  <2> HIDE DEF new
  <2>8. IsDrive(files')
    BY <1>5, <2>1, <2>7
  <2>9. /\ DOMAIN files' = DOMAIN files /\ files'[dst] = File(new)
        /\ \A q \in DOMAIN files : q # dst => files'[q] = files[q]
    BY <1>2, <2>1 DEF Put, IsFile, Exists
  <2>10. Catting(files', Top.src, dst)
    <3>1. IsFile(files', command.src) /\ IsFile(files', dst) /\ Exists(files', Top.src)
      BY <1>2, <2>9 DEF IsFile, Exists, File
    <3>2. Len(start[dst].data) <= Len(files'[dst].data)
      <4>1. files'[dst].data = new /\ Len(new) \in Nat
        BY <2>7, <2>9, LenProperties DEF File
      <4> QED BY <2>2, <2>7, <4>1
    <3> QED BY <1>1, <3>1, <3>2 DEF Catting
  <2>11. GoodCalls'
    <3>1. PICK a, b : a = Top.src /\ b = dst
      OBVIOUS
    <3>2. Catting(files, a, b)'
      BY <2>1, <2>10, <3>1 DEF Catting
    <3> QED BY <3>2 DEF GoodCalls
  <2> QED BY <1>1, <2>1, <2>8, <2>11, StepType
<1>8. CASE CatNoSecond
  BY <1>1, <1>8, EndsType DEF CatNoSecond
<1> QED BY <1>6, <1>7, <1>8 DEF CatStep

LEMMA RenameType == ASSUME TypeInv, Rename PROVE TypeInv'
<1>1. calls # <<>> /\ Top.proc = "rename" /\ GoodCalls /\ IsDrive(files) /\ clean \in BOOLEAN
  BY DEF TypeInv, Rename, Running, Top
<1>2. Top \in Plain /\ Rest \in Seq(Plain)
  BY <1>1, PlainTop
<1>3. Top.src \in Path /\ Top.dst \in Path
  BY <1>2, PlainFacts
<1>4. CanRename(files, Top.src, Top.dst) => IsDrive(Renamed(files, Top.src, Top.dst))
  BY <1>1, <1>3, RenamedDrive
<1>5. CanRename(files, Top.src, Top.dst) \in BOOLEAN
  BY DEF CanRename
<1>6. /\ Attempt(CanRename(files, Top.src, Top.dst), Renamed(files, Top.src, Top.dst))
      /\ GoodCalls' /\ UNCHANGED <<up, command, start>>
  BY <1>2 DEF Rename, GoodCalls, commandVars
<1> QED BY <1>1, <1>4, <1>5, <1>6, AttemptType, StepType

LEMMA ReturnType == ASSUME TypeInv, Return PROVE TypeInv'
<1>1. /\ calls' = <<>> /\ ~Busy' /\ start' = Nowhere /\ clean' = TRUE
      /\ command' \in Commands /\ files' = files /\ up' = up
  BY DEF Return, Done, Busy, NoCommand, Commands, Path
<1> QED BY <1>1, EmptySeq DEF TypeInv, GoodCalls

\* A command is entered.
LEMMA BeginType ==
  ASSUME TypeInv, NEW name \in {"mkdir", "rm", "rmdir", "cp", "mv", "cat"},
         NEW src \in Path, NEW dst \in Path, Begin(name, src, dst),
         IsDrive(files') /\ clean' \in BOOLEAN, GoodCalls'
  PROVE  TypeInv'
<1>1. /\ command' \in Commands /\ command' # NoCommand /\ start' = files /\ up' = up
  BY DEF Begin, Commands, NoCommand
<1> QED BY <1>1 DEF TypeInv, Busy

LEMMA PromptType ==
  ASSUME TypeInv, AtPrompt
  PROVE  calls = <<>> /\ clean = TRUE /\ IsDrive(files) /\ calls \in Seq(Plain)
BY EmptySeq DEF TypeInv, AtPrompt, Busy

LEMMA OnePathType ==
  ASSUME TypeInv, NEW p \in Path, p # <<>>, MkDir(p) \/ Rm(p) \/ RmDir(p)
  PROVE  TypeInv'
<1>1. /\ AtPrompt
      /\ \E name \in {"mkdir", "rm", "rmdir"} : Begin(name, p, p)
  BY DEF MkDir, Rm, RmDir, Begin
<1>2. calls \in Seq(Plain) /\ clean = TRUE /\ IsDrive(files)
  BY <1>1, PromptType
<1>3. IsDrive(files') /\ clean' \in BOOLEAN
  BY <1>2, CreateDirType, RemoveFileType DEF MkDir, Rm, RmDir
<1>4. Call("remove", p, p) \in Plain
  BY CallFacts DEF Plain
<1>5. GoodCalls'
  <2>1. calls' = calls \/ calls' = <<Call("remove", p, p)>>
    BY DEF MkDir, Rm, RmDir
  <2>2. <<Call("remove", p, p)>> \in Seq(Plain)
    BY <1>4
  <2> QED BY <1>2, <2>1, <2>2 DEF GoodCalls
<1> QED BY <1>1, <1>3, <1>5, BeginType

LEMMA CpType ==
  ASSUME TypeInv, NEW src \in Path, NEW dst \in Path, Cp(src, dst) PROVE TypeInv'
<1>1. AtPrompt /\ Begin("cp", src, dst)
  BY DEF Cp, Begin
<1>2. clean = TRUE /\ IsDrive(files) /\ <<>> \in Seq(Plain)
  BY <1>1, PromptType, EmptySeq
<1>3. CASE FileCopy(src, dst, <<>>)
  BY <1>1, <1>2, <1>3, FileCopyType, BeginType
<1>4. CASE calls' = <<Call("copy", src, dst)>> /\ UNCHANGED <<files, clean>>
  <2>1. Call("copy", src, dst) \in Plain
    BY CallFacts DEF Plain
  <2>2. <<Call("copy", src, dst)>> \in Seq(Plain)
    BY <2>1
  <2>3. GoodCalls'
    BY <1>4, <2>2 DEF GoodCalls
  <2> QED BY <1>1, <1>2, <1>4, <2>3, BeginType
<1> QED BY <1>3, <1>4 DEF Cp

LEMMA MvType ==
  ASSUME TypeInv, NEW src \in Path, NEW dst \in Path, dst # <<>>, Mv(src, dst) PROVE TypeInv'
<1> DEFINE rename == Call("rename", src, dst)
           remove == Call("remove", dst, dst)
<1>1. AtPrompt /\ Begin("mv", src, dst)
  BY DEF Mv, Begin
<1>2. calls = <<>> /\ clean = TRUE /\ IsDrive(files)
  BY <1>1, PromptType
<1>3. rename \in Plain /\ remove \in Plain
  BY CallFacts DEF Plain
<1>4. \/ calls' = <<>>
      \/ calls' = <<rename>>
      \/ calls' = <<remove>> \o <<rename>>
  BY <1>2 DEF Mv
<1>5. IsDrive(files') /\ clean' \in BOOLEAN
  BY <1>2, RemoveFileType DEF Mv, Declined
<1> HIDE DEF rename, remove
<1>6. <<>> \in Seq(Plain) /\ <<rename>> \in Seq(Plain)
  BY <1>3, EmptySeq
<1>7. GoodCalls'
  BY <1>3, <1>4, <1>6, PlainPush DEF GoodCalls
<1> QED BY <1>1, <1>5, <1>7, BeginType

LEMMA CatType ==
  ASSUME TypeInv, NEW p1 \in Path, NEW p2 \in Path, NEW p3 \in Path, Cat(p1, p2, p3)
  PROVE  TypeInv'
<1> DEFINE e == IF Exists(files, p3) THEN files[p3] ELSE File(<<>>)
           c == Call("cat", p2, p3)
<1>1. /\ AtPrompt /\ Begin("cat", p1, p3)
      /\ IsFile(files, p1) /\ Exists(files, p2) /\ CanWrite(files, p3)
  BY DEF Cat, Begin
<1>2. calls = <<>> /\ calls \in Seq(Plain) /\ clean = TRUE /\ IsDrive(files)
  BY <1>1, PromptType
<1>3. e \in Entry /\ ~e.dir
  <2>1. File(<<>>) \in Entry /\ ~File(<<>>).dir
    BY EmptySeq, FileEntry DEF File
  <2>2. Exists(files, p3) => files[p3] \in Entry /\ ~files[p3].dir
    BY <1>1, <1>2 DEF Exists, IsDrive, CanWrite, IsDir
  <2> QED BY <2>1, <2>2
<1> HIDE DEF c
<1>4. CASE Declined /\ calls' = calls
  <2>1. IsDrive(files') /\ clean' \in BOOLEAN /\ GoodCalls'
    BY <1>2, <1>4 DEF Declined, GoodCalls
  <2> QED BY <1>1, <2>1, BeginType
<1>5. CASE files' = Put(files, p3, e) /\ calls' = <<c>> /\ clean' = clean
  <2> HIDE DEF e
  <2>1. IsDrive(files')
    BY <1>1, <1>2, <1>3, <1>5, PutDrive DEF CanWrite
  <2>2. /\ DOMAIN files' = DOMAIN files \cup {p3} /\ files'[p3] = e
        /\ \A q \in DOMAIN files : q # p3 => files'[q] = files[q]
    BY <1>5 DEF Put
  <2>3. IsFile(files', p1) /\ Exists(files', p2) /\ IsFile(files', p3)
    BY <1>1, <1>3, <2>2 DEF IsFile, Exists
  <2>4. command'.src = p1 /\ start' = files
    BY <1>1 DEF Begin
  <2>5. Exists(files, p3) => files'[p3] = files[p3]
    BY <2>2 DEF e
  <2>6. Exists(files, p3) => Len(files[p3].data) <= Len(files'[p3].data)
    <3>1. ASSUME Exists(files, p3) PROVE Len(files[p3].data) \in Nat
      BY <1>2, <3>1, LenProperties DEF Exists, IsDrive, Entry
    <3> QED BY <2>5, <3>1
  <2>7. Catting(files, p2, p3)'
    BY <1>5, <2>3, <2>4, <2>6 DEF Catting, c
  <2>8. GoodCalls'
    BY <2>7 DEF GoodCalls
  <2> QED BY <1>1, <1>2, <1>5, <2>1, <2>8, BeginType
<1> QED BY <1>4, <1>5 DEF Cat, e, c

LEMMA SaveFileType ==
  ASSUME TypeInv, NEW p \in Path, NEW d \in Data, SaveFile(p, d) PROVE TypeInv'
<1>1. /\ AtPrompt /\ CanWrite(files, p) /\ files' = Put(files, p, File(<<d>>))
      /\ UNCHANGED <<calls, command, start, clean, up>>
  BY DEF SaveFile, commandVars
<1>2. IsDrive(files) /\ calls \in Seq(Plain)
  BY <1>1, PromptType
<1>3. <<d>> \in Seq(Data \cup {Mangled})
  OBVIOUS
<1>4. IsDrive(files')
  BY <1>1, <1>2, <1>3, FileEntry, PutDrive DEF CanWrite
<1> QED BY <1>1, <1>2, <1>4 DEF TypeInv, GoodCalls, Busy, AtPrompt

LEMMA EnterType == ASSUME TypeInv, Enter PROVE TypeInv'
<1>1. \A p \in Typed : p \in Path /\ p # <<>>
  BY EmptySeq DEF Typed, Paths, BoundedSeq, SeqOf, Path
<1>2. DOMAIN files \subseteq Path
  BY DEF TypeInv, IsDrive
<1>3. PICK p \in Typed :
        \/ MkDir(p) \/ Rm(p) \/ RmDir(p)
        \/ \E src \in DOMAIN files \ {<<>>} : Cp(src, p) \/ Mv(src, p)
        \/ \E d \in Data : SaveFile(p, d)
        \/ \E p1, p2 \in DOMAIN files : Cat(p1, p2, p)
  BY DEF Enter
<1> QED BY <1>1, <1>2, <1>3, OnePathType, CpType, MvType, SaveFileType, CatType

LEMMA InitType == Init => TypeInv
<1> SUFFICES ASSUME Init PROVE TypeInv
  OBVIOUS
<1>1. <<>> \in Path /\ files = [p \in {<<>>} |-> Dir] /\ DOMAIN files = {<<>>}
  BY DEF Init, Path
<1>2. IsDrive(files)
  <2>1. \A q \in Path : Under(<<>>, q) => q = <<>>
    BY <1>1, UnderAll, UnderEach
  <2> QED BY <1>1, <2>1, DirEntry DEF IsDrive, Closed
<1>3. command \in Commands /\ ~Busy
  BY <1>1 DEF Init, Commands, NoCommand, Busy
<1> QED BY <1>2, <1>3, EmptySeq DEF Init, TypeInv, GoodCalls

LEMMA NextType == TypeInv /\ [Next]_vars => TypeInv'
<1> SUFFICES ASSUME TypeInv, [Next]_vars PROVE TypeInv'
  OBVIOUS
<1>1. CASE Start
  BY <1>1 DEF Start, TypeInv, GoodCalls, Writing, Catting, Stuck, Top, commandVars, Busy
<1>2. CASE Kill
  BY <1>2, EndsType DEF Kill, TypeInv
<1>3. CASE Enter
  BY <1>3, EnterType
<1>4. CASE Step
  BY <1>4, RemoveStepsType, CopyStepsType, FileCopyWriteType, RenameType, ReturnType,
     ReadFailsType, CatStepType DEF Step, CatStep
<1>5. CASE UNCHANGED vars
  BY <1>5 DEF vars, TypeInv, GoodCalls, Writing, Catting, Stuck, Top, commandVars, Busy
<1> QED BY <1>1, <1>2, <1>3, <1>4, <1>5 DEF Next

\* The drive is a tree after every step: no removal, copy or move, finished or
\* not, leaves an entry without the directories above it.
THEOREM TypeCorrect == Spec => []TypeOK
<1>1. TypeInv => TypeOK
  <2> SUFFICES ASSUME TypeInv PROVE TypeOK
    OBVIOUS
  <2>1. calls \in Seq(Calls)
    BY CallsType DEF TypeInv
  <2>2. IsTree(files) /\ (Busy => IsTree(start))
    BY DriveIsTree DEF TypeInv
  <2> QED BY <2>1, <2>2 DEF TypeInv, TypeOK, Calls, Commands, Path
<1> QED BY <1>1, InitType, NextType, PTL DEF Spec

-----------------------------------------------------------------------------
(* What a removal achieves as a whole.                                     *)

\* An entry of a directory, and what is below it.
LEMMA EntryPath ==
  ASSUME NEW p \in Path, NEW n \in Names
  PROVE  /\ Append(p, n) \in Path /\ Append(p, n) # <<>> /\ Append(p, n) # p
         /\ Len(Append(p, n)) = Len(p) + 1 /\ Append(p, n)[Len(p) + 1] = n
         /\ \A i \in 1 .. Len(p) : Append(p, n)[i] = p[i]
         /\ Under(Append(p, n), p) /\ ~Under(p, Append(p, n))
<1> DEFINE m == Append(p, n)
<1>1. /\ m \in Path /\ Len(m) = Len(p) + 1 /\ m[Len(p) + 1] = n
      /\ \A i \in 1 .. Len(p) : m[i] = p[i]
  BY AppendProperties DEF Path
<1>2. Len(p) \in Nat
  BY LenProperties DEF Path
<1> HIDE DEF m
<1>3. m # <<>> /\ m # p
  BY <1>1, <1>2, EmptySeq
<1>4. Under(m, p) /\ ~Under(p, m)
  BY <1>1, <1>2 DEF Under
<1> QED BY <1>1, <1>3, <1>4 DEF m

LEMMA UnderEntryIs ==
  ASSUME NEW q \in Path, NEW p \in Path, NEW n \in Names
  PROVE  Under(q, Append(p, n)) <=> Under(q, p) /\ q # p /\ q[Len(p) + 1] = n
<1> DEFINE m == Append(p, n)
<1>1. /\ m \in Path /\ Len(m) = Len(p) + 1 /\ m[Len(p) + 1] = n
      /\ \A i \in 1 .. Len(p) : m[i] = p[i]
  BY EntryPath
<1>2. Len(p) \in Nat /\ Len(q) \in Nat
  BY LenProperties DEF Path
<1> HIDE DEF m
<1>3. Under(q, p) /\ q # p => Len(q) > Len(p)
  <2>1. Under(q, p) /\ Len(q) = Len(p) => Under(p, q)
    BY <1>2 DEF Under
  <2> QED BY <1>2, <2>1, UnderEach DEF Under
<1>4. ASSUME Under(q, m) PROVE Under(q, p) /\ q # p /\ q[Len(p) + 1] = n
  BY <1>1, <1>2, <1>4 DEF Under
<1>5. ASSUME Under(q, p), q # p, q[Len(p) + 1] = n PROVE Under(q, m)
  <2>1. Len(q) >= Len(m) /\ \A i \in 1 .. Len(p) : q[i] = p[i]
    BY <1>1, <1>2, <1>3, <1>5 DEF Under
  <2>2. \A i \in 1 .. Len(m) : i \in 1 .. Len(p) \/ i = Len(p) + 1
    BY <1>1, <1>2
  <2> QED BY <1>1, <1>5, <2>1, <2>2 DEF Under
<1> QED BY <1>4, <1>5 DEF m

LEMMA SomeEntry ==
  ASSUME NEW q \in Path, NEW p \in Path, Under(q, p), q # p
  PROVE  \E n \in Names : Under(q, Append(p, n))
<1>1. Len(p) \in Nat /\ Len(q) \in Nat
  BY LenProperties DEF Path
<1>2. Len(q) > Len(p)
  <2>1. Len(q) = Len(p) => Under(p, q)
    BY <1>1 DEF Under
  <2> QED BY <1>1, <2>1, UnderEach DEF Under
<1>3. q[Len(p) + 1] \in Names
  <2>1. Len(p) + 1 \in 1 .. Len(q)
    BY <1>1, <1>2
  <2> QED BY <2>1, ElementOfSeq DEF Path
<1> QED BY <1>3, UnderEntryIs

LEMMA OneEntry ==
  ASSUME NEW q \in Path, NEW p \in Path, NEW n \in Names, NEW m \in Names,
         Under(q, Append(p, n)), Under(q, Append(p, m))
  PROVE  n = m
BY UnderEntryIs

\* What an entry is below, its directory is below, or it is the entry.
LEMMA AboveEntry ==
  ASSUME NEW r \in Path, NEW p \in Path, NEW n \in Names, Under(Append(p, n), r)
  PROVE  Under(p, r) \/ r = Append(p, n)
<1> DEFINE m == Append(p, n)
<1>1. /\ m \in Path /\ Len(m) = Len(p) + 1 /\ \A i \in 1 .. Len(p) : m[i] = p[i]
  BY EntryPath
<1>2. Len(p) \in Nat /\ Len(r) \in Nat
  BY LenProperties DEF Path
<1>3. Under(m, r)
  OBVIOUS
<1> HIDE DEF m
<1>4. CASE Len(r) = Len(m)
  <2>1. Under(r, m)
    BY <1>1, <1>2, <1>3, <1>4 DEF Under
  <2>2. r = m
    BY <1>1, <1>3, <2>1, UnderEach
  <2> QED BY <2>2 DEF m
<1>5. CASE Len(r) <= Len(p)
  BY <1>1, <1>2, <1>3, <1>5 DEF Under
<1>6. Len(r) <= Len(m)
  BY <1>3 DEF Under
<1> QED BY <1>1, <1>2, <1>4, <1>5, <1>6 DEF m

\* A '.' in a path is in every path below it, and in no other name of it.
LEMMA DottedBelow ==
  ASSUME NEW p \in Path, NEW q \in Path, Under(p, q), IsFileName(q)
  PROVE  IsFileName(p)
<1>1. PICK i \in 1 .. Len(q) : q[i] \in Dotted
  BY DEF IsFileName, Path
<1>2. i \in 1 .. Len(p) /\ p[i] = q[i]
  BY <1>1, LenProperties DEF Under, Path
<1> QED BY <1>1, <1>2 DEF IsFileName, Path

LEMMA DottedEntry ==
  ASSUME NEW p \in Path, NEW n \in Names, ~IsFileName(p), n \notin Dotted
  PROVE  ~IsFileName(Append(p, n))
<1> DEFINE m == Append(p, n)
<1>1. /\ m \in Path /\ Len(m) = Len(p) + 1 /\ m[Len(p) + 1] = n
      /\ \A i \in 1 .. Len(p) : m[i] = p[i]
  BY EntryPath
<1>2. Len(p) \in Nat
  BY LenProperties DEF Path
<1> HIDE DEF m
<1>3. \A i \in 1 .. Len(m) : m[i] \notin Dotted
  <2> TAKE i \in 1 .. Len(m)
  <2>1. i \in 1 .. Len(p) \/ i = Len(p) + 1
    BY <1>1, <1>2
  <2>2. \A j \in 1 .. Len(p) : p[j] \notin Dotted
    BY DEF IsFileName, Path
  <2> QED BY <1>1, <2>1, <2>2
<1> QED BY <1>1, <1>3 DEF IsFileName, Path, m

LEMMA LastDotted ==
  ASSUME NEW p \in Path, p # <<>>, Last(p) \in Dotted
  PROVE  IsFileName(p)
<1>1. Len(p) \in Nat \ {0} /\ Last(p) = p[Len(p)]
  BY EmptySeq DEF Path, Last
<1>2. Len(p) \in DOMAIN p
  BY <1>1 DEF Path
<1> QED BY <1>1, <1>2 DEF IsFileName

-----------------------------------------------------------------------------
\* What a removal of p cannot remove, of the drive s it began with: directories
\* with a '.' in their name, what they hold, and what they are in.
Blocked(s, p, q) == \E r \in DottedDirs(s, p) : Under(q, r) \/ Under(r, q)

\* What the call c has still to remove, if nothing gets in its way.
Awaits(c, q) ==
  IF c.at = "call" THEN Under(q, c.src)
  ELSE q = c.src \/ \E n \in c.todo : Under(q, Append(c.src, n))
Awaited(rs, q) == \E i \in 1 .. Len(rs) : Awaits(rs[i], q)

\* Calls of which each was made by the next one's loop, for an entry that is no
\* longer in its list.
MadeBy(c, d) == d.at = "loop" /\ \E n \in Names \ d.todo : Under(c.src, Append(d.src, n))
Nested(S, rs) ==
  /\ rs \in Seq(Calls)
  /\ \A i \in 1 .. Len(rs) : rs[i] \in S
  /\ \A i, j \in 1 .. Len(rs) : i < j => MadeBy(rs[i], rs[j])

\* The calls of a removal of p.
Removes(s, p, c) ==
  /\ c \in Calls /\ c.proc = "remove" /\ c.at \in {"call", "loop"}
  /\ Under(c.src, p) /\ ~IsFileName(c.src)
  /\ c.at = "loop" => IsDir(s, c.src)
Removals(s, p, rs) == Nested({c \in Calls : Removes(s, p, c)}, rs)

\* The drive t is what they have left so far.
Left(t, s, p, rs) ==
  /\ Below(t, p) = {q \in Below(s, p) : Blocked(s, p, q) \/ Awaited(rs, q)}
  /\ \A q \in Below(t, p) : t[q] = s[q]

RemoveInv ==
  Busy /\ command.name = "rmdir" /\ clean =>
    LET p == command.dst
    IN /\ p # <<>>
       /\ IF IsFileName(p)
          THEN files = start /\ calls \in {<<>>, <<Call("remove", p, p)>>}
          ELSE Removals(start, p, calls) /\ Left(files, start, p, calls)

\* A call put on a stack.
LEMMA Pushed ==
  ASSUME NEW T, NEW c \in T, NEW rest \in Seq(T)
  PROVE  LET s == <<c>> \o rest
         IN /\ s \in Seq(T) /\ s # <<>> /\ Len(s) = Len(rest) + 1 /\ Len(rest) \in Nat
            /\ s[1] = c /\ \A i \in 1 .. Len(rest) : s[i + 1] = rest[i]
            /\ Head(s) = c /\ Tail(s) = rest
<1> DEFINE s == <<c>> \o rest
<1>1. <<c>> \in Seq(T) /\ Len(<<c>>) = 1 /\ <<c>>[1] = c /\ Len(rest) \in Nat
  BY LenProperties
<1>2. /\ s \in Seq(T) /\ Len(s) = 1 + Len(rest)
      /\ \A i \in 1 .. 1 + Len(rest) : s[i] = IF i <= 1 THEN c ELSE rest[i - 1]
  BY <1>1, ConcatProperties
<1>3. Head(s) = c /\ Tail(s) = rest
  OBVIOUS
<1> HIDE DEF s
<1>4. s # <<>>
  BY <1>1, <1>2, EmptySeq
<1>5. s[1] = c /\ \A i \in 1 .. Len(rest) : s[i + 1] = rest[i]
  BY <1>1, <1>2
<1> QED BY <1>1, <1>2, <1>3, <1>4, <1>5 DEF s

\* A stack is its innermost call and those that made it.
LEMMA HeadAndTail ==
  ASSUME NEW rs \in Seq(Calls), rs # <<>>
  PROVE  Head(rs) \in Calls /\ Tail(rs) \in Seq(Calls) /\ rs = <<Head(rs)>> \o Tail(rs)
<1> DEFINE c == Head(rs)
           rest == Tail(rs)
           s == <<c>> \o rest
<1>1. c \in Calls /\ rest \in Seq(Calls) /\ Len(rest) = Len(rs) - 1 /\ Len(rs) \in Nat
      /\ \A i \in 1 .. Len(rest) : rest[i] = rs[i + 1]
  BY HeadTailProperties, LenProperties
<1>2. c = rs[1]
  OBVIOUS
<1> HIDE DEF c, rest
<1>3. /\ s \in Seq(Calls) /\ Len(s) = Len(rest) + 1 /\ s[1] = c
      /\ \A i \in 1 .. Len(rest) : s[i + 1] = rest[i]
  BY <1>1, Pushed
<1> HIDE DEF s
<1>4. Len(s) = Len(rs)
  BY <1>1, <1>3
<1>5. ASSUME NEW i \in 1 .. Len(rs) PROVE s[i] = rs[i]
  <2>1. i = 1 \/ (i - 1 \in 1 .. Len(rest) /\ (i - 1) + 1 = i)
    BY <1>1
  <2> QED BY <1>1, <1>2, <1>3, <2>1
<1>6. s = rs
  BY <1>3, <1>4, <1>5, SeqEqual
<1> QED BY <1>1, <1>6 DEF s, c, rest

LEMMA SomePushed ==
  ASSUME NEW S, NEW c \in Calls, NEW rest \in Seq(Calls)
  PROVE  LET s == <<c>> \o rest
         IN (\E i \in 1 .. Len(s) : s[i] \in S) <=> c \in S \/ \E i \in 1 .. Len(rest) : rest[i] \in S
<1> DEFINE s == <<c>> \o rest
           n == Len(rest)
<1>1. /\ Len(s) = n + 1 /\ n \in Nat
      /\ s[1] = c /\ \A i \in 1 .. n : s[i + 1] = rest[i]
  BY Pushed
<1> HIDE DEF s, n
<1>2. ASSUME NEW i \in 1 .. n + 1, s[i] \in S PROVE c \in S \/ \E j \in 1 .. n : rest[j] \in S
  <2>1. CASE i = 1
    BY <1>1, <1>2, <2>1
  <2>2. CASE i # 1
    <3>1. i - 1 \in 1 .. n /\ (i - 1) + 1 = i
      BY <1>1, <2>2
    <3>2. s[i] = rest[i - 1]
      BY <1>1, <3>1
    <3> QED BY <1>2, <3>1, <3>2
  <2> QED BY <2>1, <2>2
<1>3. ASSUME NEW j \in 1 .. n, rest[j] \in S PROVE \E i \in 1 .. n + 1 : s[i] \in S
  <2>1. j + 1 \in 1 .. n + 1 /\ s[j + 1] = rest[j]
    BY <1>1
  <2> QED BY <1>3, <2>1
<1>4. 1 \in 1 .. n + 1
  BY <1>1
<1> QED BY <1>1, <1>2, <1>3, <1>4 DEF s, n

LEMMA AwaitedPushed ==
  ASSUME NEW c \in Calls, NEW rest \in Seq(Calls), NEW q
  PROVE  Awaited(<<c>> \o rest, q) <=> Awaits(c, q) \/ Awaited(rest, q)
<1> DEFINE S == {d \in Calls : Awaits(d, q)}
           s == <<c>> \o rest
<1>1. (\E i \in 1 .. Len(s) : s[i] \in S) <=> c \in S \/ \E i \in 1 .. Len(rest) : rest[i] \in S
  BY SomePushed
<1>2. /\ \A i \in 1 .. Len(rest) : rest[i] \in Calls
      /\ \A i \in 1 .. Len(s) : s[i] \in Calls
  BY Pushed, ElementOfSeq
<1> HIDE DEF s
<1> QED BY <1>1, <1>2 DEF Awaited, s

LEMMA NestedPushed ==
  ASSUME NEW S, NEW c \in Calls, NEW rest \in Seq(Calls)
  PROVE  Nested(S, <<c>> \o rest) <=>
           /\ c \in S /\ Nested(S, rest)
           /\ \A j \in 1 .. Len(rest) : MadeBy(c, rest[j])
<1> DEFINE rs == <<c>> \o rest
           n == Len(rest)
<1>1. /\ rs \in Seq(Calls) /\ Len(rs) = n + 1 /\ n \in Nat
      /\ rs[1] = c /\ \A i \in 1 .. n : rs[i + 1] = rest[i]
  BY Pushed
<1> HIDE DEF rs, n
<1>2. \A i \in 1 .. n + 1 : i = 1 \/ (i - 1 \in 1 .. n /\ rs[i] = rest[i - 1])
  <2> TAKE i \in 1 .. n + 1
  <2>1. i = 1 \/ (i - 1 \in 1 .. n /\ (i - 1) + 1 = i)
    BY <1>1
  <2> QED BY <1>1, <2>1
<1>3. \A i \in 1 .. n : i + 1 \in 1 .. n + 1 /\ i + 1 > 1
  BY <1>1
<1>4. ASSUME Nested(S, rs)
      PROVE  /\ c \in S /\ Nested(S, rest)
             /\ \A j \in 1 .. n : MadeBy(c, rest[j])
  <2>1. /\ \A i \in 1 .. n + 1 : rs[i] \in S
        /\ \A i, j \in 1 .. n + 1 : i < j => MadeBy(rs[i], rs[j])
    BY <1>1, <1>4 DEF Nested
  <2>2. c \in S /\ \A i \in 1 .. n : rest[i] \in S
    BY <1>1, <1>3, <2>1
  <2>3. \A i, j \in 1 .. n : i < j => MadeBy(rest[i], rest[j])
    <3> SUFFICES ASSUME NEW i \in 1 .. n, NEW j \in 1 .. n, i < j PROVE MadeBy(rest[i], rest[j])
      OBVIOUS
    <3>1. i + 1 < j + 1
      BY <1>1
    <3> QED BY <1>1, <1>3, <2>1, <3>1
  <2>4. \A j \in 1 .. n : MadeBy(c, rest[j])
    <3> TAKE j \in 1 .. n
    <3>1. 1 \in 1 .. n + 1 /\ j + 1 \in 1 .. n + 1 /\ 1 < j + 1
      BY <1>1
    <3> QED BY <1>1, <2>1, <3>1
  <2> QED BY <2>2, <2>3, <2>4 DEF Nested, n
<1>5. ASSUME c \in S, Nested(S, rest), \A j \in 1 .. n : MadeBy(c, rest[j])
      PROVE  Nested(S, rs)
  <2>1. \A i \in 1 .. n + 1 : rs[i] \in S
    BY <1>1, <1>2, <1>5 DEF Nested, n
  <2>2. \A i, j \in 1 .. n + 1 : i < j => MadeBy(rs[i], rs[j])
    <3> SUFFICES ASSUME NEW i \in 1 .. n + 1, NEW j \in 1 .. n + 1, i < j PROVE MadeBy(rs[i], rs[j])
      OBVIOUS
    <3>1. j # 1 /\ j - 1 \in 1 .. n /\ rs[j] = rest[j - 1]
      BY <1>1, <1>2
    <3>2. CASE i = 1
      BY <1>1, <1>5, <3>1, <3>2
    <3>3. CASE i # 1
      <4>1. i - 1 \in 1 .. n /\ rs[i] = rest[i - 1] /\ i - 1 < j - 1
        BY <1>1, <1>2, <3>1, <3>3
      <4> QED BY <1>5, <3>1, <4>1 DEF Nested, n
    <3> QED BY <3>2, <3>3
  <2> QED BY <1>1, <2>1, <2>2 DEF Nested
<1> QED BY <1>4, <1>5 DEF rs, n

LEMMA RemovalsPushed ==
  ASSUME NEW s, NEW p, NEW c \in Calls, NEW rest \in Seq(Calls)
  PROVE  Removals(s, p, <<c>> \o rest) <=>
           /\ Removes(s, p, c) /\ Removals(s, p, rest)
           /\ \A j \in 1 .. Len(rest) : MadeBy(c, rest[j])
<1> DEFINE S == {d \in Calls : Removes(s, p, d)}
           rs == <<c>> \o rest
<1>1. Nested(S, rs) <=> c \in S /\ Nested(S, rest) /\ \A j \in 1 .. Len(rest) : MadeBy(c, rest[j])
  BY NestedPushed
<1>2. Removals(s, p, rs) <=> Nested(S, rs)
  BY DEF Removals
<1>3. Removals(s, p, rest) <=> Nested(S, rest)
  BY DEF Removals
<1> HIDE DEF rs
<1>4. c \in S <=> Removes(s, p, c)
  OBVIOUS
<1> HIDE DEF S
<1> QED BY <1>1, <1>2, <1>3, <1>4 DEF rs

\* No call is left to remove what is below an entry that another's loop took.
LEMMA MadeByAlone ==
  ASSUME NEW c, NEW d \in Calls, MadeBy(c, d), NEW q \in Path, c.src \in Path, Under(q, c.src)
  PROVE  ~Awaits(d, q)
<1>1. PICK n \in Names \ d.todo : Under(c.src, Append(d.src, n))
  BY DEF MadeBy
<1>2. d.at = "loop" /\ d.src \in Path /\ d.todo \subseteq Names
  BY DEF MadeBy, Calls
<1>3. Under(q, Append(d.src, n)) /\ Append(d.src, n) \in Path
  BY <1>1, <1>2, EntryPath, UnderTrans
<1>4. q # d.src
  BY <1>2, <1>3, EntryPath
<1>5. \A m \in d.todo : ~Under(q, Append(d.src, m))
  BY <1>1, <1>2, <1>3, OneEntry
<1> QED BY <1>2, <1>4, <1>5 DEF Awaits

LEMMA MadeByBelow ==
  ASSUME NEW c, NEW d \in Calls, MadeBy(c, d), c.src \in Path, NEW e, e.src \in Path, Under(e.src, c.src)
  PROVE  MadeBy(e, d)
<1>1. PICK n \in Names \ d.todo : Under(c.src, Append(d.src, n))
  BY DEF MadeBy
<1>2. d.at = "loop" /\ d.src \in Path
  BY DEF MadeBy, Calls
<1>3. Under(e.src, Append(d.src, n))
  BY <1>1, <1>2, EntryPath, UnderTrans
<1> QED BY <1>1, <1>2, <1>3 DEF MadeBy

\* What the steps of a removal begin with: the call c is the running one.
AtRemoval(t, s, p, c, rest) ==
  /\ IsDrive(t) /\ IsDrive(s) /\ p \in Path /\ p # <<>>
  /\ c \in Calls /\ rest \in Seq(Calls)
  /\ Removals(s, p, <<c>> \o rest) /\ Left(t, s, p, <<c>> \o rest)

\* And what they end with.
HasLeft(t, s, p, rs) == Removals(s, p, rs) /\ Left(t, s, p, rs)

LEMMA AtRemovalFacts ==
  ASSUME NEW t, NEW s, NEW p, NEW c, NEW rest, AtRemoval(t, s, p, c, rest)
  PROVE  /\ IsDrive(t) /\ IsDrive(s) /\ p \in Path /\ p # <<>>
         /\ DOMAIN t \subseteq Path /\ DOMAIN s \subseteq Path
         /\ c \in Calls /\ rest \in Seq(Calls) /\ c.src \in Path /\ c.todo \subseteq Names
         /\ Removes(s, p, c) /\ Removals(s, p, rest)
         /\ \A j \in 1 .. Len(rest) : MadeBy(c, rest[j])
         /\ \A q \in Path : Under(q, c.src) => ~Awaited(rest, q) /\ Under(q, p)
         /\ \A q : q \in Below(t, p) <=>
              q \in Below(s, p) /\ (Blocked(s, p, q) \/ Awaits(c, q) \/ Awaited(rest, q))
         /\ \A q \in Below(t, p) : t[q] = s[q]
<1>1. /\ IsDrive(t) /\ IsDrive(s) /\ p \in Path /\ p # <<>>
      /\ DOMAIN t \subseteq Path /\ DOMAIN s \subseteq Path
      /\ c \in Calls /\ rest \in Seq(Calls) /\ c.src \in Path /\ c.todo \subseteq Names
  BY DEF AtRemoval, IsDrive, Calls
<1>2. /\ Removes(s, p, c) /\ Removals(s, p, rest)
      /\ \A j \in 1 .. Len(rest) : MadeBy(c, rest[j])
  BY <1>1, RemovalsPushed DEF AtRemoval
<1>3. ASSUME NEW q \in Path, Under(q, c.src) PROVE ~Awaited(rest, q) /\ Under(q, p)
  <2>1. \A j \in 1 .. Len(rest) : rest[j] \in Calls
    BY <1>1, ElementOfSeq
  <2>2. \A j \in 1 .. Len(rest) : ~Awaits(rest[j], q)
    BY <1>1, <1>2, <1>3, <2>1, MadeByAlone
  <2>3. Under(c.src, p)
    BY <1>2 DEF Removes
  <2> QED BY <1>1, <1>3, <2>2, <2>3, UnderTrans DEF Awaited
<1>4. /\ Below(t, p) = {q \in Below(s, p) : Blocked(s, p, q) \/ Awaited(<<c>> \o rest, q)}
      /\ \A q \in Below(t, p) : t[q] = s[q]
  BY DEF AtRemoval, Left
<1>5. \A q : Awaited(<<c>> \o rest, q) <=> Awaits(c, q) \/ Awaited(rest, q)
  BY <1>1, AwaitedPushed
<1>6. \A q : q \in Below(t, p) <=>
        q \in Below(s, p) /\ (Blocked(s, p, q) \/ Awaits(c, q) \/ Awaited(rest, q))
  BY <1>4, <1>5
<1> QED BY <1>1, <1>2, <1>3, <1>4, <1>6

\* A directory with a '.' in its name is nowhere above a path without any.
LEMMA NotAboveDotted ==
  ASSUME NEW s, DOMAIN s \subseteq Path, NEW p \in Path, NEW src \in Path, ~IsFileName(src),
         NEW r \in DottedDirs(s, p)
  PROVE  r \in Path /\ ~Under(src, r)
<1>1. r \in DOMAIN s /\ r \in Path /\ Under(r, p) /\ r # p /\ Last(r) \in Dotted
  BY DEF DottedDirs, Below
<1>2. r # <<>>
  <2>1. ASSUME r = <<>> PROVE FALSE
    <3>1. Under(p, r)
      BY <2>1, UnderAll
    <3> QED BY <1>1, <3>1, UnderEach
  <2> QED BY <2>1
<1>3. IsFileName(r)
  BY <1>1, <1>2, LastDotted
<1> QED BY <1>1, <1>3, DottedBelow

\* A directory that is not there, or no longer: nothing of it was to be removed.
LEMMA RefusedLeaves ==
  ASSUME NEW t, NEW s, NEW p, NEW c, NEW rest, AtRemoval(t, s, p, c, rest),
         c.at = "call", ~Exists(t, c.src)
  PROVE  HasLeft(t, s, p, rest)
<1>1. /\ IsDrive(s) /\ DOMAIN s \subseteq Path /\ c.src \in Path /\ p \in Path
      /\ \A q : q \in Below(t, p) <=>
           q \in Below(s, p) /\ (Blocked(s, p, q) \/ Awaits(c, q) \/ Awaited(rest, q))
      /\ \A q \in Below(t, p) : t[q] = s[q]
      /\ Under(c.src, p) /\ Removals(s, p, rest)
  BY AtRemovalFacts DEF Removes
<1>2. ASSUME NEW q \in Below(s, p), Awaits(c, q) PROVE FALSE
  <2>1. q \in DOMAIN s /\ q \in Path /\ Under(q, c.src)
    BY <1>1, <1>2 DEF Awaits, Below
  <2>2. c.src \in DOMAIN s
    BY <1>1, <2>1 DEF IsDrive, Closed, IsDir, Exists
  <2>3. c.src \in Below(s, p) /\ Awaits(c, c.src)
    BY <1>1, <2>2, UnderItself DEF Below, Awaits
  <2>4. c.src \in DOMAIN t
    BY <1>1, <2>3 DEF Below
  <2> QED BY <2>4 DEF Exists
<1>3. Below(t, p) = {q \in Below(s, p) : Blocked(s, p, q) \/ Awaited(rest, q)}
  BY <1>1, <1>2
<1> QED BY <1>1, <1>3 DEF HasLeft, Left

\* A directory is listed: what is below it is below one of its entries.
LEMMA ListLeaves ==
  ASSUME NEW t, NEW s, NEW p, NEW c, NEW rest, AtRemoval(t, s, p, c, rest),
         c.at = "call", IsDir(t, c.src),
         NEW d, d = [c EXCEPT !.at = "loop", !.todo = Entries(t, c.src)]
  PROVE  HasLeft(t, s, p, <<d>> \o rest)
<1>1. /\ IsDrive(s) /\ DOMAIN s \subseteq Path /\ c \in Calls /\ c.src \in Path /\ p \in Path
      /\ rest \in Seq(Calls)
      /\ \A q : q \in Below(t, p) <=>
           q \in Below(s, p) /\ (Blocked(s, p, q) \/ Awaits(c, q) \/ Awaited(rest, q))
      /\ \A q \in Below(t, p) : t[q] = s[q]
      /\ Removes(s, p, c) /\ Removals(s, p, rest)
      /\ \A j \in 1 .. Len(rest) : MadeBy(c, rest[j])
  BY AtRemovalFacts
<1>2. /\ d \in Calls /\ d.src = c.src /\ d.at = "loop" /\ d.todo = Entries(t, c.src)
      /\ d.proc = c.proc
  BY <1>1 DEF Calls, Entries
<1>3. IsDir(s, c.src)
  <2>1. c.src \in DOMAIN t /\ t[c.src].dir /\ c.src \in Below(t, p)
    BY <1>1 DEF IsDir, Exists, Below, Removes
  <2>2. c.src \in DOMAIN s /\ t[c.src] = s[c.src]
    BY <1>1, <2>1 DEF Below
  <2> QED BY <2>1, <2>2 DEF IsDir, Exists
<1>4. Removes(s, p, d)
  BY <1>1, <1>2, <1>3 DEF Removes
<1>5. \A j \in 1 .. Len(rest) : MadeBy(d, rest[j])
  BY <1>1, <1>2 DEF MadeBy
<1>6. Removals(s, p, <<d>> \o rest)
  BY <1>1, <1>2, <1>4, <1>5, RemovalsPushed
<1>7. ASSUME NEW q \in Below(s, p) PROVE Awaits(c, q) <=> Awaits(d, q)
  <2>1. q \in Path /\ q \in DOMAIN s /\ Under(q, p)
    BY <1>1 DEF Below
  <2>2. ASSUME Under(q, c.src), q # c.src PROVE \E n \in Entries(t, c.src) : Under(q, Append(c.src, n))
    <3>1. PICK n \in Names : Under(q, Append(c.src, n))
      BY <1>1, <2>1, <2>2, SomeEntry
    <3> DEFINE e == Append(c.src, n)
    <3>2. e \in Path /\ Under(e, c.src)
      BY <1>1, EntryPath
    <3> HIDE DEF e
    <3>3. e \in DOMAIN s /\ Under(e, p)
      <4>1. Under(q, e)
        BY <3>1 DEF e
      <4>2. Under(c.src, p)
        BY <1>1 DEF Removes
      <4> QED BY <1>1, <2>1, <3>2, <4>1, <4>2, UnderTrans DEF IsDrive, Closed, IsDir, Exists
    <3>4. e \in Below(s, p) /\ Awaits(c, e)
      BY <3>2, <3>3 DEF Below, Awaits
    <3>5. e \in DOMAIN t
      BY <1>1, <3>4 DEF Below
    <3> QED BY <3>1, <3>5 DEF Entries, e
  <2>3. ASSUME NEW n \in Entries(t, c.src), Under(q, Append(c.src, n)) PROVE Under(q, c.src)
    <3>1. n \in Names
      BY DEF Entries
    <3> QED BY <1>1, <2>1, <2>3, <3>1, UnderEntryIs
  <2> QED BY <1>1, <1>2, <2>1, <2>2, <2>3, UnderItself DEF Awaits
<1>8. \A q : Awaited(<<d>> \o rest, q) <=> Awaits(d, q) \/ Awaited(rest, q)
  BY <1>1, <1>2, AwaitedPushed
<1>9. Below(t, p) = {q \in Below(s, p) : Blocked(s, p, q) \/ Awaited(<<d>> \o rest, q)}
  BY <1>1, <1>7, <1>8
<1> QED BY <1>1, <1>6, <1>9 DEF HasLeft, Left

\* The loop takes an entry out of its list.
Taken(s, p, c, n, d, rest) ==
  /\ d \in Calls /\ d.src = c.src /\ d.at = "loop" /\ d.todo = c.todo \ {n}
  /\ Removals(s, p, <<d>> \o rest)
  /\ \A q : Awaits(c, q) <=> Awaits(d, q) \/ Under(q, Append(c.src, n))
  /\ \A q : Awaited(<<d>> \o rest, q) <=> Awaits(d, q) \/ Awaited(rest, q)

LEMMA TakenFacts ==
  ASSUME NEW t, NEW s, NEW p, NEW c, NEW rest, AtRemoval(t, s, p, c, rest),
         c.at = "loop", NEW n \in c.todo,
         NEW d, d = [c EXCEPT !.at = "loop", !.todo = c.todo \ {n}]
  PROVE  Taken(s, p, c, n, d, rest)
<1>1. /\ c \in Calls /\ c.src \in Path /\ rest \in Seq(Calls)
      /\ Removes(s, p, c) /\ Removals(s, p, rest)
      /\ \A j \in 1 .. Len(rest) : MadeBy(c, rest[j])
  BY AtRemovalFacts
<1>2. /\ d \in Calls /\ d.src = c.src /\ d.at = "loop" /\ d.todo = c.todo \ {n} /\ d.proc = c.proc
  BY <1>1 DEF Calls
<1>3. Removes(s, p, d) /\ \A j \in 1 .. Len(rest) : MadeBy(d, rest[j])
  BY <1>1, <1>2 DEF Removes, MadeBy
<1>4. Removals(s, p, <<d>> \o rest)
  BY <1>1, <1>2, <1>3, RemovalsPushed
<1>5. \A q : Awaits(c, q) <=> Awaits(d, q) \/ Under(q, Append(c.src, n))
  BY <1>2 DEF Awaits
<1>6. \A q : Awaited(<<d>> \o rest, q) <=> Awaits(d, q) \/ Awaited(rest, q)
  BY <1>1, <1>2, AwaitedPushed
<1> QED BY <1>2, <1>4, <1>5, <1>6 DEF Taken

\* It calls itself for an entry without a '.'.
LEMMA EntryCalled ==
  ASSUME NEW t, NEW s, NEW p, NEW c, NEW rest, AtRemoval(t, s, p, c, rest),
         c.at = "loop", NEW n \in c.todo, n \notin Dotted,
         NEW d, d = [c EXCEPT !.at = "loop", !.todo = c.todo \ {n}],
         NEW e, e = Call("remove", Append(c.src, n), Append(c.src, n))
  PROVE  HasLeft(t, s, p, <<e>> \o (<<d>> \o rest))
<1> DEFINE m == Append(c.src, n)
           stack == <<d>> \o rest
<1>1. /\ c.src \in Path /\ p \in Path /\ rest \in Seq(Calls) /\ c.todo \subseteq Names
      /\ \A q : q \in Below(t, p) <=>
           q \in Below(s, p) /\ (Blocked(s, p, q) \/ Awaits(c, q) \/ Awaited(rest, q))
      /\ \A q \in Below(t, p) : t[q] = s[q]
      /\ Removes(s, p, c) /\ \A j \in 1 .. Len(rest) : MadeBy(c, rest[j])
  BY AtRemovalFacts
<1>2. /\ d \in Calls /\ d.src = c.src /\ d.at = "loop" /\ d.todo = c.todo \ {n}
      /\ Removals(s, p, stack)
      /\ \A q : Awaits(c, q) <=> Awaits(d, q) \/ Under(q, m)
      /\ \A q : Awaited(stack, q) <=> Awaits(d, q) \/ Awaited(rest, q)
  <2>1. Taken(s, p, c, n, d, rest)
    BY TakenFacts
  <2> QED BY <2>1 DEF Taken
<1>3. m \in Path /\ Under(m, c.src) /\ n \in Names
  BY <1>1, EntryPath
<1>4. stack \in Seq(Calls) /\ Len(stack) = Len(rest) + 1 /\ Len(rest) \in Nat
      /\ stack[1] = d /\ \A i \in 1 .. Len(rest) : stack[i + 1] = rest[i]
  BY <1>1, <1>2, Pushed
<1>5. e \in Calls /\ e.src = m /\ e.proc = "remove" /\ e.at = "call"
  BY <1>3, CallFacts DEF Call
<1>6. Removes(s, p, e)
  <2>1. ~IsFileName(m)
    BY <1>1, <1>3, DottedEntry DEF Removes
  <2>2. Under(m, p)
    BY <1>1, <1>3, UnderTrans DEF Removes
  <2> QED BY <1>5, <2>1, <2>2 DEF Removes
<1> HIDE DEF m, stack
<1>7. \A j \in 1 .. Len(stack) : MadeBy(e, stack[j])
  <2> TAKE j \in 1 .. Len(stack)
  <2>1. CASE j = 1
    <3>1. Under(e.src, Append(d.src, n)) /\ n \in Names \ d.todo
      BY <1>2, <1>3, <1>5, UnderItself DEF m
    <3> QED BY <1>2, <1>4, <2>1, <3>1 DEF MadeBy
  <2>2. CASE j # 1
    <3>1. j - 1 \in 1 .. Len(rest) /\ (j - 1) + 1 = j
      BY <1>4, <2>2
    <3>2. stack[j] = rest[j - 1] /\ rest[j - 1] \in Calls /\ MadeBy(c, rest[j - 1])
      BY <1>1, <1>4, <3>1, ElementOfSeq
    <3> QED BY <1>1, <1>3, <1>5, <3>2, MadeByBelow
  <2> QED BY <2>1, <2>2
<1>8. Removals(s, p, <<e>> \o stack)
  BY <1>2, <1>4, <1>5, <1>6, <1>7, RemovalsPushed
<1>9. \A q : Awaited(<<e>> \o stack, q) <=> Awaits(c, q) \/ Awaited(rest, q)
  <2>1. \A q : Awaited(<<e>> \o stack, q) <=> Awaits(e, q) \/ Awaited(stack, q)
    BY <1>4, <1>5, AwaitedPushed
  <2>2. \A q : Awaits(e, q) <=> Under(q, m)
    BY <1>5 DEF Awaits
  <2> QED BY <1>2, <2>1, <2>2
<1>10. Below(t, p) = {q \in Below(s, p) : Blocked(s, p, q) \/ Awaited(<<e>> \o stack, q)}
  BY <1>1, <1>9
<1> QED BY <1>1, <1>8, <1>10 DEF HasLeft, Left, stack

\* It removes an entry with a '.', if that is a file.
LEMMA EntryRemoved ==
  ASSUME NEW t, NEW s, NEW p, NEW c, NEW rest, AtRemoval(t, s, p, c, rest),
         c.at = "loop", NEW n \in c.todo, n \in Dotted,
         NEW d, d = [c EXCEPT !.at = "loop", !.todo = c.todo \ {n}],
         NEW u, LET m == Append(c.src, n)
                IN \/ CanRemoveFile(t, m) /\ u = Drop(t, m)
                   \/ ~CanRemoveFile(t, m) /\ u = t
  PROVE  HasLeft(u, s, p, <<d>> \o rest)
<1> DEFINE m == Append(c.src, n)
<1>1. /\ IsDrive(t) /\ IsDrive(s) /\ DOMAIN t \subseteq Path /\ DOMAIN s \subseteq Path
      /\ c.src \in Path /\ p \in Path /\ rest \in Seq(Calls) /\ c.todo \subseteq Names
      /\ \A q \in Path : Under(q, c.src) => ~Awaited(rest, q) /\ Under(q, p)
      /\ \A q : q \in Below(t, p) <=>
           q \in Below(s, p) /\ (Blocked(s, p, q) \/ Awaits(c, q) \/ Awaited(rest, q))
      /\ \A q \in Below(t, p) : t[q] = s[q]
      /\ Removes(s, p, c)
  BY AtRemovalFacts
<1>2. /\ d \in Calls /\ d.src = c.src /\ d.at = "loop" /\ d.todo = c.todo \ {n}
      /\ Removals(s, p, <<d>> \o rest)
      /\ \A q : Awaits(c, q) <=> Awaits(d, q) \/ Under(q, m)
      /\ \A q : Awaited(<<d>> \o rest, q) <=> Awaits(d, q) \/ Awaited(rest, q)
  <2>1. Taken(s, p, c, n, d, rest)
    BY TakenFacts
  <2> QED BY <2>1 DEF Taken
<1>3. m \in Path /\ Under(m, c.src) /\ m # c.src /\ n \in Names /\ Last(m) = n /\ Under(m, p) /\ m # p
  <2>1. m \in Path /\ Under(m, c.src) /\ m # c.src /\ n \in Names /\ ~Under(c.src, m)
    BY <1>1, EntryPath
  <2>2. Last(m) = n
    BY <1>1, <2>1, EntryPath DEF Last
  <2>3. Under(c.src, p) /\ Under(m, p)
    BY <1>1, <2>1, UnderTrans DEF Removes
  <2>4. m # p
    BY <2>1, <2>3
  <2> QED BY <2>1, <2>2, <2>3, <2>4
<1>4. \/ CanRemoveFile(t, m) /\ u = Drop(t, m)
      \/ ~CanRemoveFile(t, m) /\ u = t
  OBVIOUS
<1>5. \A q \in Path : Under(q, m) => Under(q, c.src) /\ ~Awaits(d, q)
  <2> SUFFICES ASSUME NEW q \in Path, Under(q, m) PROVE Under(q, c.src) /\ ~Awaits(d, q)
    OBVIOUS
  <2>1. Under(q, c.src) /\ q # c.src
    BY <1>1, <1>3, UnderEntryIs
  <2>2. \A k \in d.todo : ~Under(q, Append(c.src, k))
    BY <1>1, <1>2, <1>3, OneEntry
  <2> QED BY <1>2, <2>1, <2>2 DEF Awaits
<1>6. m \in DOMAIN s => m \in DOMAIN t /\ t[m] = s[m]
  <2>1. Awaits(c, m)
    BY <1>2, <1>3, UnderItself
  <2> QED BY <1>1, <1>3, <2>1 DEF Below
<1> HIDE DEF m
<1>7. CASE CanRemoveFile(t, m)
  <2>1. m \in DOMAIN t /\ ~t[m].dir /\ u = Drop(t, m)
    BY <1>4, <1>7 DEF CanRemoveFile, IsFile, Exists
  <2>2. m \in Below(t, p) /\ m \in Below(s, p) /\ ~s[m].dir
    BY <1>1, <1>3, <2>1 DEF Below
  <2>3. ~Blocked(s, p, m)
    <3> SUFFICES ASSUME NEW r \in DottedDirs(s, p), Under(m, r) \/ Under(r, m) PROVE FALSE
      BY DEF Blocked
    <3>1. r \in Path /\ ~Under(c.src, r) /\ r \in DOMAIN s /\ s[r].dir
      BY <1>1, NotAboveDotted DEF Removes, DottedDirs, Below
    <3>2. r # m
      BY <2>2, <3>1
    <3>3. ~Under(m, r)
      BY <1>1, <1>3, <3>1, <3>2, AboveEntry DEF m
    <3>4. Under(r, m) => IsDir(s, m)
      BY <1>1, <1>3, <3>1, <3>2 DEF IsDrive, Closed
    <3> QED BY <2>2, <3>3, <3>4 DEF IsDir
  <2>4. ASSUME NEW q \in Below(s, p), Under(q, m) PROVE q = m
    <3>1. q \in DOMAIN s /\ (q # m => IsDir(s, m))
      BY <1>1, <1>3, <2>4 DEF Below, IsDrive, Closed
    <3> QED BY <2>2, <3>1 DEF IsDir
  <2>5. Below(u, p) = Below(t, p) \ {m} /\ \A q \in Below(u, p) : u[q] = t[q]
    BY <2>1 DEF Drop, Below
  <2>6. \A q \in Below(s, p) :
          (Blocked(s, p, q) \/ Awaited(<<d>> \o rest, q)) <=>
          (Blocked(s, p, q) \/ Awaits(c, q) \/ Awaited(rest, q)) /\ q # m
    <3>1. ~Awaited(<<d>> \o rest, m)
      BY <1>1, <1>2, <1>3, <1>5, UnderItself
    <3> QED BY <1>2, <2>3, <2>4, <3>1
  <2>7. Below(u, p) = {q \in Below(s, p) : Blocked(s, p, q) \/ Awaited(<<d>> \o rest, q)}
    BY <1>1, <2>5, <2>6
  <2> QED BY <1>1, <1>2, <2>5, <2>7 DEF HasLeft, Left
<1>8. CASE ~CanRemoveFile(t, m)
  <2>1. u = t
    BY <1>4, <1>8
  <2>2. ASSUME NEW q \in Below(s, p), Under(q, m) PROVE Blocked(s, p, q)
    <3>1. q \in DOMAIN s /\ q \in Path
      BY <1>1 DEF Below
    <3>2. m \in DOMAIN s
      BY <1>1, <1>3, <2>2, <3>1 DEF IsDrive, Closed, IsDir, Exists
    <3>3. s[m].dir
      BY <1>6, <1>8, <3>2 DEF CanRemoveFile, IsFile, Exists
    <3>4. m \in DottedDirs(s, p)
      BY <1>3, <3>2, <3>3 DEF DottedDirs, Below
    <3> QED BY <2>2, <3>4 DEF Blocked
  <2>3. Below(t, p) = {q \in Below(s, p) : Blocked(s, p, q) \/ Awaited(<<d>> \o rest, q)}
    BY <1>1, <1>2, <2>2
  <2> QED BY <1>1, <1>2, <2>1, <2>3 DEF HasLeft, Left
<1> QED BY <1>7, <1>8

\* After its loop it removes itself, if it is empty: if nothing of it is stuck.
LEMMA SelfRemoved ==
  ASSUME NEW t, NEW s, NEW p, NEW c, NEW rest, AtRemoval(t, s, p, c, rest),
         c.at = "loop", c.todo = {},
         NEW u, \/ CanRemoveDir(t, c.src) /\ u = Drop(t, c.src)
                \/ ~CanRemoveDir(t, c.src) /\ u = t
  PROVE  HasLeft(u, s, p, rest)
<1> DEFINE src == c.src
<1>1. /\ IsDrive(t) /\ IsDrive(s) /\ DOMAIN t \subseteq Path /\ DOMAIN s \subseteq Path
      /\ src \in Path /\ p \in Path /\ p # <<>> /\ Removals(s, p, rest)
      /\ \A q \in Path : Under(q, src) => ~Awaited(rest, q) /\ Under(q, p)
      /\ \A q : q \in Below(t, p) <=>
           q \in Below(s, p) /\ (Blocked(s, p, q) \/ Awaits(c, q) \/ Awaited(rest, q))
      /\ \A q \in Below(t, p) : t[q] = s[q]
      /\ ~IsFileName(src) /\ IsDir(s, src) /\ Under(src, p)
  BY AtRemovalFacts DEF Removes
<1>2. \A q : Awaits(c, q) <=> q = src
  BY DEF Awaits
<1>3. \/ CanRemoveDir(t, src) /\ u = Drop(t, src)
      \/ ~CanRemoveDir(t, src) /\ u = t
  OBVIOUS
<1> HIDE DEF src
<1>4. src # <<>>
  <2>1. src = <<>> => Under(<<>>, p) /\ Under(p, <<>>) /\ <<>> \in Path
    BY <1>1, UnderAll
  <2> QED BY <1>1, <2>1, UnderEach
<1>5. src \in Below(t, p) /\ t[src] = s[src] /\ IsDir(t, src)
  BY <1>1, <1>2 DEF Below, IsDir, Exists
<1>6. \A r \in DottedDirs(s, p) : r \in Path /\ r \in DOMAIN s /\ ~Under(src, r)
  BY <1>1, NotAboveDotted DEF DottedDirs, Below
<1>7. ASSUME Entries(t, src) = {} PROVE ~Blocked(s, p, src)
  <2> SUFFICES ASSUME NEW r \in DottedDirs(s, p), Under(r, src) PROVE FALSE
    BY <1>6 DEF Blocked
  <2>1. r \in Path /\ r \in DOMAIN s /\ r # src
    BY <1>1, <1>6, UnderItself
  <2>2. PICK n \in Names : Under(r, Append(src, n))
    BY <1>1, <2>1, SomeEntry
  <2> DEFINE e == Append(src, n)
  <2>3. e \in Path /\ Under(e, src) /\ Under(r, e)
    BY <1>1, <2>2, EntryPath
  <2> HIDE DEF e
  <2>4. e \in DOMAIN s /\ Under(e, p)
    BY <1>1, <2>1, <2>3, UnderTrans DEF IsDrive, Closed, IsDir, Exists
  <2>5. Blocked(s, p, e)
    BY <2>3 DEF Blocked
  <2>6. e \in DOMAIN t
    BY <1>1, <2>4, <2>5 DEF Below
  <2> QED BY <1>7, <2>6 DEF Entries, e
<1>8. ASSUME NEW n \in Entries(t, src) PROVE Blocked(s, p, src)
  <2> DEFINE e == Append(src, n)
  <2>1. n \in Names /\ e \in DOMAIN t
    BY DEF Entries
  <2>2. e \in Path /\ Under(e, src) /\ e # src
    BY <1>1, <2>1, EntryPath
  <2>3. \A r \in Path : Under(e, r) => Under(src, r) \/ r = e
    BY <1>1, <2>1, AboveEntry
  <2> HIDE DEF e
  <2>4. e \in Below(t, p) /\ ~Awaits(c, e) /\ ~Awaited(rest, e)
    BY <1>1, <1>2, <2>1, <2>2 DEF Below
  <2>5. PICK r \in DottedDirs(s, p) : Under(e, r) \/ Under(r, e)
    BY <1>1, <2>4 DEF Blocked
  <2>6. Under(r, src)
    BY <1>1, <1>6, <2>2, <2>3, <2>5, UnderTrans
  <2> QED BY <2>6 DEF Blocked
<1>9. CASE CanRemoveDir(t, src)
  <2>1. u = Drop(t, src) /\ Entries(t, src) = {}
    BY <1>3, <1>9 DEF CanRemoveDir
  <2>2. Below(u, p) = Below(t, p) \ {src} /\ \A q \in Below(u, p) : u[q] = t[q]
    BY <2>1 DEF Drop, Below
  <2>3. ~Blocked(s, p, src) /\ ~Awaited(rest, src)
    BY <1>1, <1>7, <2>1, UnderItself
  <2>4. Below(u, p) = {q \in Below(s, p) : Blocked(s, p, q) \/ Awaited(rest, q)}
    BY <1>1, <1>2, <2>2, <2>3
  <2> QED BY <1>1, <2>2, <2>4 DEF HasLeft, Left
<1>10. CASE ~CanRemoveDir(t, src)
  <2>1. u = t /\ Blocked(s, p, src)
    BY <1>3, <1>4, <1>5, <1>8, <1>10 DEF CanRemoveDir
  <2>2. Below(t, p) = {q \in Below(s, p) : Blocked(s, p, q) \/ Awaited(rest, q)}
    BY <1>1, <1>2, <2>1
  <2> QED BY <1>1, <2>1, <2>2 DEF HasLeft, Left
<1> QED BY <1>9, <1>10

-----------------------------------------------------------------------------
(* The steps of a removal, on top of whatever called it.                   *)

OnRemoval(p, rs, tail) ==
  /\ rs \in Seq(Calls) /\ rs # <<>> /\ tail \in Seq(Calls)
  /\ calls = rs \o tail
  /\ p \in Path /\ p # <<>> /\ IsDrive(files) /\ IsDrive(start)
  /\ HasLeft(files, start, p, rs)
GoesOn(p, tail) ==
  \E rs \in Seq(Calls) : calls' = rs \o tail /\ HasLeft(files', start, p, rs)

LEMMA OnRemovalFacts ==
  ASSUME NEW p, NEW rs, NEW tail, OnRemoval(p, rs, tail)
  PROVE  /\ calls # <<>> /\ Top = Head(rs) /\ Rest = Tail(rs) \o tail
         /\ Tail(rs) \in Seq(Calls) /\ tail \in Seq(Calls)
         /\ AtRemoval(files, start, p, Top, Tail(rs))
<1> DEFINE c == Head(rs)
           rest == Tail(rs)
<1>1. c \in Calls /\ rest \in Seq(Calls) /\ rs = <<c>> \o rest
  BY HeadAndTail DEF OnRemoval
<1> HIDE DEF c, rest
<1>2. tail \in Seq(Calls) /\ rest \o tail \in Seq(Calls) /\ calls = <<c>> \o (rest \o tail)
  <2>1. tail \in Seq(Calls) /\ <<c>> \in Seq(Calls) /\ calls = (<<c>> \o rest) \o tail
    BY <1>1 DEF OnRemoval
  <2> QED BY <1>1, <2>1, ConcatAssociative, ConcatProperties
<1>3. calls # <<>> /\ Head(calls) = c /\ Tail(calls) = rest \o tail
  BY <1>1, <1>2, Pushed
<1>4. AtRemoval(files, start, p, c, rest)
  BY <1>1 DEF OnRemoval, AtRemoval, HasLeft
<1> QED BY <1>1, <1>2, <1>3, <1>4 DEF Top, Rest, c, rest

LEMMA GoesOnWith ==
  ASSUME NEW p, NEW tail \in Seq(Calls), NEW rest \in Seq(Calls), NEW d \in Calls,
         calls' = <<d>> \o (rest \o tail), HasLeft(files', start, p, <<d>> \o rest)
  PROVE  GoesOn(p, tail)
<1>1. <<d>> \in Seq(Calls) /\ <<d>> \o rest \in Seq(Calls)
  BY ConcatProperties
<1>2. calls' = (<<d>> \o rest) \o tail
  BY <1>1, ConcatAssociative
<1> QED BY <1>1, <1>2 DEF GoesOn

\* Only the steps of dir_remove_deep are taken while it runs.
LEMMA RemovalStep ==
  ASSUME NEW p, NEW rs, NEW tail, OnRemoval(p, rs, tail), Step, clean', ~Ends
  PROVE  GoesOn(p, tail) /\ UNCHANGED <<up, command, start>>
<1> DEFINE rest == Tail(rs)
<1>1. /\ calls # <<>> /\ Rest = rest \o tail /\ rest \in Seq(Calls) /\ tail \in Seq(Calls)
      /\ AtRemoval(files, start, p, Top, rest)
  BY OnRemovalFacts
<1>2. /\ Top \in Calls /\ Top.src \in Path /\ Top.todo \subseteq Names
      /\ Removes(start, p, Top)
  BY <1>1, AtRemovalFacts
<1>3. Top.proc = "remove" /\ ~IsFileName(Top.src)
  BY <1>2 DEF Removes
<1> HIDE DEF rest
<1>4. RemoveRefused \/ RemoveList \/ RemoveEntry \/ RemoveSelf
  BY <1>1, <1>3, ReadStops, CatRuns DEF Step, CopyRefused, CopyBegin, CopyMake, CopyEntry,
       CopyReturns, FileCopyWrite, Rename, Return, Done, Running, Top, CatStep
<1>5. ASSUME NEW d \in Calls, calls' = <<d>> \o Rest, HasLeft(files', start, p, <<d>> \o rest)
      PROVE  GoesOn(p, tail)
  BY <1>1, <1>5, GoesOnWith
<1>6. \A where \in {"call", "make", "loop"}, names \in SUBSET Names :
        [Top EXCEPT !.at = where, !.todo = names] \in Calls
  BY <1>2 DEF Calls
<1>7. ASSUME calls' = Rest, HasLeft(files', start, p, rest) PROVE GoesOn(p, tail)
  BY <1>1, <1>7 DEF GoesOn
<1>8. CASE RemoveRefused
  <2>1. /\ Top.at = "call" /\ ~Exists(files, Top.src) /\ calls' = Rest /\ files' = files
        /\ UNCHANGED <<up, command, start>>
    BY <1>3, <1>8 DEF RemoveRefused, Running, Top, commandVars
  <2>2. HasLeft(files, start, p, rest)
    BY <1>1, <2>1, RefusedLeaves
  <2> QED BY <1>7, <2>1, <2>2
<1>9. CASE RemoveList
  <2> DEFINE d == [Top EXCEPT !.at = "loop", !.todo = Entries(files, Top.src)]
  <2>1. /\ Top.at = "call" /\ IsDir(files, Top.src) /\ calls' = <<d>> \o Rest /\ files' = files
        /\ UNCHANGED <<up, command, start>>
    BY <1>9 DEF RemoveList, NullList, Running, Top, At, commandVars
  <2>2. HasLeft(files, start, p, <<d>> \o rest)
    BY <1>1, <2>1, ListLeaves
  <2>3. d \in Calls
    BY <1>6 DEF Entries
  <2> HIDE DEF d
  <2> QED BY <1>5, <2>1, <2>2, <2>3
<1>10. CASE RemoveEntry
  <2>1. /\ Top.at = "loop" /\ UNCHANGED <<up, command, start>>
        /\ \E n \in Top.todo :
             LET m == Append(Top.src, n)
             IN \/ n \in Dotted /\ RemoveFile(m) /\ calls' = Without(n)
                \/ n \notin Dotted /\ calls' = <<Call("remove", m, m)>> \o Without(n)
                   /\ UNCHANGED <<files, clean>>
    BY <1>10 DEF RemoveEntry, Running, Top, commandVars
  <2>2. PICK n \in Top.todo :
             LET m == Append(Top.src, n)
             IN \/ n \in Dotted /\ RemoveFile(m) /\ calls' = Without(n)
                \/ n \notin Dotted /\ calls' = <<Call("remove", m, m)>> \o Without(n)
                   /\ UNCHANGED <<files, clean>>
    BY <2>1
  <2> DEFINE m == Append(Top.src, n)
             d == [Top EXCEPT !.at = "loop", !.todo = Top.todo \ {n}]
             e == Call("remove", m, m)
  <2>3. \/ n \in Dotted /\ RemoveFile(m) /\ calls' = <<d>> \o Rest
        \/ n \notin Dotted /\ calls' = <<e>> \o (<<d>> \o Rest) /\ files' = files
    BY <2>2 DEF Without, At
  <2>4. d \in Calls /\ m \in Path /\ e \in Calls
    BY <1>2, <1>6, EntryPath, CallFacts
  <2>5. CASE n \in Dotted /\ RemoveFile(m) /\ calls' = <<d>> \o Rest
    <3>1. \/ CanRemoveFile(files, m) /\ files' = Drop(files, m)
          \/ ~CanRemoveFile(files, m) /\ files' = files
      BY <2>5 DEF RemoveFile, Attempt, Declined
    <3> DEFINE u == Drop(files, m)
    <3>2. CASE CanRemoveFile(files, m) /\ files' = Drop(files, m)
      <4>1. HasLeft(Drop(files, m), start, p, <<d>> \o rest)
        BY <1>1, <2>1, <2>5, <3>2, EntryRemoved
      <4> HIDE DEF d, m
      <4> QED BY <1>5, <2>1, <2>4, <2>5, <3>2, <4>1
    <3>3. CASE ~CanRemoveFile(files, m) /\ files' = files
      <4>1. HasLeft(files, start, p, <<d>> \o rest)
        BY <1>1, <2>1, <2>5, <3>3, EntryRemoved
      <4> HIDE DEF d, m
      <4> QED BY <1>5, <2>1, <2>4, <2>5, <3>3, <4>1
    <3> QED BY <3>1, <3>2, <3>3
  <2>6. CASE n \notin Dotted /\ calls' = <<e>> \o (<<d>> \o Rest) /\ files' = files
    <3>1. HasLeft(files, start, p, <<e>> \o (<<d>> \o rest))
      BY <1>1, <2>1, <2>6, EntryCalled
    <3> HIDE DEF d, e
    <3>2. <<d>> \o rest \in Seq(Calls) /\ <<d>> \in Seq(Calls)
      BY <1>1, <2>4, ConcatProperties
    <3>3. <<d>> \o Rest = (<<d>> \o rest) \o tail
      BY <1>1, <3>2, ConcatAssociative
    <3> QED BY <1>1, <2>1, <2>4, <2>6, <3>1, <3>2, <3>3, GoesOnWith
  <2> QED BY <2>1, <2>3, <2>5, <2>6
<1>11. CASE RemoveSelf
  <2>1. /\ Top.at = "loop" /\ Top.todo = {} /\ calls' = Rest /\ UNCHANGED <<up, command, start>>
        /\ \/ CanRemoveDir(files, Top.src) /\ files' = Drop(files, Top.src)
           \/ ~CanRemoveDir(files, Top.src) /\ files' = files
    BY <1>11 DEF RemoveSelf, RemoveEmptyDir, Attempt, Declined, Running, Top, commandVars
  <2>2. CASE CanRemoveDir(files, Top.src) /\ files' = Drop(files, Top.src)
    <3>1. HasLeft(Drop(files, Top.src), start, p, rest)
      BY <1>1, <2>1, <2>2, SelfRemoved
    <3> QED BY <1>7, <2>1, <2>2, <3>1
  <2>3. CASE ~CanRemoveDir(files, Top.src) /\ files' = files
    <3>1. HasLeft(files, start, p, rest)
      BY <1>1, <2>1, <2>3, SelfRemoved
    <3> QED BY <1>7, <2>1, <2>3, <3>1
  <2> QED BY <2>1, <2>2, <2>3
<1> QED BY <1>4, <1>8, <1>9, <1>10, <1>11

-----------------------------------------------------------------------------
(* What rmdir leaves when it is over.                                      *)

\* A command that is clean after a step was clean before it.
LEMMA StaysClean ==
  ASSUME Step, Busy', clean \in BOOLEAN, clean' = TRUE
  PROVE  clean = TRUE /\ calls # <<>> /\ ~Ends /\ UNCHANGED <<command, start>>
<1>1. ~Ends /\ ~Return
  BY DEF Ends, Return, Busy, NoCommand
<1>2. ASSUME NEW can, NEW after, Attempt(can, after) PROVE clean = TRUE
  BY <1>2 DEF Attempt, Declined
<1>3. ~Declined
  BY DEF Declined
<1>4. CASE RemoveRefused \/ CopyBegin \/ CopyReturns
  BY <1>1, <1>4 DEF RemoveRefused, CopyBegin, CopyReturns, Running, commandVars
<1>5. CASE RemoveList
  BY <1>1, <1>5 DEF RemoveList, NullList, Running, commandVars
<1>6. CASE RemoveEntry
  <2>1. calls # <<>> /\ UNCHANGED <<command, start>>
    BY <1>6 DEF RemoveEntry, Running, commandVars
  <2>2. PICK n \in Top.todo : RemoveFile(Append(Top.src, n)) \/ clean' = clean
    BY <1>6 DEF RemoveEntry
  <2>3. clean = TRUE
    BY <1>2, <2>2 DEF RemoveFile
  <2> QED BY <1>1, <2>1, <2>3
<1>7. CASE RemoveSelf \/ FileCopyWrite \/ Rename
  <2>1. calls # <<>> /\ UNCHANGED <<command, start>>
    BY <1>7 DEF RemoveSelf, FileCopyWrite, Rename, Running, commandVars
  <2>2. \E can, after : Attempt(can, after)
    BY <1>7, Zenon DEF RemoveSelf, RemoveEmptyDir, FileCopyWrite, Rename
  <2> QED BY <1>1, <1>2, <2>1, <2>2
<1>8. CASE CopyRefused
  BY <1>1, <1>3, <1>8 DEF CopyRefused, Running, commandVars
<1>9. CASE CopyMake
  <2>1. calls # <<>> /\ UNCHANGED <<command, start>> /\ CreateDir(Top.dst)
    BY <1>1, <1>9 DEF CopyMake, Running, commandVars
  <2> QED BY <1>1, <1>2, <2>1 DEF CreateDir
<1>10. CASE CopyEntry
  <2>1. calls # <<>> /\ UNCHANGED <<command, start>>
    BY <1>10 DEF CopyEntry, Running, commandVars
  <2>2. clean' = clean
    BY <1>3, <1>10 DEF CopyEntry, FileCopy
  <2> QED BY <1>1, <2>1, <2>2
<1>11. CASE CatCopies
  <2>1. /\ calls # <<>> /\ UNCHANGED <<command, start>>
        /\ Attempt(TRUE, Put(files, Top.dst, File(CatText(command.src, Top.src, Top.dst))))
    BY <1>11 DEF CatCopies, Running, commandVars
  <2> QED BY <1>1, <1>2, <2>1
<1>12. CASE CatGrows
  BY <1>1, <1>12 DEF CatGrows, Running, commandVars
<1>13. ~ReadFails /\ ~CatFillsDisk /\ ~CatNoSecond
  BY <1>1, <1>3 DEF ReadFails, CatFillsDisk, CatNoSecond
<1> QED BY <1>1, <1>4, <1>5, <1>6, <1>7, <1>8, <1>9, <1>10, <1>11, <1>12, <1>13 DEF Step

LEMMA RemoveStep ==
  ASSUME TypeInv, TypeInv', RemoveInv, Step, Busy', command'.name = "rmdir", clean'
  PROVE  RemoveInv'
<1> DEFINE p == command.dst
           c == Call("remove", p, p)
<1>0. clean \in BOOLEAN /\ clean' = TRUE
  BY DEF TypeInv
<1>1. clean = TRUE /\ calls # <<>> /\ ~Ends /\ UNCHANGED <<command, start>> /\ p' = p
  BY <1>0, StaysClean
<1>2. Busy /\ command.name = "rmdir" /\ p \in Path /\ IsDrive(files) /\ IsDrive(start)
  BY <1>1 DEF TypeInv, Busy, Commands
<1>3. /\ p # <<>>
      /\ IF IsFileName(p) THEN files = start /\ calls \in {<<>>, <<c>>}
         ELSE Removals(start, p, calls) /\ Left(files, start, p, calls)
  BY <1>1, <1>2, Zenon DEF RemoveInv
<1> HIDE DEF p
<1>4. CASE IsFileName(p)
  <2>1. calls = <<c>> /\ files = start
    BY <1>1, <1>3, <1>4
  <2>2. Top = c /\ c.proc = "remove" /\ c.at = "call" /\ c.src = p /\ Rest = <<>>
    BY <2>1 DEF Top, Rest, Call
  <2> HIDE DEF c
  <2>3. RemoveRefused
    BY <1>1, <1>4, <2>2, ReadStops, CatRuns DEF Step, RemoveList, RemoveEntry, RemoveSelf,
         CopyRefused, CopyBegin, CopyMake, CopyEntry, CopyReturns, FileCopyWrite, Rename, Return,
         Done, Running, Top, CatStep
  <2>4. calls' = <<>> /\ files' = files
    BY <2>2, <2>3 DEF RemoveRefused
  <2> QED BY <1>1, <1>3, <1>4, <2>1, <2>4 DEF RemoveInv, p
<1>5. CASE ~IsFileName(p)
  <2>1. Removals(start, p, calls) /\ Left(files, start, p, calls)
    BY <1>3, <1>5
  <2>2. calls \in Seq(Calls) /\ <<>> \in Seq(Calls) /\ calls = calls \o <<>>
    BY <2>1, EmptySeq, ConcatEmptySeq DEF Removals, Nested
  <2>3. OnRemoval(p, calls, <<>>)
    BY <1>1, <1>2, <1>3, <2>1, <2>2 DEF OnRemoval, HasLeft
  <2>4. GoesOn(p, <<>>)
    BY <1>1, <2>3, RemovalStep
  <2>5. PICK rs \in Seq(Calls) : calls' = rs \o <<>> /\ HasLeft(files', start, p, rs)
    BY <2>4 DEF GoesOn
  <2>6. calls' = rs
    BY <2>5, ConcatEmptySeq
  <2>7. Removals(start, p, calls') /\ Left(files', start, p, calls')
    BY <2>5, <2>6 DEF HasLeft
  <2> QED BY <1>1, <1>3, <1>5, <2>7 DEF RemoveInv, p
<1> QED BY <1>4, <1>5

\* When a removal begins, all of its directory awaits it.
LEMMA RemovalBegins ==
  ASSUME NEW t, NEW p \in Path, ~IsFileName(p)
  PROVE  HasLeft(t, t, p, <<Call("remove", p, p)>>)
<1> DEFINE c == Call("remove", p, p)
<1>1. c \in Calls /\ c.proc = "remove" /\ c.at = "call" /\ c.src = p
  BY CallFacts DEF Call
<1> HIDE DEF c
<1>2. <<c>> \in Seq(Calls) /\ Len(<<c>>) = 1 /\ <<c>>[1] = c
  BY <1>1
<1>3. Removes(t, p, c)
  BY <1>1, UnderItself DEF Removes
<1>4. Removals(t, p, <<c>>)
  BY <1>1, <1>2, <1>3 DEF Removals, Nested
<1>5. \A q \in Below(t, p) : Awaited(<<c>>, q)
  BY <1>1, <1>2 DEF Awaited, Awaits, Below
<1> QED BY <1>4, <1>5 DEF HasLeft, Left, c

LEMMA RemoveEntered ==
  ASSUME NEW p \in Path, p # <<>>, RmDir(p)
  PROVE  RemoveInv'
<1> DEFINE c == Call("remove", p, p)
<1>1. /\ command' = [name |-> "rmdir", src |-> p, dst |-> p] /\ start' = files /\ files' = files
      /\ calls' = <<c>>
  BY DEF RmDir, Begin
<1>2. command'.dst = p /\ start' = files'
  BY <1>1
<1>3. ~IsFileName(p) => Removals(files, p, calls') /\ Left(files, files, p, calls')
  BY <1>1, RemovalBegins DEF HasLeft
<1>4. ~IsFileName(p) => Removals(start', p, calls') /\ Left(files', start', p, calls')
  BY <1>1, <1>3
<1>5. IsFileName(p) => files' = start' /\ calls' = <<c>>
  BY <1>1
<1> QED BY <1>2, <1>4, <1>5 DEF RemoveInv

LEMMA RemoveNext == TypeInv /\ RemoveInv /\ [Next]_vars => RemoveInv'
<1> SUFFICES ASSUME TypeInv, RemoveInv, [Next]_vars PROVE RemoveInv'
  OBVIOUS
<1>1. CASE Start \/ UNCHANGED vars
  <2>1. UNCHANGED <<files, calls, command, start, clean>>
    BY <1>1 DEF Start, vars, commandVars
  <2> QED BY <2>1 DEF RemoveInv, Busy
<1>2. CASE Kill \/ Ends
  BY <1>2 DEF Kill, Ends, RemoveInv, Busy
<1>3. CASE Enter
  <2>1. \A p \in Typed : p \in Path /\ p # <<>>
    BY EmptySeq DEF Typed, Paths, BoundedSeq, SeqOf, Path
  <2>2. PICK p \in Typed :
          \/ MkDir(p) \/ Rm(p) \/ RmDir(p)
          \/ \E src \in DOMAIN files \ {<<>>} : Cp(src, p) \/ Mv(src, p)
          \/ \E d \in Data : SaveFile(p, d)
          \/ \E p1, p2 \in DOMAIN files : Cat(p1, p2, p)
    BY <1>3 DEF Enter
  <2>3. CASE RmDir(p)
    BY <2>1, <2>3, RemoveEntered
  <2>4. CASE ~RmDir(p)
    <3>1. \/ Ends
          \/ ~Busy'
          \/ \E name \in {"mkdir", "rm", "cp", "mv", "cat"} : \E src, dst : Begin(name, src, dst)
      BY <2>2, <2>4 DEF MkDir, Rm, Cp, Mv, SaveFile, Cat, AtPrompt, Busy, commandVars
    <3> QED BY <1>2, <3>1 DEF Begin, RemoveInv
  <2> QED BY <2>3, <2>4
<1>4. CASE Step
  BY <1>4, NextType, RemoveStep, Zenon DEF RemoveInv
<1> QED BY <1>1, <1>2, <1>3, <1>4 DEF Next

\* A rmdir that nothing gets in the way of removes everything but directories that
\* have a '.' in their name, with all they hold, and the directories on the way to
\* them: no entry of a list is missed, on any level, and no directory is left for
\* which nothing in it was stuck.
THEOREM RemovalIsWhole == Spec => []RemovesAllItCan
<1>1. Init => RemoveInv
  BY DEF Init, RemoveInv, Busy
<1>2. TypeInv /\ RemoveInv => RemovesAllItCan
  <2> SUFFICES ASSUME RemoveInv, Done, command.name = "rmdir", clean
               PROVE  LET p == command.dst
                          stuck == DottedDirs(start, p)
                      IN Below(files, p) =
                           IF IsFileName(p) THEN Below(start, p)
                           ELSE {q \in Below(start, p) : \E r \in stuck : Under(q, r) \/ Under(r, q)}
    BY DEF RemovesAllItCan
  <2> DEFINE p == command.dst
  <2>1. calls = <<>> /\ Busy
    BY DEF Done
  <2>2. IF IsFileName(p) THEN files = start
        ELSE Removals(start, p, calls) /\ Left(files, start, p, calls)
    BY <2>1, Zenon DEF RemoveInv
  <2>3. \A q : ~Awaited(calls, q)
    BY <2>1 DEF Awaited
  <2> QED BY <2>2, <2>3 DEF Left, Blocked
<1> QED BY <1>1, <1>2, InitType, NextType, RemoveNext, PTL DEF Spec

-----------------------------------------------------------------------------
(* What a copy achieves as a whole.                                        *)

LEMMA MovedWhole ==
  ASSUME NEW p \in Path, NEW new \in Path
  PROVE  Moved(p, p, new) = new
<1> DEFINE m == Moved(p, p, new)
<1>1. /\ m \in Path /\ Len(m) = Len(new) + (Len(p) - Len(p))
      /\ \A i \in 1 .. Len(new) : m[i] = new[i]
  BY UnderItself, MovedIs DEF IsMoved
<1> HIDE DEF m
<1>2. Len(m) = Len(new)
  BY <1>1, LenProperties DEF Path
<1> QED BY <1>1, <1>2, SeqEqual DEF Path, m

LEMMA MovedOnce ==
  ASSUME NEW p \in Path, NEW q \in Path, NEW old \in Path, NEW new \in Path,
         Under(p, old), Under(q, old), Moved(p, old, new) = Moved(q, old, new)
  PROVE  p = q
BY MovedFacts

LEMMA MovedEntry ==
  ASSUME NEW p \in Path, NEW old \in Path, NEW new \in Path, NEW n \in Names, Under(p, old)
  PROVE  Moved(Append(p, n), old, new) = Append(Moved(p, old, new), n)
<1> DEFINE e == Append(p, n)
           m == Moved(p, old, new)
           me == Moved(e, old, new)
           am == Append(m, n)
<1>1. /\ e \in Path /\ Len(e) = Len(p) + 1 /\ e[Len(p) + 1] = n
      /\ \A i \in 1 .. Len(p) : e[i] = p[i]
      /\ Under(e, old)
  BY EntryPath, UnderTrans
<1>2. /\ Len(p) \in Nat /\ Len(old) \in Nat /\ Len(new) \in Nat /\ Len(old) <= Len(p)
  BY LenProperties DEF Path, Under
<1> HIDE DEF e
<1>3. /\ m \in Path /\ Len(m) = Len(new) + (Len(p) - Len(old))
      /\ \A i \in 1 .. Len(new) : m[i] = new[i]
      /\ \A i \in 1 .. Len(p) - Len(old) : m[Len(new) + i] = p[Len(old) + i]
  BY MovedIs DEF IsMoved
<1>4. /\ me \in Path /\ Len(me) = Len(new) + (Len(e) - Len(old))
      /\ \A i \in 1 .. Len(new) : me[i] = new[i]
      /\ \A i \in 1 .. Len(e) - Len(old) : me[Len(new) + i] = e[Len(old) + i]
  <2>1. e \in Path /\ old \in Path /\ new \in Path /\ Under(e, old)
    BY <1>1
  <2>2. IsMoved(me, e, old, new)
    BY <2>1, MovedIs
  <2> QED BY <2>2 DEF IsMoved
<1> HIDE DEF m
<1>5. /\ am \in Path /\ Len(am) = Len(m) + 1 /\ am[Len(m) + 1] = n
      /\ \A i \in 1 .. Len(m) : am[i] = m[i]
  BY <1>3, EntryPath
<1> HIDE DEF me, am
<1>6. Len(me) = Len(am) /\ Len(am) = Len(new) + (Len(p) - Len(old)) + 1
  BY <1>1, <1>2, <1>3, <1>4, <1>5
<1>7. ASSUME NEW i \in 1 .. Len(me) PROVE me[i] = am[i]
  <2>1. CASE i <= Len(new)
    BY <1>2, <1>3, <1>4, <1>5, <1>6, <2>1
  <2>2. CASE i > Len(new)
    <3> DEFINE j == i - Len(new)
    <3>1. j \in 1 .. Len(p) - Len(old) + 1 /\ i = Len(new) + j
      BY <1>2, <1>6, <2>2
    <3> HIDE DEF j
    <3>2. me[i] = e[Len(old) + j]
      <4>1. j \in 1 .. Len(e) - Len(old)
        BY <1>1, <1>2, <3>1
      <4> QED BY <1>4, <3>1, <4>1
    <3>3. CASE j <= Len(p) - Len(old)
      <4>1. j \in 1 .. Len(p) - Len(old) /\ Len(old) + j \in 1 .. Len(p) /\ i \in 1 .. Len(m)
        BY <1>2, <1>3, <3>1, <3>3
      <4> QED BY <1>1, <1>3, <1>5, <3>1, <3>2, <4>1
    <3>4. CASE j = Len(p) - Len(old) + 1
      <4>1. Len(old) + j = Len(p) + 1 /\ i = Len(m) + 1
        BY <1>2, <1>3, <3>1, <3>4
      <4> QED BY <1>1, <1>5, <3>2, <4>1
    <3>5. j <= Len(p) - Len(old) \/ j = Len(p) - Len(old) + 1
      BY <1>2, <3>1
    <3> QED BY <3>3, <3>4, <3>5
  <2> QED BY <1>2, <1>6, <2>1, <2>2
<1> QED BY <1>4, <1>5, <1>6, <1>7, SeqEqual DEF Path, e, m, me, am

LEMMA EntryParent ==
  ASSUME NEW p \in Path, NEW n \in Names
  PROVE  Parent(Append(p, n)) = p
<1> DEFINE e == Append(p, n)
           par == Parent(e)
<1>1. e \in Path /\ e # <<>> /\ Len(e) = Len(p) + 1 /\ Under(e, p) /\ p # e /\ Len(p) \in Nat
  BY EntryPath, LenProperties DEF Path
<1> HIDE DEF e
<1>2. par \in Path /\ Len(par) = Len(e) - 1 /\ Under(par, p)
  BY <1>1, ParentFacts
<1> HIDE DEF par
<1>3. Under(p, par)
  BY <1>1, <1>2 DEF Under
<1> QED BY <1>2, <1>3, UnderEach DEF par, e

LEMMA SomeParent ==
  ASSUME NEW p \in Path, NEW q \in Path, Under(p, q), p # q
  PROVE  \E r \in Path, n \in Names : p = Append(r, n) /\ Under(r, q)
<1> DEFINE r == Parent(p)
           n == p[Len(p)]
           e == Append(r, n)
<1>1. p # <<>>
  BY UnderAll, UnderEach
<1>2. Len(p) \in Nat \ {0} /\ n \in Names
  BY <1>1, EmptySeq, ElementOfSeq DEF Path
<1>3. /\ r \in Path /\ Len(r) = Len(p) - 1 /\ Under(r, q) /\ Under(p, r)
  BY <1>1, ParentFacts
<1>4. \A i \in 1 .. Len(r) : p[i] = r[i]
  BY <1>3 DEF Under
<1> HIDE DEF r, n
<1>5. /\ e \in Path /\ Len(e) = Len(r) + 1 /\ e[Len(r) + 1] = n
      /\ \A i \in 1 .. Len(r) : e[i] = r[i]
  BY <1>2, <1>3, EntryPath
<1> HIDE DEF e
<1>6. ASSUME NEW i \in 1 .. Len(p) PROVE p[i] = e[i]
  <2>1. i \in 1 .. Len(r) \/ i = Len(p)
    BY <1>2, <1>3
  <2> QED BY <1>2, <1>3, <1>4, <1>5, <2>1 DEF n
<1>7. p = e
  BY <1>2, <1>3, <1>5, <1>6, SeqEqual DEF Path
<1> QED BY <1>2, <1>3, <1>7 DEF e

-----------------------------------------------------------------------------
\* What a copy of src copies, of the drive s it began with.
Copied(s, src) == {p \in Below(s, src) : \A r \in DottedDirs(s, src) : ~Under(p, r)}

\* What the call c has still to copy; its own directory too, until that is made.
Still(c, q) ==
  IF c.at = "loop" THEN \E n \in c.todo : Under(q, Append(c.src, n)) ELSE Under(q, c.src)
Pending(rs, q) == \E i \in 1 .. Len(rs) : Still(rs[i], q)
There(s, src, rs) == {p \in Copied(s, src) : ~Pending(rs, p)}

\* The calls of a copy from src to dst.
Copies(s, src, dst, c) ==
  /\ c \in Calls /\ c.proc = "copy" /\ c.src \in Copied(s, src)
  /\ ~IsFileName(c.src) /\ ~IsFileName(c.dst) /\ c.dst = Moved(c.src, src, dst)
  /\ c.at = "loop" => IsDir(s, c.src) /\ \A n \in c.todo : Append(c.src, n) \in DOMAIN s
Copying(s, src, dst, rs) == Nested({c \in Calls : Copies(s, src, dst, c)}, rs)

\* The drive t has in dst the copy of what is there, the files in w still empty.
SoFar(s, p, w) == IF p \in w THEN File(<<>>) ELSE AsCopied(s[p])
Reached(t, s, src, dst, there, w) ==
  /\ Below(t, dst) = {Moved(p, src, dst) : p \in there}
  /\ \A p \in there : t[Moved(p, src, dst)] = SoFar(s, p, w)

\* The two drives of a copy that can be made.
Copyable(t, s, src, dst) ==
  /\ IsDrive(t) /\ IsDrive(s) /\ src \in Path /\ dst \in Path
  /\ Unrelated(src, dst) /\ Room(s, src, dst)
  /\ \A q : Under(q, dst) \/ SameAt(t, s, q)

LEMMA CopiedFacts ==
  ASSUME NEW s, IsDrive(s), NEW src \in Path, NEW p \in Copied(s, src)
  PROVE  p \in Path /\ p \in DOMAIN s /\ Under(p, src)
BY DEF Copied, Below, IsDrive

\* The source is as it was.
LEMMA SourceKept ==
  ASSUME NEW t, NEW s, NEW src, NEW dst, Copyable(t, s, src, dst),
         NEW q \in Path, Under(q, src)
  PROVE  SameAt(t, s, q)
BY UnderBoth DEF Copyable

\* An entry is at the target exactly when it is there.
LEMMA ReachedFacts ==
  ASSUME NEW t, NEW s, NEW src, NEW dst, Copyable(t, s, src, dst),
         NEW there \in SUBSET Copied(s, src), NEW w, Reached(t, s, src, dst, there, w),
         NEW p \in Copied(s, src)
  PROVE  /\ Moved(p, src, dst) \in Path /\ Under(Moved(p, src, dst), dst)
         /\ Moved(p, src, dst) \in DOMAIN t <=> p \in there
<1>1. IsDrive(s) /\ src \in Path /\ dst \in Path
  BY DEF Copyable
<1>2. \A q \in Copied(s, src) : q \in Path /\ Under(q, src)
  BY <1>1, CopiedFacts
<1>3. Moved(p, src, dst) \in Path /\ Under(Moved(p, src, dst), dst)
  BY <1>1, <1>2, MovedFacts
<1>4. ASSUME NEW q \in there, Moved(q, src, dst) = Moved(p, src, dst) PROVE q = p
  BY <1>1, <1>2, <1>4, MovedOnce
<1>5. Below(t, dst) = {Moved(q, src, dst) : q \in there}
  BY DEF Reached
<1>6. Moved(p, src, dst) \in Below(t, dst) <=> Moved(p, src, dst) \in DOMAIN t
  BY <1>3 DEF Below
<1> QED BY <1>3, <1>4, <1>5, <1>6

\* One more entry is made, or one of those that are there is written.
CanPut(t, s, src, dst, there, v, p) ==
  /\ Copyable(t, s, src, dst) /\ there \subseteq Copied(s, src)
  /\ Reached(t, s, src, dst, there, v)
  /\ p \in Copied(s, src) /\ v \subseteq {p}

LEMMA ReachedPut ==
  ASSUME NEW t, NEW s, NEW src, NEW dst, NEW there, NEW v, NEW p,
         CanPut(t, s, src, dst, there, v, p), NEW w, w \subseteq {p},
         NEW e, e = SoFar(s, p, w)
  PROVE  Reached(Put(t, Moved(p, src, dst), e), s, src, dst, there \cup {p}, w)
<1> DEFINE m == Moved(p, src, dst)
           u == Put(t, m, e)
           M(q) == Moved(q, src, dst)
<1>1. /\ IsDrive(s) /\ src \in Path /\ dst \in Path
      /\ there \subseteq Copied(s, src) /\ p \in Copied(s, src) /\ v \subseteq {p}
  BY DEF CanPut, Copyable
<1>2. \A q \in Copied(s, src) : q \in Path /\ Under(q, src)
  BY <1>1, CopiedFacts
<1>3. ASSUME NEW q \in there, M(q) = M(p) PROVE q = p
  BY <1>1, <1>2, <1>3, MovedOnce
<1>4. Under(m, dst)
  BY <1>1, <1>2, MovedFacts
<1>5. Below(t, dst) = {M(q) : q \in there}
      /\ \A q \in there : t[M(q)] = SoFar(s, q, v)
  BY DEF CanPut, Reached
<1>6. \A q \in there : M(q) \in DOMAIN t
  BY <1>5 DEF Below
<1>7. DOMAIN u = DOMAIN t \cup {m} /\ u[m] = e /\ \A q \in DOMAIN t : q # m => u[q] = t[q]
  BY DEF Put
<1>8. Below(u, dst) = Below(t, dst) \cup {m}
  BY <1>4, <1>7 DEF Below
<1> HIDE DEF u
<1>9. ASSUME NEW q \in there \cup {p}
      PROVE  u[M(q)] = SoFar(s, q, w)
  <2>1. CASE q = p
    BY <1>7, <2>1 DEF SoFar
  <2>2. CASE q # p
    <3>1. q \in there /\ M(q) # m /\ q \notin v /\ q \notin w
      BY <1>1, <1>3, <2>2
    <3> QED BY <1>5, <1>6, <1>7, <3>1 DEF SoFar
  <2> QED BY <2>1, <2>2
<1>10. Below(u, dst) = {M(q) : q \in there \cup {p}}
  BY <1>5, <1>8
<1> QED BY <1>9, <1>10 DEF Reached, u

-----------------------------------------------------------------------------
(* The steps of dir_copy.                                                  *)

LEMMA PendingPushed ==
  ASSUME NEW c \in Calls, NEW rest \in Seq(Calls), NEW q
  PROVE  Pending(<<c>> \o rest, q) <=> Still(c, q) \/ Pending(rest, q)
<1> DEFINE S == {d \in Calls : Still(d, q)}
           s == <<c>> \o rest
<1>1. (\E i \in 1 .. Len(s) : s[i] \in S) <=> c \in S \/ \E i \in 1 .. Len(rest) : rest[i] \in S
  BY SomePushed
<1>2. /\ \A i \in 1 .. Len(rest) : rest[i] \in Calls
      /\ \A i \in 1 .. Len(s) : s[i] \in Calls
  BY Pushed, ElementOfSeq
<1> HIDE DEF s
<1> QED BY <1>1, <1>2 DEF Pending, s

LEMMA CopyingPushed ==
  ASSUME NEW s, NEW src, NEW dst, NEW c \in Calls, NEW rest \in Seq(Calls)
  PROVE  Copying(s, src, dst, <<c>> \o rest) <=>
           /\ Copies(s, src, dst, c) /\ Copying(s, src, dst, rest)
           /\ \A j \in 1 .. Len(rest) : MadeBy(c, rest[j])
<1> DEFINE S == {d \in Calls : Copies(s, src, dst, d)}
           rs == <<c>> \o rest
<1>1. Nested(S, rs) <=> c \in S /\ Nested(S, rest) /\ \A j \in 1 .. Len(rest) : MadeBy(c, rest[j])
  BY NestedPushed
<1>2. Copying(s, src, dst, rs) <=> Nested(S, rs)
  BY DEF Copying
<1>3. Copying(s, src, dst, rest) <=> Nested(S, rest)
  BY DEF Copying
<1> HIDE DEF rs
<1>4. c \in S <=> Copies(s, src, dst, c)
  OBVIOUS
<1> HIDE DEF S
<1> QED BY <1>1, <1>2, <1>3, <1>4 DEF rs

\* What the steps of a copy begin with: the call c is the running one.
AtCopy(t, s, src, dst, c, rest) ==
  /\ Copyable(t, s, src, dst) /\ c \in Calls /\ rest \in Seq(Calls)
  /\ Copying(s, src, dst, <<c>> \o rest)
  /\ Reached(t, s, src, dst, There(s, src, <<c>> \o rest), {})

\* And what they end with.
HasCopied(t, s, src, dst, rs) ==
  Copying(s, src, dst, rs) /\ Reached(t, s, src, dst, There(s, src, rs), {})

\* The entry being written, on top of those calls.
HasOpened(t, s, src, dst, p, rs) ==
  /\ p \in There(s, src, rs) /\ IsFile(s, p)
  /\ Copying(s, src, dst, rs) /\ Reached(t, s, src, dst, There(s, src, rs), {p})

LEMMA AtCopyFacts ==
  ASSUME NEW t, NEW s, NEW src, NEW dst, NEW c, NEW rest, AtCopy(t, s, src, dst, c, rest)
  PROVE  /\ Copyable(t, s, src, dst) /\ c \in Calls /\ rest \in Seq(Calls)
         /\ IsDrive(t) /\ IsDrive(s) /\ src \in Path /\ dst \in Path
         /\ c.src \in Path /\ c.dst \in Path /\ c.todo \subseteq Names /\ Under(c.src, src)
         /\ Copies(s, src, dst, c) /\ Copying(s, src, dst, rest)
         /\ \A j \in 1 .. Len(rest) : MadeBy(c, rest[j])
         /\ \A q \in Path : Under(q, c.src) => ~Pending(rest, q)
         /\ \A q : q \in There(s, src, <<c>> \o rest) <=>
              q \in Copied(s, src) /\ ~Still(c, q) /\ ~Pending(rest, q)
<1>1. Copyable(t, s, src, dst) /\ c \in Calls /\ rest \in Seq(Calls)
  BY DEF AtCopy
<1>2. /\ IsDrive(t) /\ IsDrive(s) /\ src \in Path /\ dst \in Path
      /\ c.src \in Path /\ c.dst \in Path /\ c.todo \subseteq Names
  BY <1>1 DEF Copyable, Calls
<1>3. /\ Copies(s, src, dst, c) /\ Copying(s, src, dst, rest)
      /\ \A j \in 1 .. Len(rest) : MadeBy(c, rest[j])
  BY <1>1, CopyingPushed DEF AtCopy
<1>4. Under(c.src, src)
  BY <1>2, <1>3, CopiedFacts DEF Copies
<1>5. ASSUME NEW q \in Path, Under(q, c.src) PROVE ~Pending(rest, q)
  <2> SUFFICES ASSUME NEW j \in 1 .. Len(rest), Still(rest[j], q) PROVE FALSE
    BY DEF Pending
  <2>1. rest[j] \in Calls /\ MadeBy(c, rest[j])
    BY <1>1, <1>3, ElementOfSeq
  <2>2. rest[j].at = "loop"
    BY <2>1 DEF MadeBy
  <2>3. Awaits(rest[j], q)
    BY <2>2 DEF Awaits, Still
  <2> QED BY <1>2, <1>5, <2>1, <2>3, MadeByAlone
<1>6. \A q : Pending(<<c>> \o rest, q) <=> Still(c, q) \/ Pending(rest, q)
  BY <1>1, PendingPushed
<1>7. \A q : q \in There(s, src, <<c>> \o rest) <=>
        q \in Copied(s, src) /\ ~Still(c, q) /\ ~Pending(rest, q)
  BY <1>6 DEF There
<1> QED BY <1>1, <1>2, <1>3, <1>4, <1>5, <1>7

\* A call that has not made its directory finds nothing there, and the directory
\* it is to be made in.
LEMMA NotMadeYet ==
  ASSUME NEW t, NEW s, NEW src, NEW dst, NEW c, NEW rest, AtCopy(t, s, src, dst, c, rest),
         c.at # "loop"
  PROVE  ~Exists(t, c.dst) /\ CanMakeDir(t, c.dst)
<1> DEFINE there == There(s, src, <<c>> \o rest)
<1>1. /\ Copyable(t, s, src, dst) /\ c \in Calls /\ rest \in Seq(Calls)
      /\ IsDrive(t) /\ IsDrive(s) /\ src \in Path /\ dst \in Path
      /\ c.src \in Path /\ c.dst \in Path /\ c.todo \subseteq Names /\ Under(c.src, src)
      /\ Copies(s, src, dst, c) /\ Copying(s, src, dst, rest)
      /\ \A j \in 1 .. Len(rest) : MadeBy(c, rest[j])
      /\ \A q \in Path : Under(q, c.src) => ~Pending(rest, q)
      /\ \A q : q \in there <=> q \in Copied(s, src) /\ ~Still(c, q) /\ ~Pending(rest, q)
  BY AtCopyFacts
<1>2. there \in SUBSET Copied(s, src) /\ Reached(t, s, src, dst, there, {})
  BY DEF AtCopy, There
<1> HIDE DEF there
<1>3. /\ c.src \in Copied(s, src) /\ c.dst = Moved(c.src, src, dst)
      /\ \A q : Still(c, q) <=> Under(q, c.src)
  BY <1>1 DEF Copies, Still
<1>4. c.src \notin there
  BY <1>1, <1>3, UnderItself
<1>5. ~Exists(t, c.dst) /\ Under(c.dst, dst)
  BY <1>1, <1>2, <1>3, <1>4, ReachedFacts DEF Exists
<1>6. c.dst # <<>>
  <2>1. dst # <<>>
    BY <1>1, UnderAll DEF Copyable, Unrelated
  <2> QED BY <1>1, <1>5, <2>1, UnderAll, UnderEach
<1>7. Len(c.dst) <= MAX_DEPTH
  <2>1. c.src \in Below(s, src)
    BY <1>3 DEF Copied
  <2> QED BY <1>1, <1>3, <2>1 DEF Copyable, Room
<1>8. IsDir(t, Parent(c.dst))
  <2>1. CASE c.src = src
    <3>1. c.dst = dst
      BY <1>1, <1>3, <2>1, MovedWhole
    <3>2. ~Under(Parent(dst), dst)
      BY <1>1, <1>6, <3>1, ParentFacts, UnderEach
    <3>3. IsDir(s, Parent(dst))
      BY <1>1 DEF Copyable, Room
    <3> QED BY <1>1, <3>1, <3>2, <3>3 DEF Copyable, SameAt, IsDir, Exists
  <2>2. CASE c.src # src
    <3>1. PICK r \in Path, n \in Names : c.src = Append(r, n) /\ Under(r, src)
      BY <1>1, <2>2, SomeParent
    <3>2. Parent(c.dst) = Moved(r, src, dst)
      <4>1. Moved(r, src, dst) \in Path /\ c.dst = Append(Moved(r, src, dst), n)
        BY <1>1, <1>3, <3>1, MovedEntry, MovedFacts
      <4> QED BY <4>1, EntryParent
    <3>3. Under(c.src, r) /\ ~Under(r, c.src) /\ r # c.src
      BY <3>1, EntryPath
    <3>4. IsDir(s, r)
      BY <1>1, <1>3, <3>3, CopiedFacts DEF IsDrive, Closed
    <3>5. r \in Copied(s, src)
      <4>1. r \in Below(s, src)
        BY <3>1, <3>4 DEF Below, IsDir, Exists
      <4>2. ASSUME NEW q \in DottedDirs(s, src), Under(r, q) PROVE FALSE
        <5>1. q \in Path
          BY <1>1 DEF DottedDirs, Below, IsDrive
        <5>2. Under(c.src, q)
          BY <1>1, <3>1, <3>3, <4>2, <5>1, UnderTrans
        <5> QED BY <1>3, <5>2 DEF Copied
      <4> QED BY <4>1, <4>2 DEF Copied
    <3>6. ~Pending(rest, r)
      <4> SUFFICES ASSUME NEW j \in 1 .. Len(rest), Still(rest[j], r) PROVE FALSE
        BY DEF Pending
      <4> DEFINE d == rest[j]
      <4>1. d \in Calls /\ MadeBy(c, d)
        BY <1>1, ElementOfSeq
      <4> HIDE DEF d
      <4>2. d.at = "loop" /\ d.src \in Path /\ d.todo \subseteq Names
        BY <4>1 DEF MadeBy, Calls
      <4>3. Still(d, r)
        BY DEF d
      <4>4. PICK m \in d.todo : Under(r, Append(d.src, m))
        BY <4>2, <4>3 DEF Still
      <4>5. Append(d.src, m) \in Path
        BY <4>2, EntryPath
      <4>6. Under(c.src, Append(d.src, m))
        BY <1>1, <3>1, <3>3, <4>4, <4>5, UnderTrans
      <4>7. PICK k \in Names \ d.todo : Under(c.src, Append(d.src, k))
        BY <4>1 DEF MadeBy
      <4> QED BY <1>1, <4>2, <4>6, <4>7, OneEntry
    <3>7. r \in there
      BY <1>1, <1>3, <3>3, <3>5, <3>6
    <3>8. Parent(c.dst) \in DOMAIN t /\ t[Parent(c.dst)] = AsCopied(s[r])
      <4>1. Moved(r, src, dst) \in DOMAIN t
        BY <1>1, <1>2, <3>5, <3>7, ReachedFacts
      <4> QED BY <1>2, <3>2, <3>7, <4>1 DEF Reached, SoFar
    <3>9. AsCopied(s[r]) = Dir /\ Dir.dir
      BY <3>4 DEF IsDir, AsCopied, Dir
    <3> QED BY <3>8, <3>9 DEF IsDir, Exists
  <2> QED BY <2>1, <2>2
<1> QED BY <1>5, <1>6, <1>7, <1>8 DEF CanMakeDir

\* What replaces the running call is a call of the same entry.
Replaces(s, src, dst, c, d) ==
  /\ d \in Calls /\ d.src = c.src /\ d.dst = c.dst
  /\ Copies(s, src, dst, d)

LEMMA Replaced ==
  ASSUME NEW t, NEW s, NEW src, NEW dst, NEW c, NEW rest, AtCopy(t, s, src, dst, c, rest),
         NEW d, Replaces(s, src, dst, c, d)
  PROVE  /\ Copying(s, src, dst, <<d>> \o rest)
         /\ \A q : q \in There(s, src, <<d>> \o rest) <=>
              q \in Copied(s, src) /\ ~Still(d, q) /\ ~Pending(rest, q)
<1>1. /\ rest \in Seq(Calls) /\ Copying(s, src, dst, rest)
      /\ \A j \in 1 .. Len(rest) : MadeBy(c, rest[j])
  BY AtCopyFacts
<1>2. d \in Calls /\ d.src = c.src /\ Copies(s, src, dst, d)
  BY DEF Replaces
<1>3. \A j \in 1 .. Len(rest) : MadeBy(d, rest[j])
  BY <1>1, <1>2 DEF MadeBy
<1>4. Copying(s, src, dst, <<d>> \o rest)
  BY <1>1, <1>2, <1>3, CopyingPushed
<1>5. \A q : Pending(<<d>> \o rest, q) <=> Still(d, q) \/ Pending(rest, q)
  BY <1>1, <1>2, PendingPushed
<1>6. \A q : q \in There(s, src, <<d>> \o rest) <=>
        q \in Copied(s, src) /\ ~Still(d, q) /\ ~Pending(rest, q)
  BY <1>5 DEF There
<1> QED BY <1>4, <1>6

\* Nothing is made: what is there must be the same.
LEMMA SameThere ==
  ASSUME NEW t, NEW s, NEW src, NEW dst, NEW c, NEW rest, AtCopy(t, s, src, dst, c, rest),
         NEW rs, Copying(s, src, dst, rs),
         \A q : q \in There(s, src, rs) <=> q \in There(s, src, <<c>> \o rest)
  PROVE  HasCopied(t, s, src, dst, rs)
<1>1. There(s, src, rs) = There(s, src, <<c>> \o rest)
  OBVIOUS
<1> QED BY <1>1 DEF AtCopy, HasCopied

\* The target of an entry of a directory was not there before the copy.
LEMMA BeginLeaves ==
  ASSUME NEW t, NEW s, NEW src, NEW dst, NEW c, NEW rest, AtCopy(t, s, src, dst, c, rest),
         c.at = "call", NEW d, d = [c EXCEPT !.at = "make", !.todo = {}]
  PROVE  HasCopied(t, s, src, dst, <<d>> \o rest)
<1>1. c \in Calls /\ Copies(s, src, dst, c)
      /\ \A q : q \in There(s, src, <<c>> \o rest) <=>
           q \in Copied(s, src) /\ ~Still(c, q) /\ ~Pending(rest, q)
  BY AtCopyFacts
<1>2. d \in Calls /\ d.src = c.src /\ d.dst = c.dst /\ d.at = "make" /\ d.proc = c.proc
  BY <1>1 DEF Calls
<1>3. Replaces(s, src, dst, c, d)
  BY <1>1, <1>2 DEF Copies, Replaces
<1>4. \A q : Still(d, q) <=> Still(c, q)
  BY <1>2 DEF Still
<1>5. /\ Copying(s, src, dst, <<d>> \o rest)
      /\ \A q : q \in There(s, src, <<d>> \o rest) <=>
           q \in Copied(s, src) /\ ~Still(d, q) /\ ~Pending(rest, q)
  BY <1>3, Replaced
<1> QED BY <1>1, <1>4, <1>5, SameThere

\* The directory is made and the source listed.
LEMMA MakeLeaves ==
  ASSUME NEW t, NEW s, NEW src, NEW dst, NEW c, NEW rest, AtCopy(t, s, src, dst, c, rest),
         c.at = "make", NEW u, u = Put(t, c.dst, Dir), IsDir(u, c.src),
         NEW d, d = [c EXCEPT !.at = "loop", !.todo = Entries(u, c.src)]
  PROVE  HasCopied(u, s, src, dst, <<d>> \o rest)
<1> DEFINE there == There(s, src, <<c>> \o rest)
<1>1. /\ Copyable(t, s, src, dst) /\ c \in Calls
      /\ IsDrive(s) /\ src \in Path /\ dst \in Path
      /\ c.src \in Path /\ c.dst \in Path /\ Under(c.src, src)
      /\ Copies(s, src, dst, c)
      /\ \A q \in Path : Under(q, c.src) => ~Pending(rest, q)
      /\ \A q : q \in there <=> q \in Copied(s, src) /\ ~Still(c, q) /\ ~Pending(rest, q)
  BY AtCopyFacts
<1>2. there \in SUBSET Copied(s, src) /\ Reached(t, s, src, dst, there, {})
  BY DEF AtCopy, There
<1>3. \A q \in Copied(s, src) : q \in Path /\ Under(q, src) /\ q \in DOMAIN s
  BY <1>1, CopiedFacts
<1>4. c.src \in Copied(s, src) /\ c.dst = Moved(c.src, src, dst) /\ c.proc = "copy"
      /\ ~IsFileName(c.src) /\ ~IsFileName(c.dst)
  BY <1>1 DEF Copies
<1>5. ASSUME NEW q \in Path, Under(q, src) PROVE SameAt(u, s, q)
  <2>1. SameAt(t, s, q)
    BY <1>1, <1>5, SourceKept
  <2>2. q # c.dst
    <3>1. Under(c.dst, dst)
      BY <1>1, <1>4, MovedFacts
    <3> QED BY <1>1, <1>5, <3>1, UnderBoth DEF Copyable
  <2> QED BY <2>1, <2>2 DEF Put, SameAt
<1>6. IsDir(s, c.src)
  BY <1>1, <1>5 DEF SameAt, IsDir, Exists
<1>7. ASSUME NEW n \in Names
      PROVE  n \in Entries(u, c.src) <=> Append(c.src, n) \in DOMAIN s
  <2>1. Append(c.src, n) \in Path /\ Under(Append(c.src, n), src)
    BY <1>1, UnderEntry
  <2> QED BY <1>5, <2>1 DEF SameAt, Entries
<1> DEFINE names == Entries(u, c.src)
<1>8. names \subseteq Names
  BY DEF Entries
<1> HIDE DEF there, names
<1>9. d \in Calls /\ d.src = c.src /\ d.dst = c.dst /\ d.at = "loop" /\ d.proc = c.proc
      /\ d.todo = names
  BY <1>1, <1>8 DEF Calls, names
<1>10. \A n \in names : Append(c.src, n) \in DOMAIN s
  BY <1>7, <1>8 DEF names
<1>11. Replaces(s, src, dst, c, d)
  BY <1>4, <1>6, <1>9, <1>10 DEF Copies, Replaces
<1>12. /\ Copying(s, src, dst, <<d>> \o rest)
       /\ \A q : q \in There(s, src, <<d>> \o rest) <=>
            q \in Copied(s, src) /\ ~Still(d, q) /\ ~Pending(rest, q)
  BY <1>11, Replaced
<1>13. ASSUME NEW q \in Copied(s, src)
       PROVE  Still(d, q) <=> Still(c, q) /\ q # c.src
  <2>1. q \in Path /\ q \in DOMAIN s
    BY <1>3
  <2>2. ASSUME Under(q, c.src), q # c.src PROVE Still(d, q)
    <3>1. PICK n \in Names : Under(q, Append(c.src, n))
      BY <1>1, <2>1, <2>2, SomeEntry
    <3>2. Append(c.src, n) \in Path
      BY <1>1, EntryPath
    <3>3. Append(c.src, n) \in DOMAIN s
      BY <1>1, <2>1, <3>1, <3>2 DEF IsDrive, Closed, IsDir, Exists
    <3>4. n \in names
      BY <1>7, <3>3 DEF names
    <3> QED BY <1>9, <3>1, <3>4 DEF Still
  <2>3. ASSUME NEW n \in names, Under(q, Append(c.src, n)) PROVE Under(q, c.src) /\ q # c.src
    BY <1>1, <1>8, <2>1, <2>3, UnderEntryIs
  <2> QED BY <1>9, <2>2, <2>3 DEF Still
<1>14. There(s, src, <<d>> \o rest) = there \cup {c.src}
  <2>1. ~Pending(rest, c.src)
    BY <1>1, UnderItself
  <2> QED BY <1>1, <1>2, <1>4, <1>12, <1>13, <2>1
<1>15. Reached(u, s, src, dst, there \cup {c.src}, {})
  <2>1. Dir = SoFar(s, c.src, {})
    BY <1>6 DEF IsDir, AsCopied, SoFar
  <2>2. CanPut(t, s, src, dst, there, {}, c.src)
    BY <1>1, <1>2, <1>4 DEF CanPut
  <2> QED BY <1>4, <2>1, <2>2, ReachedPut
<1> QED BY <1>12, <1>14, <1>15 DEF HasCopied

\* The loop takes an entry out of its list.
Takes(s, src, dst, c, n, d, rest) ==
  LET m == Append(c.src, n)
      stack == <<d>> \o rest
  IN /\ m \in Path /\ Under(m, src) /\ m \in DOMAIN s /\ n \in Names
     /\ Append(c.dst, n) = Moved(m, src, dst)
     /\ d \in Calls /\ d.src = c.src /\ d.at = "loop" /\ d.todo = c.todo \ {n}
     /\ stack \in Seq(Calls) /\ Copying(s, src, dst, stack)
     /\ \A q \in Path : Under(q, m) => ~Pending(stack, q) /\ Still(c, q)
     /\ \A q \in Copied(s, src) :
          q \in There(s, src, <<c>> \o rest) <=> q \in There(s, src, stack) /\ ~Under(q, m)

LEMMA LoopTakes ==
  ASSUME NEW t, NEW s, NEW src, NEW dst, NEW c, NEW rest, AtCopy(t, s, src, dst, c, rest),
         c.at = "loop", NEW n \in c.todo,
         NEW d, d = [c EXCEPT !.at = "loop", !.todo = c.todo \ {n}]
  PROVE  Takes(s, src, dst, c, n, d, rest)
<1> DEFINE m == Append(c.src, n)
           stack == <<d>> \o rest
<1>1. /\ c \in Calls /\ rest \in Seq(Calls) /\ IsDrive(s) /\ src \in Path /\ dst \in Path
      /\ c.src \in Path /\ c.dst \in Path /\ c.todo \subseteq Names /\ Under(c.src, src)
      /\ Copies(s, src, dst, c)
      /\ \A q \in Path : Under(q, c.src) => ~Pending(rest, q)
      /\ \A q : q \in There(s, src, <<c>> \o rest) <=>
           q \in Copied(s, src) /\ ~Still(c, q) /\ ~Pending(rest, q)
  BY AtCopyFacts
<1>2. /\ d \in Calls /\ d.src = c.src /\ d.dst = c.dst /\ d.at = "loop" /\ d.todo = c.todo \ {n}
      /\ d.proc = c.proc
  BY <1>1 DEF Calls
<1>3. Replaces(s, src, dst, c, d)
  BY <1>1, <1>2 DEF Copies, Replaces
<1>4. /\ Copying(s, src, dst, stack)
      /\ \A q : q \in There(s, src, stack) <=>
           q \in Copied(s, src) /\ ~Still(d, q) /\ ~Pending(rest, q)
  BY <1>3, Replaced
<1>5. stack \in Seq(Calls) /\ \A q : Pending(stack, q) <=> Still(d, q) \/ Pending(rest, q)
  BY <1>1, <1>2, Pushed, PendingPushed
<1>6. /\ m \in Path /\ Under(m, src) /\ m \in DOMAIN s /\ n \in Names
      /\ Append(c.dst, n) = Moved(m, src, dst)
  <2>1. n \in Names /\ m \in DOMAIN s /\ c.dst = Moved(c.src, src, dst)
    BY <1>1 DEF Copies
  <2>2. m \in Path /\ Under(m, src)
    BY <1>1, <2>1, UnderEntry
  <2>3. Moved(m, src, dst) = Append(Moved(c.src, src, dst), n)
    BY <1>1, <2>1, MovedEntry
  <2> QED BY <2>1, <2>2, <2>3
<1>7. \A q \in Path : Still(c, q) <=> Still(d, q) \/ Under(q, m)
  BY <1>2 DEF Still
<1>8. ASSUME NEW q \in Path, Under(q, m) PROVE ~Pending(stack, q)
  <2>1. Under(q, c.src)
    BY <1>1, <1>6, <1>8, UnderEntryIs
  <2>2. \A k \in d.todo : ~Under(q, Append(c.src, k))
    BY <1>1, <1>2, <1>6, <1>8, OneEntry
  <2> QED BY <1>1, <1>2, <1>5, <2>1, <2>2 DEF Still
<1> HIDE DEF m, stack
<1>9. ASSUME NEW q \in Copied(s, src)
      PROVE  q \in There(s, src, <<c>> \o rest) <=> q \in There(s, src, stack) /\ ~Under(q, m)
  <2>1. q \in Path
    BY <1>1, CopiedFacts
  <2> QED BY <1>1, <1>4, <1>7, <2>1
<1> QED BY <1>2, <1>4, <1>5, <1>6, <1>7, <1>8, <1>9 DEF Takes, m, stack

\* An entry that is a file or has no '.' is to be copied.
LEMMA EntryCopied ==
  ASSUME NEW t, NEW s, NEW src, NEW dst, NEW c, NEW rest, AtCopy(t, s, src, dst, c, rest),
         c.at = "loop", NEW n \in c.todo, IsFile(s, Append(c.src, n)) \/ n \notin Dotted
  PROVE  Append(c.src, n) \in Copied(s, src)
<1> DEFINE m == Append(c.src, n)
<1>1. /\ IsDrive(s) /\ src \in Path /\ c.src \in Path /\ Under(c.src, src)
      /\ n \in Names /\ Copies(s, src, dst, c)
  BY AtCopyFacts
<1>2. /\ m \in Path /\ Under(m, src) /\ m \in DOMAIN s
      /\ Len(m) = Len(c.src) + 1 /\ m[Len(c.src) + 1] = n
  BY <1>1, UnderEntry, EntryPath DEF Copies
<1>3. Last(m) = n /\ (IsFile(s, m) \/ n \notin Dotted)
  <2>1. IsFile(s, m) \/ n \notin Dotted
    OBVIOUS
  <2> HIDE DEF m
  <2> QED BY <1>2, <2>1 DEF Last
<1>4. ASSUME NEW r \in DottedDirs(s, src), Under(m, r) PROVE FALSE
  <2>1. r \in Path /\ s[r].dir /\ Last(r) \in Dotted
    BY <1>1 DEF DottedDirs, Below, IsDrive
  <2>2. ~Under(c.src, r)
    BY <1>1 DEF Copies, Copied
  <2>3. r = m
    BY <1>1, <1>4, <2>1, <2>2, AboveEntry
  <2> QED BY <1>3, <2>1, <2>3 DEF IsFile
<1> QED BY <1>2, <1>4 DEF Copied, Below

\* A directory with a '.' in its name is passed over, and is not to be copied; of
\* a file the target can be opened.
LEMMA EntryPassed ==
  ASSUME NEW t, NEW s, NEW src, NEW dst, NEW c, NEW rest, AtCopy(t, s, src, dst, c, rest),
         c.at = "loop", NEW n \in c.todo, n \in Dotted,
         NEW d, d = [c EXCEPT !.at = "loop", !.todo = c.todo \ {n}],
         ~IsFile(t, Append(c.src, n)) \/ ~CanWrite(t, Append(c.dst, n))
  PROVE  HasCopied(t, s, src, dst, <<d>> \o rest)
<1> DEFINE m == Append(c.src, n)
           stack == <<d>> \o rest
           there == There(s, src, <<c>> \o rest)
<1>1. /\ Copyable(t, s, src, dst) /\ IsDrive(s) /\ src \in Path /\ dst \in Path
      /\ c.src \in Path /\ c.dst \in Path /\ Under(c.src, src) /\ Copies(s, src, dst, c)
      /\ \A q \in Path : Under(q, c.src) => ~Pending(rest, q)
      /\ \A q : q \in there <=> q \in Copied(s, src) /\ ~Still(c, q) /\ ~Pending(rest, q)
  BY AtCopyFacts
<1>2. Takes(s, src, dst, c, n, d, rest)
  BY LoopTakes
<1>3. /\ m \in Path /\ Under(m, src) /\ m \in DOMAIN s /\ n \in Names
      /\ Append(c.dst, n) = Moved(m, src, dst)
      /\ Copying(s, src, dst, stack)
      /\ \A q \in Path : Under(q, m) => ~Pending(stack, q) /\ Still(c, q)
      /\ \A q \in Copied(s, src) : q \in there <=> q \in There(s, src, stack) /\ ~Under(q, m)
  BY <1>2 DEF Takes
<1>4. there \in SUBSET Copied(s, src) /\ Reached(t, s, src, dst, there, {})
  BY DEF AtCopy, There
<1> HIDE DEF there, stack
<1>5. Last(m) = n /\ Parent(Append(c.dst, n)) = c.dst /\ Append(c.dst, n) # <<>>
      /\ ~Under(c.src, m) /\ Under(m, c.src) /\ m # c.src
  <2>1. /\ ~Under(c.src, m) /\ Under(m, c.src) /\ m # c.src
        /\ Len(m) = Len(c.src) + 1 /\ m[Len(c.src) + 1] = n
    BY <1>1, <1>3, EntryPath
  <2>2. Parent(Append(c.dst, n)) = c.dst /\ Append(c.dst, n) # <<>>
    BY <1>1, <1>3, EntryPath, EntryParent
  <2> HIDE DEF m
  <2> QED BY <2>1, <2>2 DEF Last
<1>6. m # src
  BY <1>1, <1>3, <1>5
<1>7. ~IsFile(s, m)
  <2> SUFFICES ASSUME IsFile(s, m) PROVE FALSE
    OBVIOUS
  <2>1. IsFile(t, m)
    BY <1>1, <1>3, SourceKept DEF SameAt, IsFile, Exists
  <2>2. m \in Copied(s, src)
    BY EntryCopied
  <2>3. Moved(m, src, dst) \notin DOMAIN t
    <3>1. m \notin there
      BY <1>1, <1>3, <2>2, UnderItself
    <3> QED BY <1>1, <1>4, <2>2, <3>1, ReachedFacts
  <2>4. Len(Moved(m, src, dst)) <= MAX_DEPTH
    <3>1. m \in Below(s, src)
      BY <1>3 DEF Below
    <3> QED BY <1>1, <3>1 DEF Copyable, Room
  <2>5. IsDir(t, c.dst)
    <3>1. c.src \in Copied(s, src) /\ c.dst = Moved(c.src, src, dst) /\ IsDir(s, c.src)
      BY <1>1 DEF Copies
    <3>2. ~Still(c, c.src)
      <4>1. \A k \in c.todo : ~Under(c.src, Append(c.src, k))
        BY <1>1, EntryPath DEF Calls, AtCopy
      <4> QED BY <4>1 DEF Still
    <3>3. c.src \in there
      BY <1>1, <3>1, <3>2, UnderItself
    <3>4. c.dst \in DOMAIN t
      BY <1>1, <1>4, <3>1, <3>3, ReachedFacts
    <3>5. t[c.dst] = AsCopied(s[c.src])
      BY <1>4, <3>1, <3>3 DEF Reached, SoFar
    <3> QED BY <3>1, <3>4, <3>5 DEF AsCopied, IsDir, Exists, Dir
  <2>6. CanWrite(t, Append(c.dst, n))
    BY <1>3, <1>5, <2>3, <2>4, <2>5 DEF CanWrite, IsDir, Exists
  <2> QED BY <2>1, <2>6
<1>8. m \in DottedDirs(s, src)
  BY <1>3, <1>5, <1>6, <1>7 DEF DottedDirs, Below, IsFile, Exists
<1>9. \A q \in Copied(s, src) : ~Under(q, m)
  BY <1>8 DEF Copied
<1>10. \A q : q \in There(s, src, stack) <=> q \in there
  BY <1>3, <1>9 DEF There, there
<1> QED BY <1>3, <1>10, SameThere DEF there, stack

LEMMA EntryOpened ==
  ASSUME NEW t, NEW s, NEW src, NEW dst, NEW c, NEW rest, AtCopy(t, s, src, dst, c, rest),
         c.at = "loop", NEW n \in c.todo, IsFile(t, Append(c.src, n)),
         NEW d, d = [c EXCEPT !.at = "loop", !.todo = c.todo \ {n}],
         NEW u, u = Put(t, Append(c.dst, n), File(<<>>))
  PROVE  HasOpened(u, s, src, dst, Append(c.src, n), <<d>> \o rest)
<1> DEFINE m == Append(c.src, n)
           stack == <<d>> \o rest
           there == There(s, src, <<c>> \o rest)
<1>1. /\ Copyable(t, s, src, dst) /\ IsDrive(s) /\ src \in Path /\ dst \in Path
  BY AtCopyFacts
<1>2. Takes(s, src, dst, c, n, d, rest)
  BY LoopTakes
<1>3. /\ m \in Path /\ Under(m, src) /\ m \in DOMAIN s
      /\ Append(c.dst, n) = Moved(m, src, dst)
      /\ Copying(s, src, dst, stack)
      /\ \A q \in Path : Under(q, m) => ~Pending(stack, q) /\ Still(c, q)
      /\ \A q \in Copied(s, src) : q \in there <=> q \in There(s, src, stack) /\ ~Under(q, m)
  BY <1>2 DEF Takes
<1>4. there \in SUBSET Copied(s, src) /\ Reached(t, s, src, dst, there, {})
  BY DEF AtCopy, There
<1>5. IsFile(s, m)
  BY <1>1, <1>3, SourceKept DEF SameAt, IsFile, Exists
<1>6. m \in Copied(s, src)
  BY <1>5, EntryCopied
<1> HIDE DEF there, stack, m
<1>7. \A q \in Copied(s, src) : Under(q, m) => q = m
  <2> SUFFICES ASSUME NEW q \in Copied(s, src), Under(q, m), q # m PROVE FALSE
    OBVIOUS
  <2>1. IsDir(s, m)
    BY <1>1, <1>3, CopiedFacts DEF IsDrive, Closed
  <2> QED BY <1>5, <2>1 DEF IsFile, IsDir
<1>8. m \in There(s, src, stack)
  BY <1>3, <1>6, UnderItself DEF There
<1>9. There(s, src, stack) = there \cup {m}
  <2>1. There(s, src, stack) \subseteq Copied(s, src)
    BY DEF There
  <2> QED BY <1>3, <1>4, <1>7, <1>8, <2>1
<1>10. Reached(u, s, src, dst, there \cup {m}, {m})
  <2>1. File(<<>>) = SoFar(s, m, {m})
    BY DEF SoFar
  <2>2. CanPut(t, s, src, dst, there, {}, m)
    BY <1>1, <1>4, <1>6 DEF CanPut
  <2>3. {m} \subseteq {m} /\ u = Put(t, Moved(m, src, dst), File(<<>>))
    BY <1>3
  <2> QED BY <2>1, <2>2, <2>3, ReachedPut
<1> QED BY <1>3, <1>5, <1>8, <1>9, <1>10 DEF HasOpened, stack, m

\* The file is written, and with it the whole text of its source.
LEMMA FileWritten ==
  ASSUME NEW t, NEW s, NEW src, NEW dst, Copyable(t, s, src, dst),
         NEW p, NEW rs, HasOpened(t, s, src, dst, p, rs),
         NEW u, u = Put(t, Moved(p, src, dst), File(AsText(t[p].data)))
  PROVE  HasCopied(u, s, src, dst, rs)
<1> DEFINE there == There(s, src, rs)
<1>1. /\ p \in there /\ there \subseteq Copied(s, src) /\ IsFile(s, p)
      /\ Copying(s, src, dst, rs) /\ Reached(t, s, src, dst, there, {p})
  BY DEF HasOpened, There
<1> HIDE DEF there
<1>2. t[p] = s[p]
  <2>1. p \in Path /\ Under(p, src) /\ p \in DOMAIN s
    BY <1>1, CopiedFacts DEF Copyable
  <2> QED BY <2>1, SourceKept DEF SameAt
<1>3. File(AsText(t[p].data)) = SoFar(s, p, {})
  BY <1>1, <1>2 DEF IsFile, AsCopied, SoFar
<1>4. CanPut(t, s, src, dst, there, {p}, p)
  BY <1>1 DEF CanPut
<1>5. {} \subseteq {p}
  OBVIOUS
<1>6. Reached(u, s, src, dst, there \cup {p}, {})
  BY <1>3, <1>4, <1>5, ReachedPut
<1>7. there \cup {p} = there
  BY <1>1
<1> QED BY <1>1, <1>6, <1>7 DEF HasCopied, there

\* It calls itself for an entry without a '.'.
LEMMA EntryEntered ==
  ASSUME NEW t, NEW s, NEW src, NEW dst, NEW c, NEW rest, AtCopy(t, s, src, dst, c, rest),
         c.at = "loop", NEW n \in c.todo, n \notin Dotted,
         NEW d, d = [c EXCEPT !.at = "loop", !.todo = c.todo \ {n}],
         NEW e, e = Call("copy", Append(c.src, n), Append(c.dst, n))
  PROVE  HasCopied(t, s, src, dst, <<e>> \o (<<d>> \o rest))
<1> DEFINE m == Append(c.src, n)
           stack == <<d>> \o rest
           there == There(s, src, <<c>> \o rest)
<1>1. /\ c.src \in Path /\ c.dst \in Path /\ rest \in Seq(Calls) /\ Copies(s, src, dst, c)
      /\ \A j \in 1 .. Len(rest) : MadeBy(c, rest[j])
      /\ IsDrive(s) /\ src \in Path
  BY AtCopyFacts
<1>2. Takes(s, src, dst, c, n, d, rest)
  BY LoopTakes
<1>3. /\ m \in Path /\ Under(m, src) /\ n \in Names
      /\ Append(c.dst, n) = Moved(m, src, dst)
      /\ d \in Calls /\ d.src = c.src /\ d.at = "loop" /\ d.todo = c.todo \ {n}
      /\ stack \in Seq(Calls) /\ Copying(s, src, dst, stack)
      /\ \A q \in Path : Under(q, m) => ~Pending(stack, q) /\ Still(c, q)
      /\ \A q \in Copied(s, src) : q \in there <=> q \in There(s, src, stack) /\ ~Under(q, m)
  BY <1>2 DEF Takes
<1>4. m \in Copied(s, src)
  BY EntryCopied
<1>5. /\ Append(c.dst, n) \in Path /\ Under(m, c.src)
      /\ ~IsFileName(m) /\ ~IsFileName(Append(c.dst, n))
  BY <1>1, <1>3, EntryPath, DottedEntry DEF Copies
<1>6. e \in Calls /\ e.src = m /\ e.dst = Append(c.dst, n) /\ e.proc = "copy" /\ e.at = "call"
  BY <1>3, <1>5, CallFacts DEF Call
<1>7. Copies(s, src, dst, e)
  BY <1>3, <1>4, <1>5, <1>6 DEF Copies
<1>8. Len(stack) = Len(rest) + 1 /\ Len(rest) \in Nat
      /\ stack[1] = d /\ \A i \in 1 .. Len(rest) : stack[i + 1] = rest[i]
  BY <1>1, <1>3, Pushed
<1> HIDE DEF m, stack, there
<1>9. \A j \in 1 .. Len(stack) : MadeBy(e, stack[j])
  <2> TAKE j \in 1 .. Len(stack)
  <2>1. CASE j = 1
    <3>1. Under(e.src, Append(d.src, n)) /\ n \in Names \ d.todo
      BY <1>3, <1>6, UnderItself DEF m
    <3> QED BY <1>3, <1>8, <2>1, <3>1 DEF MadeBy
  <2>2. CASE j # 1
    <3>1. j - 1 \in 1 .. Len(rest) /\ (j - 1) + 1 = j
      BY <1>8, <2>2
    <3>2. stack[j] = rest[j - 1] /\ rest[j - 1] \in Calls /\ MadeBy(c, rest[j - 1])
      BY <1>1, <1>8, <3>1, ElementOfSeq
    <3> QED BY <1>1, <1>3, <1>5, <1>6, <3>2, MadeByBelow
  <2> QED BY <2>1, <2>2
<1>10. Copying(s, src, dst, <<e>> \o stack)
  BY <1>3, <1>6, <1>7, <1>9, CopyingPushed
<1>11. \A q : q \in There(s, src, <<e>> \o stack) <=> q \in there
  <2>1. \A q : Pending(<<e>> \o stack, q) <=> Still(e, q) \/ Pending(stack, q)
    BY <1>3, <1>6, PendingPushed
  <2>2. \A q : Still(e, q) <=> Under(q, m)
    BY <1>6 DEF Still
  <2>3. there \subseteq Copied(s, src)
    BY DEF There, there
  <2> QED BY <1>3, <2>1, <2>2, <2>3 DEF There
<1> QED BY <1>10, <1>11, SameThere DEF there, stack

\* The loop is over, and nothing of its directory is left to copy.
LEMMA LoopOver ==
  ASSUME NEW t, NEW s, NEW src, NEW dst, NEW c, NEW rest, AtCopy(t, s, src, dst, c, rest),
         c.at = "loop", c.todo = {}
  PROVE  HasCopied(t, s, src, dst, rest)
<1>1. /\ Copying(s, src, dst, rest)
      /\ \A q : q \in There(s, src, <<c>> \o rest) <=>
           q \in Copied(s, src) /\ ~Still(c, q) /\ ~Pending(rest, q)
  BY AtCopyFacts
<1>2. \A q : ~Still(c, q)
  BY DEF Still
<1> QED BY <1>1, <1>2, SameThere DEF There

-----------------------------------------------------------------------------
(* How a copy begins.                                                      *)

Making(src, dst) == [Call("copy", src, dst) EXCEPT !.at = "make", !.todo = {}]

LEMMA MakingCall ==
  ASSUME NEW src \in Path, NEW dst \in Path
  PROVE  Making(src, dst) \in Calls
<1> DEFINE c == Call("copy", src, dst)
<1>1. c \in Calls
  BY CallFacts
<1> HIDE DEF c
<1>2. [c EXCEPT !.at = "make", !.todo = {}] \in Calls
  BY <1>1 DEF Calls
<1> QED BY <1>2 DEF Making, c

LEMMA WholeCopied ==
  ASSUME NEW s, IsDrive(s), NEW src \in Path, src \in DOMAIN s
  PROVE  src \in Copied(s, src)
<1>1. src \in Below(s, src)
  BY UnderItself DEF Below
<1>2. ASSUME NEW r \in DottedDirs(s, src), Under(src, r) PROVE FALSE
  <2>1. r \in Path /\ Under(r, src) /\ r # src
    BY DEF DottedDirs, Below, IsDrive
  <2> QED BY <1>2, <2>1, UnderEach
<1> QED BY <1>1, <1>2 DEF Copied

\* The target is empty, whether it was or has been removed.
LEMMA MakeBegins ==
  ASSUME NEW t, NEW s, NEW src \in Path, NEW dst \in Path, IsDrive(s), src \in DOMAIN s,
         ~IsFileName(src), ~IsFileName(dst), Below(t, dst) = {}
  PROVE  HasCopied(t, s, src, dst, <<Making(src, dst)>>)
<1> DEFINE c == Making(src, dst)
           rs == <<c>>
<1>1. c \in Calls /\ c.proc = "copy" /\ c.at = "make" /\ c.src = src /\ c.dst = dst
  BY CallFacts DEF Call, Calls, Making
<1> HIDE DEF c
<1>2. rs \in Seq(Calls) /\ Len(rs) = 1 /\ rs[1] = c
  BY <1>1
<1>3. Copies(s, src, dst, c)
  BY <1>1, WholeCopied, MovedWhole DEF Copies
<1>4. Copying(s, src, dst, rs)
  BY <1>1, <1>2, <1>3 DEF Copying, Nested
<1>5. There(s, src, rs) = {}
  <2>1. \A p \in Copied(s, src) : Under(p, src)
    BY CopiedFacts
  <2>2. \A p \in Copied(s, src) : Pending(rs, p)
    BY <1>1, <1>2, <2>1 DEF Pending, Still
  <2> QED BY <2>2 DEF There
<1> HIDE DEF rs
<1>6. Reached(t, s, src, dst, {}, {})
  BY DEF Reached
<1> QED BY <1>4, <1>5, <1>6 DEF HasCopied, rs, c

\* The file is opened.
LEMMA FileBegins ==
  ASSUME NEW s, NEW src \in Path, NEW dst \in Path, IsDrive(s), IsFile(s, src), ~IsDir(s, dst)
  PROVE  HasOpened(Put(s, dst, File(<<>>)), s, src, dst, src, <<>>)
<1> DEFINE u == Put(s, dst, File(<<>>))
           rs == <<>>
<1>1. src \in DOMAIN s
  BY DEF IsFile, Exists
<1>2. \A p \in Copied(s, src) : p = src
  <2> SUFFICES ASSUME NEW p \in Copied(s, src), p # src PROVE FALSE
    OBVIOUS
  <2>1. IsDir(s, src)
    BY CopiedFacts DEF IsDrive, Closed
  <2> QED BY <2>1 DEF IsDir, IsFile
<1>3. rs \in Seq(Calls) /\ Len(rs) = 0
  BY EmptySeq
<1>4. Copying(s, src, dst, rs) /\ \A p : ~Pending(rs, p)
  BY <1>3 DEF Copying, Nested, Pending
<1> HIDE DEF rs
<1>5. There(s, src, rs) = {src}
  BY <1>1, <1>2, <1>4, WholeCopied DEF There
<1>6. Moved(src, src, dst) = dst
  BY MovedWhole
<1>7. DOMAIN u = DOMAIN s \cup {dst} /\ u[dst] = File(<<>>)
  BY DEF Put
<1>8. Below(s, dst) \subseteq {dst}
  BY DEF Below, IsDrive, Closed
<1> HIDE DEF u
<1>9. Below(u, dst) = {dst}
  BY <1>7, <1>8, UnderItself DEF Below
<1>10. Reached(u, s, src, dst, {src}, {src})
  BY <1>6, <1>7, <1>9 DEF Reached, SoFar
<1> QED BY <1>4, <1>5, <1>10 DEF HasOpened, u, rs

-----------------------------------------------------------------------------
(* The invariant of cp.                                                    *)

\* What CopiesAllItCan asks of the drive.
Given(s, src, dst) ==
  /\ Unrelated(src, dst) /\ Room(s, src, dst)
  /\ IF IsFileName(src) THEN IsFile(s, src) /\ ~IsDir(s, dst)
     ELSE ~IsFileName(dst) /\ DottedDirs(s, dst) = {}

\* How far it is: nothing done, the target being removed, dir_copy at work, a
\* file open.
Entered(src, dst) == calls = <<Call("copy", src, dst)>> /\ files = start
Clearing(src, dst) ==
  \E rs \in Seq(Calls) :
    /\ rs # <<>> /\ calls = rs \o <<Making(src, dst)>>
    /\ HasLeft(files, start, dst, rs)
AtWork(src, dst) == HasCopied(files, start, src, dst, calls)
Open(src, dst) ==
  \E p \in Path, rs \in Seq(Calls) :
    /\ calls = <<Call("write", p, Moved(p, src, dst))>> \o rs
    /\ HasOpened(files, start, src, dst, p, rs)
Phase(src, dst) ==
  \/ /\ ~IsFileName(src) /\ Exists(start, src)
     /\ Entered(src, dst) \/ Clearing(src, dst)
  \/ AtWork(src, dst)
  \/ Open(src, dst)

CopyInv ==
  Busy /\ command.name = "cp" /\ clean =>
    (Given(start, command.src, command.dst) => Phase(command.src, command.dst))

\* What is known at every step of a cp.
OnCopy(src, dst) ==
  /\ Copyable(files, start, src, dst) /\ Given(start, src, dst)
  /\ src \in Path /\ dst \in Path /\ IsDrive(files) /\ IsDrive(start)

LEMMA OnCopyFacts ==
  ASSUME TypeInv, ShellInv, Busy, command.name = "cp",
         Given(start, command.src, command.dst)
  PROVE  OnCopy(command.src, command.dst)
<1>1. /\ IsDrive(files) /\ IsDrive(start) /\ command.src \in Path /\ command.dst \in Path
  BY DEF TypeInv, Commands
<1>2. \A q : Under(q, command.dst) \/ SameAt(files, start, q)
  BY DEF ShellInv, SameElsewhere, InTarget
<1> QED BY <1>1, <1>2 DEF OnCopy, Copyable, Given

\* The steps of a phase, when no call fails and no question is declined.
Goes == Step /\ ~Ends /\ calls # <<>> /\ clean = TRUE /\ clean' = TRUE /\ start' = start

LEMMA EnteredStep ==
  ASSUME NEW src, NEW dst, OnCopy(src, dst), Goes, Entered(src, dst),
         ~IsFileName(src), Exists(start, src)
  PROVE  Clearing(src, dst)' \/ AtWork(src, dst)'
<1> DEFINE c == Call("copy", src, dst)
           mk == Making(src, dst)
           rm == <<Call("remove", dst, dst)>>
<1>1. /\ src \in Path /\ dst \in Path /\ IsDrive(start) /\ ~IsFileName(dst)
      /\ src \in DOMAIN start
  BY DEF OnCopy, Given, Exists
<1>2. /\ Top = c /\ Rest = <<>> /\ c.proc = "copy" /\ c.at = "call" /\ c.src = src /\ c.dst = dst
      /\ files = start
  BY DEF Entered, Top, Rest, Call
<1>3. CopyRefused \/ CopyBegin
  BY <1>2, ReadStops, CatRuns DEF Goes, Step, RemoveRefused, RemoveList, RemoveEntry, RemoveSelf,
       CopyMake, CopyEntry, CopyReturns, FileCopyWrite, Rename, Return, Done, Running, Top, CatStep
<1>4. ~CopyRefused
  BY <1>1, <1>2 DEF CopyRefused, Declined, Goes
<1>5. /\ calls' = (IF Exists(files, dst) THEN rm ELSE <<>>) \o At("make", {})
      /\ files' = files
  BY <1>2, <1>3, <1>4 DEF CopyBegin
<1>6. mk \in Calls /\ <<mk>> \in Seq(Calls) /\ At("make", {}) = <<mk>>
  <2>1. mk \in Calls
    BY <1>1, MakingCall
  <2>2. [c EXCEPT !.at = "make", !.todo = {}] = mk
    BY DEF Making
  <2> HIDE DEF mk, c
  <2>3. At("make", {}) = <<mk>> \o <<>>
    BY <1>2, <2>2 DEF At
  <2> QED BY <2>1, <2>3, ConcatEmptySeq
<1> HIDE DEF mk, c
<1>7. CASE Exists(files, dst)
  <2>1. calls' = rm \o <<mk>>
    BY <1>5, <1>6, <1>7
  <2>2. HasLeft(start, start, dst, rm)
    BY <1>1, RemovalBegins
  <2>3. rm \in Seq(Calls) /\ rm # <<>>
    BY <1>1, CallFacts
  <2> HIDE DEF rm
  <2>4. HasLeft(files', start', dst, rm)
    BY <1>2, <1>5, <2>2 DEF Goes
  <2> QED BY <2>1, <2>3, <2>4 DEF Clearing, mk
<1>8. CASE ~Exists(files, dst)
  <2>1. calls' = <<mk>>
    <3>1. calls' = <<>> \o <<mk>>
      BY <1>5, <1>6, <1>8
    <3> QED BY <1>6, <3>1, ConcatEmptySeq
  <2>2. Below(start, dst) = {}
    BY <1>1, <1>2, <1>8 DEF Below, IsDrive, Closed, IsDir, Exists
  <2>3. HasCopied(start, start, src, dst, <<mk>>)
    BY <1>1, <2>2, MakeBegins DEF OnCopy, mk
  <2>4. HasCopied(files', start', src, dst, calls')
    BY <1>2, <1>5, <2>1, <2>3 DEF Goes
  <2> QED BY <2>4 DEF AtWork
<1> QED BY <1>7, <1>8

LEMMA ClearingStep ==
  ASSUME NEW src, NEW dst, OnCopy(src, dst), Goes, Clearing(src, dst),
         ~IsFileName(src), Exists(start, src)
  PROVE  Clearing(src, dst)' \/ AtWork(src, dst)'
<1> DEFINE mk == Making(src, dst)
<1>1. /\ src \in Path /\ dst \in Path /\ IsDrive(start) /\ IsDrive(files) /\ ~IsFileName(dst)
      /\ src \in DOMAIN start /\ DottedDirs(start, dst) = {} /\ dst # <<>>
  BY UnderAll DEF OnCopy, Given, Exists, Unrelated
<1>2. PICK rs \in Seq(Calls) :
        rs # <<>> /\ calls = rs \o <<mk>> /\ HasLeft(files, start, dst, rs)
  BY DEF Clearing
<1>3. mk \in Calls
  BY <1>1, MakingCall
<1> HIDE DEF mk
<1>4. OnRemoval(dst, rs, <<mk>>)
  BY <1>1, <1>2, <1>3 DEF OnRemoval
<1>5. GoesOn(dst, <<mk>>)
  BY <1>4, RemovalStep DEF Goes
<1>6. PICK new \in Seq(Calls) : calls' = new \o <<mk>> /\ HasLeft(files', start, dst, new)
  BY <1>5 DEF GoesOn
<1>7. CASE new # <<>>
  BY <1>6, <1>7 DEF Clearing, Goes, mk
<1>8. CASE new = <<>>
  <2>1. calls' = <<mk>> /\ HasLeft(files', start, dst, <<>>)
    BY <1>3, <1>6, <1>8, ConcatEmptySeq
  <2>2. \A q : ~Blocked(start, dst, q) /\ ~Awaited(<<>>, q)
    BY <1>1 DEF Blocked, Awaited
  <2>3. Below(files', dst) = {}
    BY <2>1, <2>2 DEF HasLeft, Left
  <2>4. HasCopied(files', start, src, dst, <<mk>>)
    BY <1>1, <2>3, MakeBegins DEF OnCopy, mk
  <2> QED BY <2>1, <2>4 DEF AtWork, Goes
<1> QED BY <1>7, <1>8

LEMMA OpenStep ==
  ASSUME NEW src, NEW dst, OnCopy(src, dst), Goes, Open(src, dst)
  PROVE  AtWork(src, dst)'
<1>1. PICK p \in Path, rs \in Seq(Calls) :
        /\ calls = <<Call("write", p, Moved(p, src, dst))>> \o rs
        /\ HasOpened(files, start, src, dst, p, rs)
  BY DEF Open
<1> DEFINE c == Call("write", p, Moved(p, src, dst))
<1>2. c.proc = "write" /\ c.at = "call" /\ c.src = p /\ c.dst = Moved(p, src, dst)
  BY DEF Call
<1>3. c \in Calls
  <2>1. Under(p, src) /\ src \in Path /\ dst \in Path
    BY <1>1, CopiedFacts DEF HasOpened, There, OnCopy
  <2> QED BY <2>1, CallFacts, MovedFacts
<1>4. Top = c /\ Rest = rs
  BY <1>1, <1>3, Pushed DEF Top, Rest
<1> HIDE DEF c
<1>5. FileCopyWrite
  BY <1>2, <1>4, ReadStops, CatRuns DEF Goes, Step, RemoveRefused, RemoveList, RemoveEntry,
       RemoveSelf, CopyRefused, CopyBegin, CopyMake, CopyEntry, CopyReturns, Rename, Return, Done,
       Running, Top, CatStep
<1>6. /\ files' = Put(files, Moved(p, src, dst), File(AsText(files[p].data)))
      /\ calls' = rs
  BY <1>2, <1>4, <1>5 DEF FileCopyWrite, Attempt, Declined, Goes
<1> DEFINE u == Put(files, Moved(p, src, dst), File(AsText(files[p].data)))
<1>7. HasCopied(u, start, src, dst, rs)
  BY <1>1, FileWritten DEF OnCopy
<1> HIDE DEF u
<1>8. files' = u
  BY <1>6 DEF u
<1> QED BY <1>6, <1>7, <1>8 DEF AtWork, Goes

LEMMA AtWorkFacts ==
  ASSUME NEW src, NEW dst, OnCopy(src, dst), AtWork(src, dst), calls # <<>>
  PROVE  /\ AtCopy(files, start, src, dst, Top, Rest)
         /\ Top \in Calls /\ Rest \in Seq(Calls)
         /\ Top.src \in Path /\ Top.dst \in Path /\ Top.todo \subseteq Names
         /\ Top.proc = "copy" /\ ~IsFileName(Top.src) /\ ~IsFileName(Top.dst)
<1>1. /\ Copying(start, src, dst, calls)
      /\ Reached(files, start, src, dst, There(start, src, calls), {})
  BY DEF AtWork, HasCopied
<1>2. calls \in Seq(Calls)
  BY <1>1 DEF Copying, Nested
<1>3. Top \in Calls /\ Rest \in Seq(Calls) /\ calls = <<Top>> \o Rest
  BY <1>2, HeadAndTail DEF Top, Rest
<1>4. AtCopy(files, start, src, dst, Top, Rest)
  BY <1>1, <1>3 DEF AtCopy, OnCopy
<1> QED BY <1>3, <1>4, AtCopyFacts DEF Copies

\* Each pass of dir_copy copies the entry it takes, or leaves it to a call.
LEMMA PassStep ==
  ASSUME NEW src, NEW dst, OnCopy(src, dst), Goes, AtWork(src, dst), CopyEntry
  PROVE  AtWork(src, dst)' \/ Open(src, dst)'
<1>1. /\ AtCopy(files, start, src, dst, Top, Rest)
      /\ Top \in Calls /\ Rest \in Seq(Calls)
      /\ Top.src \in Path /\ Top.dst \in Path /\ Top.todo \subseteq Names
  BY AtWorkFacts DEF Goes
<1>2. PICK n \in Top.todo :
        \/ n \in Dotted /\ FileCopy(Append(Top.src, n), Append(Top.dst, n), Without(n))
        \/ n \notin Dotted /\ calls' = <<Call("copy", Append(Top.src, n), Append(Top.dst, n))>> \o Without(n)
           /\ UNCHANGED <<files, clean>>
  BY DEF CopyEntry
<1> DEFINE m == Append(Top.src, n)
           k == Append(Top.dst, n)
           d == [Top EXCEPT !.at = "loop", !.todo = Top.todo \ {n}]
           e == Call("copy", m, k)
           u == Put(files, k, File(<<>>))
<1>3. Top.at = "loop"
  BY DEF CopyEntry, Running, Top
<1>4. Takes(start, src, dst, Top, n, d, Rest)
  BY <1>1, <1>3, LoopTakes
<1>5. m \in Path /\ k = Moved(m, src, dst) /\ <<d>> \o Rest \in Seq(Calls)
  BY <1>4 DEF Takes
<1>6. ~Declined
  BY DEF Declined, Goes
<1>7. Without(n) = <<d>> \o Rest
  BY DEF Without, At
<1>8. \/ n \in Dotted /\ (~IsFile(files, m) \/ ~CanWrite(files, k))
         /\ calls' = <<d>> \o Rest /\ files' = files
      \/ n \in Dotted /\ IsFile(files, m) /\ files' = u
         /\ calls' = <<Call("write", m, k)>> \o (<<d>> \o Rest)
      \/ n \notin Dotted /\ calls' = <<e>> \o (<<d>> \o Rest) /\ files' = files
  BY <1>2, <1>6, <1>7 DEF FileCopy
<1>9. CASE n \in Dotted /\ (~IsFile(files, m) \/ ~CanWrite(files, k))
           /\ calls' = <<d>> \o Rest /\ files' = files
  <2>1. HasCopied(files, start, src, dst, <<d>> \o Rest)
    BY <1>1, <1>3, <1>9, EntryPassed
  <2> HIDE DEF d
  <2> QED BY <1>9, <2>1 DEF AtWork, Goes
<1>10. CASE n \in Dotted /\ IsFile(files, m) /\ files' = u
            /\ calls' = <<Call("write", m, k)>> \o (<<d>> \o Rest)
  <2>1. HasOpened(u, start, src, dst, m, <<d>> \o Rest)
    BY <1>1, <1>3, <1>10, EntryOpened
  <2> HIDE DEF d, m, k, u
  <2> QED BY <1>5, <1>10, <2>1 DEF Open, Goes
<1>11. CASE n \notin Dotted /\ calls' = <<e>> \o (<<d>> \o Rest) /\ files' = files
  <2>1. HasCopied(files, start, src, dst, <<e>> \o (<<d>> \o Rest))
    BY <1>1, <1>3, <1>11, EntryEntered
  <2> HIDE DEF d, e
  <2> QED BY <1>11, <2>1 DEF AtWork, Goes
<1> QED BY <1>8, <1>9, <1>10, <1>11

LEMMA AtWorkStep ==
  ASSUME NEW src, NEW dst, OnCopy(src, dst), Goes, AtWork(src, dst)
  PROVE  AtWork(src, dst)' \/ Open(src, dst)'
<1>1. /\ AtCopy(files, start, src, dst, Top, Rest)
      /\ Top \in Calls /\ Rest \in Seq(Calls)
      /\ Top.src \in Path /\ Top.dst \in Path /\ Top.todo \subseteq Names
      /\ Top.proc = "copy" /\ ~IsFileName(Top.src) /\ ~IsFileName(Top.dst)
  BY AtWorkFacts DEF Goes
<1>2. CopyRefused \/ CopyBegin \/ CopyMake \/ CopyEntry \/ CopyReturns
  BY <1>1, ReadStops, CatRuns DEF Goes, Step, RemoveRefused, RemoveList, RemoveEntry, RemoveSelf,
       FileCopyWrite, Rename, Return, Done, Running, Top, CatStep
<1>3. ~CopyRefused
  BY <1>1 DEF CopyRefused, Declined, Goes
<1>4. CASE CopyBegin
  <2> DEFINE d == [Top EXCEPT !.at = "make", !.todo = {}]
  <2>1. Top.at = "call" /\ files' = files
    BY <1>4 DEF CopyBegin, Running, Top
  <2>2. ~Exists(files, Top.dst)
    BY <1>1, <2>1, NotMadeYet
  <2>3. calls' = <<>> \o At("make", {}) /\ At("make", {}) = <<d>> \o Rest
    BY <1>4, <2>2 DEF CopyBegin, At
  <2>4. HasCopied(files, start, src, dst, <<d>> \o Rest)
    BY <1>1, <2>1, BeginLeaves
  <2>5. <<d>> \o Rest \in Seq(Calls)
    BY <2>4 DEF HasCopied, Copying, Nested
  <2> HIDE DEF d
  <2>6. calls' = <<d>> \o Rest
    BY <2>3, <2>5, ConcatEmptySeq
  <2> QED BY <2>1, <2>4, <2>6 DEF AtWork, Goes
<1>5. CASE CopyMake
  <2> DEFINE u == Put(files, Top.dst, Dir)
             d == [Top EXCEPT !.at = "loop", !.todo = Entries(u, Top.src)]
  <2>1. /\ Top.at = "make" /\ CreateDir(Top.dst) /\ IsDir(files', Top.src)
        /\ calls' = At("loop", Entries(files', Top.src))
    BY <1>5 DEF CopyMake, Goes, Running, Top
  <2>2. CanMakeDir(files, Top.dst)
    BY <1>1, <2>1, NotMadeYet
  <2>3. files' = u
    BY <2>1, <2>2 DEF CreateDir, Attempt, Declined, Goes
  <2> HIDE DEF u
  <2>4. IsDir(u, Top.src) /\ calls' = <<d>> \o Rest
    BY <2>1, <2>3 DEF At
  <2>5. HasCopied(u, start, src, dst, <<d>> \o Rest)
    BY <1>1, <2>1, <2>4, MakeLeaves DEF u
  <2> HIDE DEF d
  <2> QED BY <2>3, <2>4, <2>5 DEF AtWork, Goes
<1>6. CASE CopyReturns
  <2>1. Top.at = "loop" /\ Top.todo = {} /\ calls' = Rest /\ files' = files
    BY <1>6 DEF CopyReturns, Running, Top
  <2>2. HasCopied(files, start, src, dst, Rest)
    BY <1>1, <2>1, LoopOver
  <2> QED BY <2>1, <2>2 DEF AtWork, Goes
<1> QED BY <1>2, <1>3, <1>4, <1>5, <1>6, PassStep

LEMMA PhaseStep ==
  ASSUME NEW src, NEW dst, OnCopy(src, dst), Goes, Phase(src, dst)
  PROVE  Phase(src, dst)'
<1>1. start' = start
  BY DEF Goes
<1>2. CASE ~IsFileName(src) /\ Exists(start, src) /\ (Entered(src, dst) \/ Clearing(src, dst))
  <2>1. Clearing(src, dst)' \/ AtWork(src, dst)'
    BY <1>2, EnteredStep, ClearingStep
  <2> QED BY <1>1, <1>2, <2>1 DEF Phase
<1>3. CASE AtWork(src, dst)
  BY <1>3, AtWorkStep DEF Phase
<1>4. CASE Open(src, dst)
  BY <1>4, OpenStep DEF Phase
<1> QED BY <1>2, <1>3, <1>4 DEF Phase

LEMMA CopyStep ==
  ASSUME TypeInv, TypeInv', ShellInv, CopyInv, Step, Busy', command'.name = "cp", clean'
  PROVE  CopyInv'
<1>0. clean \in BOOLEAN /\ clean' = TRUE
  BY DEF TypeInv
<1>1. clean = TRUE /\ calls # <<>> /\ ~Ends /\ command' = command /\ start' = start
  BY <1>0, StaysClean
<1>2. Busy /\ command.name = "cp"
  BY <1>1 DEF Busy
<1>3. PICK src, dst : src = command.src /\ dst = command.dst
  OBVIOUS
<1>4. command'.src = src /\ command'.dst = dst
  BY <1>1, <1>3
<1>5. SUFFICES ASSUME Given(start, src, dst) PROVE Phase(src, dst)'
  BY <1>1, <1>4 DEF CopyInv
<1>6. OnCopy(src, dst)
  BY <1>2, <1>3, <1>5, OnCopyFacts
<1>7. Phase(src, dst)
  BY <1>1, <1>2, <1>3, <1>5, Zenon DEF CopyInv
<1>8. Goes
  BY <1>0, <1>1 DEF Goes
<1> QED BY <1>6, <1>7, <1>8, PhaseStep

\* A copy of one file opens it at once: the target can be written.
LEMMA CopyEntered ==
  ASSUME TypeInv, NEW src \in DOMAIN files, NEW dst \in Path, Cp(src, dst)
  PROVE  CopyInv'
<1> DEFINE u == Put(files, dst, File(<<>>))
           w == Call("write", src, dst)
<1>1. /\ command' = [name |-> "cp", src |-> src, dst |-> dst] /\ start' = files
      /\ \/ IsFileName(src) /\ FileCopy(src, dst, <<>>)
         \/ ~IsFileName(src) /\ calls' = <<Call("copy", src, dst)>> /\ files' = files
  BY DEF Cp, Begin
<1>2. IsDrive(files) /\ src \in Path /\ command'.src = src /\ command'.dst = dst
  BY <1>1 DEF TypeInv, IsDrive
<1>3. SUFFICES ASSUME Given(files, src, dst), clean' PROVE Phase(src, dst)'
  BY <1>1, <1>2 DEF CopyInv
<1>4. CASE ~IsFileName(src)
  <2>1. Exists(start', src)
    BY <1>1 DEF Exists
  <2>2. calls' = <<Call("copy", src, dst)>> /\ files' = start'
    BY <1>1, <1>4
  <2> QED BY <1>4, <2>1, <2>2 DEF Phase, Entered
<1>5. CASE IsFileName(src)
  <2>1. IsFile(files, src) /\ ~IsDir(files, dst) /\ Unrelated(src, dst) /\ Room(files, src, dst)
    BY <1>3, <1>5 DEF Given
  <2>2. CanWrite(files, dst)
    <3>1. dst # <<>>
      BY <1>2, <2>1, UnderAll DEF Unrelated
    <3>2. src \in Below(files, src) /\ Moved(src, src, dst) = dst
      BY <1>2, UnderItself, MovedWhole DEF Below
    <3> QED BY <2>1, <3>1, <3>2 DEF CanWrite, Room
  <2>3. ~Declined
    BY <1>3 DEF Declined
  <2>4. files' = u /\ calls' = <<w>> \o <<>>
    BY <1>1, <1>5, <2>1, <2>2, <2>3 DEF FileCopy
  <2>5. HasOpened(u, files, src, dst, src, <<>>)
    BY <1>2, <2>1, FileBegins
  <2>6. Moved(src, src, dst) = dst
    BY <1>2, MovedWhole
  <2> HIDE DEF u
  <2>7. HasOpened(files', start', src, dst, src, <<>>) /\ <<>> \in Seq(Calls)
    BY <1>1, <2>4, <2>5, EmptySeq
  <2> QED BY <1>2, <2>4, <2>6, <2>7 DEF Phase, Open
<1> QED BY <1>4, <1>5

LEMMA CopyNext == TypeInv /\ ShellInv /\ CopyInv /\ [Next]_vars => CopyInv'
<1> SUFFICES ASSUME TypeInv, ShellInv, CopyInv, [Next]_vars PROVE CopyInv'
  OBVIOUS
<1>1. CASE Start \/ UNCHANGED vars
  <2>1. UNCHANGED <<files, calls, command, start, clean>>
    BY <1>1 DEF Start, vars, commandVars
  <2> QED BY <2>1 DEF CopyInv, Busy, Phase, Entered, Clearing, AtWork, Open
<1>2. CASE Kill \/ Ends
  BY <1>2 DEF Kill, Ends, CopyInv, Busy
<1>3. CASE Enter
  <2>1. \A p \in Typed : p \in Path
    BY DEF Typed, Paths, BoundedSeq, SeqOf, Path
  <2>2. PICK p \in Typed :
          \/ MkDir(p) \/ Rm(p) \/ RmDir(p)
          \/ \E src \in DOMAIN files \ {<<>>} : Cp(src, p) \/ Mv(src, p)
          \/ \E d \in Data : SaveFile(p, d)
          \/ \E p1, p2 \in DOMAIN files : Cat(p1, p2, p)
    BY <1>3 DEF Enter
  <2>3. CASE \E src \in DOMAIN files : Cp(src, p)
    BY <2>1, <2>3, CopyEntered
  <2>4. CASE ~\E src \in DOMAIN files : Cp(src, p)
    <3>1. \/ Ends
          \/ ~Busy'
          \/ \E name \in {"mkdir", "rm", "rmdir", "mv", "cat"} : \E src, dst : Begin(name, src, dst)
      BY <2>2, <2>4 DEF MkDir, Rm, RmDir, Mv, SaveFile, Cat, AtPrompt, Busy, commandVars
    <3> QED BY <1>2, <3>1 DEF Begin, CopyInv
  <2> QED BY <2>3, <2>4
<1>4. CASE Step
  BY <1>4, NextType, CopyStep, Zenon DEF CopyInv
<1> QED BY <1>1, <1>2, <1>3, <1>4 DEF Next

\* A cp that nothing gets in the way of, to a target unrelated to its source, makes
\* there exactly what it copies, under the same names and with the same text: what
\* the target held before is gone, no entry is missed, on any level, and every
\* directory is there before the entries that go into it.
THEOREM CopyIsWhole == Spec => []CopiesAllItCan
<1>1. Init => CopyInv
  BY DEF Init, CopyInv, Busy
<1>2. CopyInv => CopiesAllItCan
  <2> SUFFICES ASSUME CopyInv, Done, command.name = "cp", clean,
                      Given(start, command.src, command.dst)
               PROVE  LET src == command.src
                          dst == command.dst
                          copied == Copied(start, src)
                      IN /\ Below(files, dst) = {Moved(p, src, dst) : p \in copied}
                         /\ \A p \in copied : files[Moved(p, src, dst)] = AsCopied(start[p])
    BY DEF CopiesAllItCan, Given, Copied
  <2> DEFINE src == command.src
             dst == command.dst
  <2>1. calls = <<>> /\ Busy
    BY DEF Done
  <2>2. Phase(src, dst)
    BY <2>1, Zenon DEF CopyInv
  <2> HIDE DEF src, dst
  <2>3. ~Entered(src, dst)
    BY <2>1 DEF Entered
  <2>4. ~Clearing(src, dst)
    <3> SUFFICES ASSUME NEW rs \in Seq(Calls), rs \o <<Making(src, dst)>> = <<>> PROVE FALSE
      BY <2>1 DEF Clearing
    <3> QED OBVIOUS
  <2>5. ~Open(src, dst)
    <3> SUFFICES ASSUME NEW c, NEW rs \in Seq(Calls), <<c>> \o rs = <<>> PROVE FALSE
      BY <2>1 DEF Open
    <3> QED OBVIOUS
  <2>6. AtWork(src, dst)
    BY <2>2, <2>3, <2>4, <2>5 DEF Phase
  <2>7. \A q : ~Pending(calls, q)
    BY <2>1 DEF Pending
  <2>8. There(start, src, calls) = Copied(start, src)
    BY <2>7 DEF There
  <2>9. Reached(files, start, src, dst, Copied(start, src), {})
    BY <2>6, <2>8 DEF AtWork, HasCopied
  <2> QED BY <2>9 DEF Reached, SoFar, src, dst
<1> QED BY <1>1, <1>2, InitType, NextType, InitInv, NextInv, CopyNext, PTL DEF Spec
=============================================================================
