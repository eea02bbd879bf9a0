------------------------------ MODULE FileTree ------------------------------
(***************************************************************************)
(* A drive of files and directories as the Windows calls of               *)
(* file-op-commands see it, and what my_file.h computes from paths.        *)
(*                                                                         *)
(* A path is a sequence of names from the drive down; "E:" itself is the   *)
(* empty path. A tree maps the paths that exist to what is there. A name   *)
(* is a model value; all that matters of its letters is whether there is   *)
(* a '.' among them.                                                       *)
(***************************************************************************)
EXTENDS Integers, Sequences, SequencesExt

CONSTANTS
  Names,
  Dotted,     \* the names with a '.'
  Data,       \* what a block of a file may hold
  Text,       \* the blocks that survive being read and written as text
  Mangled,    \* what the others become: line ends changed, cut at Ctrl-Z
  MAX_DEPTH   \* names in the longest path the system takes (MAX_PATH)

ASSUME DottedAssumption == Dotted \subseteq Names
ASSUME DataAssumption == Text \subseteq Data /\ Mangled \notin Data
ASSUME DepthAssumption == MAX_DEPTH \in Nat \ {0}

Paths == BoundedSeq(Names, MAX_DEPTH)

Dir == [dir |-> TRUE, data |-> <<>>]
File(data) == [dir |-> FALSE, data |-> data]

\* p is q or below it.
Under(p, q) == Len(q) <= Len(p) /\ \A i \in 1 .. Len(q) : p[i] = q[i]

Parent(p) == SubSeq(p, 1, Len(p) - 1)   \* get_par_from_path

\* file_type of a path: a '.' anywhere in it makes it 'f'.
IsFileName(p) == \E i \in DOMAIN p : p[i] \in Dotted

-----------------------------------------------------------------------------
(* What there is: access(), _findfirst() and _findnext().                  *)

Exists(t, p) == p \in DOMAIN t
IsDir(t, p) == Exists(t, p) /\ t[p].dir
IsFile(t, p) == Exists(t, p) /\ ~t[p].dir
Entries(t, p) == {n \in Names : Append(p, n) \in DOMAIN t}
Below(t, p) == {q \in DOMAIN t : Under(q, p)}

-----------------------------------------------------------------------------
(* When a call that changes the tree can succeed, and the tree it leaves.  *)

Put(t, p, entry) == [q \in DOMAIN t \cup {p} |-> IF q = p THEN entry ELSE t[q]]
Drop(t, p) == [q \in DOMAIN t \ {p} |-> t[q]]

\* _mkdir
CanMakeDir(t, p) ==
  p # <<>> /\ ~Exists(t, p) /\ IsDir(t, Parent(p)) /\ Len(p) <= MAX_DEPTH

\* _rmdir, remove
CanRemoveDir(t, p) == p # <<>> /\ IsDir(t, p) /\ Entries(t, p) = {}
CanRemoveFile(t, p) == IsFile(t, p)

\* fopen(p, "w") and fopen(p, "a")
CanWrite(t, p) ==
  p # <<>> /\ ~IsDir(t, p) /\ IsDir(t, Parent(p)) /\ Len(p) <= MAX_DEPTH

\* rename, which moves what is below with it.
Moved(p, old, new) == new \o SubSeq(p, Len(old) + 1, Len(p))
CanRename(t, old, new) ==
  /\ Exists(t, old) /\ ~Exists(t, new) /\ ~Under(new, old)
  /\ new # <<>> /\ IsDir(t, Parent(new)) /\ Len(new) <= MAX_DEPTH
Renamed(t, old, new) ==
  [q \in (DOMAIN t \ Below(t, old)) \cup {Moved(p, old, new) : p \in Below(t, old)} |->
     IF Under(q, new) THEN t[Moved(q, new, old)] ELSE t[q]]

\* The files are opened as text: reading and writing back keeps text only.
AsText(data) == [i \in DOMAIN data |-> IF data[i] \in Text THEN data[i] ELSE Mangled]

-----------------------------------------------------------------------------
(* Used by the properties.                                                 *)

\* A drive: every entry is in a directory.
Entry == [dir : BOOLEAN, data : Seq(Data \cup {Mangled})]
IsTree(t) ==
  /\ DOMAIN t \subseteq Seq(Names) /\ <<>> \in DOMAIN t
  /\ t \in [DOMAIN t -> Entry]
  /\ \A p \in DOMAIN t : p # <<>> => IsDir(t, Parent(p))

\* Path p is the same in both trees.
SameAt(t, u, p) == (p \in DOMAIN t <=> p \in DOMAIN u) /\ (p \in DOMAIN t => t[p] = u[p])

\* Nothing of p is in q, nor q in p.
Unrelated(p, q) == ~Under(p, q) /\ ~Under(q, p)
=============================================================================
