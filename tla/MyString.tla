------------------------------ MODULE MyString ------------------------------
(***************************************************************************)
(* my_string.h: the string functions the commands are parsed with. A C     *)
(* string is the sequence of its characters; positions count from 0 as in  *)
(* the code, and -1 is "not there". NULL is no string.                     *)
(***************************************************************************)
EXTENDS Integers, Sequences, SequencesExt, FiniteSets, FiniteSetsExt

CONSTANT NULL

Blank == " "

\* The positions from `from` on that hold c.
Positions(s, c, from) == {i \in 0 .. Len(s) - 1 : i >= from /\ s[i + 1] = c}

str_indexOf_start(s, c, start) ==
  LET found == Positions(s, c, start) IN IF found = {} THEN -1 ELSE Min(found)

str_indexOf(s, c) == IF s = NULL THEN -1 ELSE str_indexOf_start(s, c, 0)

str_lastIndexOf(s, c) ==
  LET found == Positions(s, c, 0) IN IF found = {} THEN -1 ELSE Max(found)

str_constain_char(s, c) == Cardinality(Positions(s, c, 0))

\* Both ends are included; a stretch that is empty or not in the string is NULL.
str_substring(s, from, to) ==
  IF from < 0 \/ to > Len(s) - 1 \/ from > to THEN NULL ELSE SubSeq(s, from + 1, to + 1)

\* What commands + n points to, for n up to the length.
From(s, n) == SubSeq(s, n + 1, Len(s))

str_full_path(s) == str_indexOf(s, ":") # -1

\* get_fn_from_path, of a path with a '/'.
get_fn_from_path(s) == From(s, str_lastIndexOf(s, "/") + 1)

-----------------------------------------------------------------------------
(* What the functions are meant for: a line is words between blanks, a path *)
(* is names between slashes. Words are counted without the empty ones.      *)

\* pieces with one more character at the end of the last one.
Extended(pieces, char) == [pieces EXCEPT ![Len(pieces)] = Append(@, char)]

\* The pieces of the first n characters of s between the occurrences of c.
PiecesUpTo(s, c) ==
  LET pieces[n \in 0 .. Len(s)] ==
        IF n = 0 THEN <<<<>>>>
        ELSE IF s[n] = c THEN Append(pieces[n - 1], <<>>)
        ELSE Extended(pieces[n - 1], s[n])
  IN pieces
Pieces(s, c) == PiecesUpTo(s, c)[Len(s)]

\* The words among them: the stretches without a blank.
WordsUpTo(s) ==
  LET words[n \in 0 .. Len(s)] ==
        IF n = 0 THEN <<>>
        ELSE IF s[n] = Blank THEN words[n - 1]
        ELSE IF n = 1 \/ s[n - 1] = Blank THEN Append(words[n - 1], <<s[n]>>)
        ELSE Extended(words[n - 1], s[n])
  IN words
WordsOf(s) == WordsUpTo(s)[Len(s)]
=============================================================================
