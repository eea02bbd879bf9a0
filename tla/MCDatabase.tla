----------------------------- MODULE MCDatabase -----------------------------
(* Databases with a few keys; a .cfg chooses the sizes of nodes and files.  *)
EXTENDS Database

CONSTANTS NumKeys, v1, v2

MCKeys == 0 .. NumKeys - 1
MCValues == {v1, v2}

\* One row for each key, neighbours with different values; and one key with the
\* other value as well.
OneRowEach == [key : MCKeys, value : {v1}]
MCRows ==
  {r \in [key : MCKeys, value : MCValues] : r.value = v1 <=> r.key % 2 = 0}
    \cup [key : {3}, value : {v1}]
=============================================================================
