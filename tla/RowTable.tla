------------------------------ MODULE RowTable ------------------------------
(***************************************************************************)
(* What a session of tiny-sqlite on a new file promises its user: a table  *)
(* with at most one row for each key, insert that either stores the row or *)
(* reports the key as taken, and select that prints every row once, in the *)
(* order of the keys. A session may end at any time and takes the rows     *)
(* with it.                                                                *)
(***************************************************************************)
EXTENDS Integers

CONSTANTS
  Keys, Values,
  NoRow         \* nothing printed yet

VARIABLES
  rows,     \* the rows stored, [key, value]
  mode,     \* "closed", "ready" or "selecting"
  printed,  \* the row the running select printed last, or NoRow
  result    \* what the last statement reported

tableVars == <<rows, mode, printed, result>>

Row == [key : Keys, value : Values]

Init ==
  /\ rows = {}
  /\ mode = "closed"
  /\ printed = NoRow
  /\ result = "none"

Start ==
  /\ mode = "closed"
  /\ mode' = "ready"
  /\ UNCHANGED <<rows, printed, result>>

Insert(row) ==
  /\ mode = "ready"
  /\ IF \E r \in rows : r.key = row.key
     THEN rows' = rows /\ result' = "duplicate"
     ELSE rows' = rows \cup {row} /\ result' = "executed"
  /\ UNCHANGED <<mode, printed>>

Select ==
  /\ mode = "ready"
  /\ mode' = "selecting"
  /\ UNCHANGED <<rows, printed, result>>

Unprinted == {r \in rows : printed = NoRow \/ r.key > printed.key}

PrintRow ==
  /\ mode = "selecting"
  /\ LET left == Unprinted
     IN \E r \in left :
          /\ \A s \in left : r.key <= s.key
          /\ printed' = r
  /\ UNCHANGED <<rows, mode, result>>

Finish ==
  /\ mode = "selecting"
  /\ Unprinted = {}
  /\ mode' = "ready"
  /\ printed' = NoRow
  /\ result' = "executed"
  /\ UNCHANGED rows

Stop ==
  /\ mode # "closed"
  /\ mode' = "closed"
  /\ rows' = {}
  /\ printed' = NoRow
  /\ result' = "none"

Next ==
  \/ Start
  \/ \E row \in Row : Insert(row)
  \/ Select
  \/ PrintRow
  \/ Finish
  \/ Stop

Spec == Init /\ [][Next]_tableVars
=============================================================================
