--------------------------- MODULE RowFormatProofs ---------------------------
(***************************************************************************)
(* A row is printed as it was entered if its texts are shorter than their  *)
(* columns, the username runs on into the email if it fills its column,    *)
(* and the fields of a page do not overlap.                                *)
(***************************************************************************)
EXTENDS RowFormat, SequenceTheorems, TLAPS

Memory(size) == [0 .. size - 1 -> Byte]

\* The length of a text, a number of its own for the arithmetic below.
Size(text) == Len(text)

\* A text somewhere in memory, whatever follows it.
Holds(mem, at, text) == \A i \in 0 .. Size(text) - 1 : mem[at + i] = text[i + 1]

\* A text in a column of n bytes: with a 0 behind it unless it fills the column.
Fills(mem, at, text, n) ==
  Holds(mem, at, text) /\ (Size(text) < n => mem[at + Size(text)] = 0)

\* What a text's bytes are.
LEMMA TextFacts ==
  ASSUME NEW text \in Text
  PROVE  /\ Size(text) \in Nat
         /\ \A i \in 0 .. Size(text) - 1 : text[i + 1] \in Byte /\ text[i + 1] # 0
BY DEF Text, Size

\* What ScanText leaves: the text, a 0 behind it, and the rest as it was.
LEMMA ScanTextFacts ==
  ASSUME NEW size \in Nat, NEW mem \in Memory(size), NEW at \in Nat, NEW text \in Text,
         at + Size(text) < size
  PROVE  LET new == ScanText(mem, at, text)
         IN /\ new \in Memory(size)
            /\ Holds(new, at, text) /\ new[at + Size(text)] = 0
            /\ \A i \in 0 .. size - 1 : i \notin at .. at + Size(text) => new[i] = mem[i]
<1> DEFINE new == ScanText(mem, at, text)
<1>1. Size(text) \in Nat /\ \A i \in 0 .. Size(text) - 1 : text[i + 1] \in Byte
  BY TextFacts
<1>2. /\ new = [i \in 0 .. size - 1 |-> IF i \in Area(at, Size(text)) THEN text[i - at + 1]
                                        ELSE IF i = at + Size(text) THEN 0 ELSE mem[i]]
  BY DEF ScanText, Memory, Size
<1>3. ASSUME NEW i \in Area(at, Size(text))
      PROVE  new[i] = text[i - at + 1] /\ new[i] \in Byte
  <2>1. i - at \in 0 .. Size(text) - 1 /\ i \in 0 .. size - 1
    BY <1>1 DEF Area
  <2> QED BY <1>1, <1>2, <2>1
<1>4. new[at + Size(text)] = 0
  BY <1>1, <1>2 DEF Area
<1>5. \A i \in 0 .. size - 1 : i \notin at .. at + Size(text) => new[i] = mem[i]
  BY <1>1, <1>2 DEF Area
<1>6. ASSUME NEW i \in 0 .. size - 1
      PROVE  new[i] \in Byte
  <2>1. mem[i] \in Byte /\ 0 \in Byte
    BY DEF Memory, Byte
  <2> HIDE DEF new
  <2>2. CASE i \in Area(at, Size(text))
    BY <1>3, <2>2
  <2>3. CASE i \notin at .. at + Size(text)
    BY <1>5, <2>1, <2>3
  <2>4. i \in Area(at, Size(text)) \/ i \notin at .. at + Size(text) \/ i = at + Size(text)
    BY <1>1 DEF Area
  <2> QED BY <1>4, <2>1, <2>2, <2>3, <2>4
<1>7. Holds(new, at, text)
  <2> SUFFICES ASSUME NEW i \in 0 .. Size(text) - 1
               PROVE  new[at + i] = text[i + 1]
    BY DEF Holds
  <2>1. at + i \in Area(at, Size(text)) /\ at + i - at + 1 = i + 1
    BY <1>1 DEF Area
  <2> QED BY <1>3, <2>1
<1>8. new \in Memory(size)
  BY <1>2, <1>6 DEF Memory
<1> QED BY <1>4, <1>5, <1>7, <1>8

\* strncpy of a text that is as long as the field: no 0 behind it. Of a shorter
\* one: the 0 is copied. Nothing else changes.
LEMMA StrNCpyFacts ==
  ASSUME NEW size \in Nat, NEW dest \in Memory(size), NEW at \in Nat,
         NEW ssize \in Nat, NEW src \in Memory(ssize), NEW from \in Nat,
         NEW n \in Nat, at + n <= size, from + n <= ssize,
         NEW text \in Text, Size(text) <= n, Fills(src, from, text, n)
  PROVE  LET new == StrNCpy(dest, at, src, from, n)
         IN /\ new \in Memory(size)
            /\ Fills(new, at, text, n)
            /\ \A i \in 0 .. size - 1 : i \notin Area(at, n) => new[i] = dest[i]
<1> DEFINE new == StrNCpy(dest, at, src, from, n)
           over(i) == \E j \in from .. from + i - at : src[j] = 0
<1>1. Size(text) \in Nat /\ \A i \in 0 .. Size(text) - 1 : text[i + 1] # 0
  BY TextFacts
<1>2. new = [i \in 0 .. size - 1 |-> IF i \notin Area(at, n) THEN dest[i]
                                     ELSE IF over(i) THEN 0 ELSE src[from + i - at]]
  BY DEF StrNCpy, Memory
<1> HIDE DEF new
<1>3. \A i \in 0 .. size - 1 : i \notin Area(at, n) => new[i] = dest[i]
  BY <1>2
<1>4. \A i \in 0 .. size - 1 : new[i] \in Byte
  <2> TAKE i \in 0 .. size - 1
  <2>1. dest[i] \in Byte /\ 0 \in Byte
    BY DEF Memory, Byte
  <2>2. ASSUME i \in Area(at, n) PROVE src[from + i - at] \in Byte
    <3>1. from + i - at \in 0 .. ssize - 1
      BY <2>2 DEF Area
    <3> QED BY <3>1 DEF Memory
  <2> QED BY <1>2, <2>1, <2>2
<1>5. ASSUME NEW k \in 0 .. Size(text) - 1
      PROVE  new[at + k] = text[k + 1]
  <2>1. at + k \in 0 .. size - 1 /\ at + k \in Area(at, n) /\ from + (at + k) - at = from + k
    BY <1>1 DEF Area
  <2>2. ~ over(at + k)
    <3> SUFFICES ASSUME NEW j \in from .. from + k PROVE src[j] # 0
      BY <2>1
    <3>1. j - from \in 0 .. Size(text) - 1 /\ from + (j - from) = j
      BY <1>1
    <3> QED BY <1>1, <3>1 DEF Fills, Holds
  <2>3. src[from + k] = text[k + 1]
    BY DEF Fills, Holds
  <2> QED BY <1>2, <2>1, <2>2, <2>3
<1>6. Size(text) < n => new[at + Size(text)] = 0
  <2> SUFFICES ASSUME Size(text) < n PROVE new[at + Size(text)] = 0
    OBVIOUS
  <2> DEFINE e == at + Size(text)
  <2>1. e \in 0 .. size - 1 /\ e \in Area(at, n) /\ from + e - at = from + Size(text)
    BY <1>1 DEF Area
  <2>2. from + Size(text) \in from .. from + e - at
    BY <1>1, <2>1
  <2>3. over(e)
    BY <2>2 DEF Fills
  <2> QED BY <1>2, <2>1, <2>3
<1>7. new \in Memory(size) /\ Holds(new, at, text)
  BY <1>2, <1>4, <1>5 DEF Memory, Holds
<1> QED BY <1>3, <1>6, <1>7 DEF Fills, new

-----------------------------------------------------------------------------
(* A row on its way from the line to the struct, the cell and back. *)

\* Where the members of the struct and the columns of the value are: apart, and
\* the email of the struct right behind the username.
LEMMA RowOffsets ==
  /\ USERNAME_SIZE \in Nat /\ EMAIL_SIZE \in Nat /\ STRUCT_SIZE \in Nat /\ ROW_SIZE \in Nat
  /\ USERNAME_MEMBER \in Nat /\ EMAIL_MEMBER \in Nat
  /\ USERNAME_OFFSET \in Nat /\ EMAIL_OFFSET \in Nat /\ ID_OFFSET = 0
  /\ USERNAME_MEMBER >= 4 /\ EMAIL_MEMBER = USERNAME_MEMBER + USERNAME_SIZE
  /\ EMAIL_MEMBER + EMAIL_SIZE <= STRUCT_SIZE
  /\ USERNAME_OFFSET >= 4 /\ USERNAME_OFFSET + USERNAME_SIZE <= EMAIL_OFFSET
  /\ EMAIL_OFFSET + EMAIL_SIZE <= ROW_SIZE
BY DEF ID_SIZE, USERNAME_SIZE, EMAIL_SIZE, USERNAME_MEMBER, EMAIL_MEMBER, USERNAME_OFFSET, EMAIL_OFFSET,
       ID_OFFSET, STRUCT_SIZE, ROW_SIZE

\* memcpy of the id, the first word of the struct and of the value.
LEMMA IdCopied ==
  ASSUME NEW size \in Nat, NEW dest \in Memory(size), size >= 4,
         NEW src, \A i \in 0 .. 3 : src[i] \in Byte
  PROVE  LET new == MemCpy(dest, 0, src, 0, ID_SIZE)
         IN new \in Memory(size) /\ \A i \in 0 .. 3 : new[i] = src[i]
BY DEF MemCpy, Memory, Area, ID_SIZE

\* What a row is made of, in a struct or in a value: the id, the username with a
\* 0 behind it if it is shorter than its column, the email with a 0.
Contains(mem, name_at, mail_at, id, username, email) ==
  /\ \A i \in 0 .. 3 : mem[i] = id[i]
  /\ Fills(mem, name_at, username, USERNAME_SIZE)
  /\ Holds(mem, mail_at, email)
  /\ mem[mail_at + Size(email)] = 0

\* What serialize_row and deserialize_row both do, from one place to another.
RowCopy(dest, name_at, mail_at, src, name_from, mail_from) ==
  LET numbered == MemCpy(dest, 0, src, 0, ID_SIZE)
      named == StrNCpy(numbered, name_at, src, name_from, USERNAME_SIZE)
  IN StrNCpy(named, mail_at, src, mail_from, EMAIL_SIZE)

\* It keeps a row, wherever the row is read from and written to.
LEMMA RowCopied ==
  ASSUME NEW size \in Nat, NEW dest \in Memory(size), NEW ssize \in Nat, NEW src \in Memory(ssize),
         NEW name_from \in Nat, NEW mail_from \in Nat, NEW name_at \in Nat, NEW mail_at \in Nat,
         name_from >= 4, name_from + USERNAME_SIZE <= mail_from, mail_from + EMAIL_SIZE <= ssize,
         name_at >= 4, name_at + USERNAME_SIZE <= mail_at, mail_at + EMAIL_SIZE <= size,
         NEW id, NEW username \in Text, NEW email \in Text,
         Size(username) <= USERNAME_SIZE, Size(email) < EMAIL_SIZE,
         Contains(src, name_from, mail_from, id, username, email)
  PROVE  LET new == RowCopy(dest, name_at, mail_at, src, name_from, mail_from)
         IN new \in Memory(size) /\ Contains(new, name_at, mail_at, id, username, email)
<1> DEFINE numbered == MemCpy(dest, 0, src, 0, ID_SIZE)
           named == StrNCpy(numbered, name_at, src, name_from, USERNAME_SIZE)
           new == StrNCpy(named, mail_at, src, mail_from, EMAIL_SIZE)
<1>1. Size(username) \in Nat /\ Size(email) \in Nat
  BY TextFacts
<1>2. USERNAME_SIZE \in Nat /\ EMAIL_SIZE \in Nat
  BY RowOffsets
<1>3. numbered \in Memory(size) /\ \A i \in 0 .. 3 : numbered[i] = id[i]
  <2>1. size >= 4 /\ \A i \in 0 .. 3 : src[i] \in Byte
    BY <1>2 DEF Memory
  <2> QED BY <2>1, IdCopied DEF Contains
<1> HIDE DEF numbered
<1>4. /\ named \in Memory(size)
      /\ Fills(named, name_at, username, USERNAME_SIZE)
      /\ \A i \in 0 .. size - 1 : i \notin Area(name_at, USERNAME_SIZE) => named[i] = numbered[i]
  <2>1. Fills(src, name_from, username, USERNAME_SIZE)
    BY DEF Contains
  <2>2. name_at + USERNAME_SIZE <= size /\ name_from + USERNAME_SIZE <= ssize
    BY <1>2
  <2> QED BY <1>2, <1>3, <2>1, <2>2, StrNCpyFacts
<1> HIDE DEF named
<1>5. /\ new \in Memory(size)
      /\ Fills(new, mail_at, email, EMAIL_SIZE)
      /\ \A i \in 0 .. size - 1 : i \notin Area(mail_at, EMAIL_SIZE) => new[i] = named[i]
  <2>1. Fills(src, mail_from, email, EMAIL_SIZE) /\ Size(email) <= EMAIL_SIZE
    BY <1>1, <1>2 DEF Contains, Fills
  <2> QED BY <1>2, <1>4, <2>1, StrNCpyFacts
<1> HIDE DEF new
<1>6. \A i \in 0 .. mail_at - 1 : new[i] = named[i]
  BY <1>2, <1>5 DEF Area
<1>7. \A i \in 0 .. 3 : new[i] = id[i]
  BY <1>2, <1>3, <1>4, <1>6 DEF Area
<1>8. Holds(new, name_at, username)
  BY <1>1, <1>2, <1>4, <1>6 DEF Fills, Holds
<1>9. Size(username) < USERNAME_SIZE => new[name_at + Size(username)] = 0
  BY <1>1, <1>2, <1>4, <1>6 DEF Fills
<1>10. Holds(new, mail_at, email) /\ new[mail_at + Size(email)] = 0
  BY <1>5 DEF Fills
<1> QED BY <1>5, <1>7, <1>8, <1>9, <1>10 DEF Contains, Fills, RowCopy, new, named, numbered

\* The struct as prepare_statement leaves it. A username of 32 bytes has its 0
\* where the email begins, and the email goes over it.
LEMMA RowScanned ==
  ASSUME NEW row \in Row, NEW id \in [0 .. 3 -> Byte], NEW username \in Text, NEW email \in Text,
         Size(username) <= USERNAME_SIZE, Size(email) < EMAIL_SIZE
  PROVE  LET entered == ScanRow(row, id, username, email)
         IN /\ entered \in Row
            /\ Contains(entered, USERNAME_MEMBER, EMAIL_MEMBER, id, username, email)
<1> DEFINE numbered == MemCpy(row, 0, id, 0, ID_SIZE)
           named == ScanText(numbered, USERNAME_MEMBER, username)
           entered == ScanText(named, EMAIL_MEMBER, email)
<1>1. row \in Memory(STRUCT_SIZE) /\ STRUCT_SIZE >= 4 /\ \A i \in 0 .. 3 : id[i] \in Byte
  BY RowOffsets DEF Row, Memory
<1>2. Size(username) \in Nat /\ Size(email) \in Nat
  BY TextFacts
<1>3. numbered \in Memory(STRUCT_SIZE) /\ \A i \in 0 .. 3 : numbered[i] = id[i]
  BY <1>1, RowOffsets, IdCopied
<1> HIDE DEF numbered
<1>4. /\ named \in Memory(STRUCT_SIZE)
      /\ Holds(named, USERNAME_MEMBER, username) /\ named[USERNAME_MEMBER + Size(username)] = 0
      /\ \A i \in 0 .. STRUCT_SIZE - 1 :
           i \notin USERNAME_MEMBER .. USERNAME_MEMBER + Size(username) => named[i] = numbered[i]
  <2>1. USERNAME_MEMBER + Size(username) < STRUCT_SIZE
    BY <1>2, RowOffsets
  <2> QED BY <1>3, <2>1, RowOffsets, ScanTextFacts
<1> HIDE DEF named
<1>5. /\ entered \in Memory(STRUCT_SIZE)
      /\ Holds(entered, EMAIL_MEMBER, email) /\ entered[EMAIL_MEMBER + Size(email)] = 0
      /\ \A i \in 0 .. STRUCT_SIZE - 1 :
           i \notin EMAIL_MEMBER .. EMAIL_MEMBER + Size(email) => entered[i] = named[i]
  <2>1. EMAIL_MEMBER + Size(email) < STRUCT_SIZE
    BY <1>2, RowOffsets
  <2> QED BY <1>4, <2>1, RowOffsets, ScanTextFacts
<1> HIDE DEF entered
<1>6. \A i \in 0 .. EMAIL_MEMBER - 1 : entered[i] = named[i]
  BY <1>2, <1>5, RowOffsets
<1>7. \A i \in 0 .. 3 : entered[i] = id[i]
  BY <1>2, <1>3, <1>4, <1>6, RowOffsets
<1>8. /\ Holds(entered, USERNAME_MEMBER, username)
      /\ Size(username) < USERNAME_SIZE => entered[USERNAME_MEMBER + Size(username)] = 0
  BY <1>2, <1>4, <1>6, RowOffsets DEF Holds
<1>9. entered \in Row
  BY <1>5 DEF Row, Memory
<1> QED BY <1>5, <1>7, <1>8, <1>9 DEF Contains, Fills, ScanRow, entered, named, numbered

\* What a select has in its struct after an insert.
LEMMA RowSelected ==
  ASSUME NEW row \in Row, NEW id \in [0 .. 3 -> Byte], NEW username \in Text, NEW email \in Text,
         Size(username) <= USERNAME_SIZE, Size(email) < EMAIL_SIZE,
         NEW value \in Value, NEW other \in Row
  PROVE  LET selected == Selected(ScanRow(row, id, username, email), value, other)
         IN Contains(selected, USERNAME_MEMBER, EMAIL_MEMBER, id, username, email)
<1> DEFINE entered == ScanRow(row, id, username, email)
           stored == serialize_row(entered, value)
           selected == deserialize_row(stored, other)
<1>1. other \in Memory(STRUCT_SIZE) /\ value \in Memory(ROW_SIZE)
  BY DEF Row, Value, Memory
<1>2. /\ entered \in Memory(STRUCT_SIZE)
      /\ Contains(entered, USERNAME_MEMBER, EMAIL_MEMBER, id, username, email)
  BY RowScanned DEF Row, Memory
<1> HIDE DEF entered
<1>3. /\ stored \in Memory(ROW_SIZE)
      /\ Contains(stored, USERNAME_OFFSET, EMAIL_OFFSET, id, username, email)
  <2>1. stored = RowCopy(value, USERNAME_OFFSET, EMAIL_OFFSET, entered, USERNAME_MEMBER, EMAIL_MEMBER)
    BY RowOffsets DEF serialize_row, RowCopy
  <2> HIDE DEF stored
  <2>2. USERNAME_MEMBER + USERNAME_SIZE <= EMAIL_MEMBER
    BY RowOffsets
  <2> QED BY <1>1, <1>2, <2>1, <2>2, RowOffsets, RowCopied
<1> HIDE DEF stored
<1>4. Contains(selected, USERNAME_MEMBER, EMAIL_MEMBER, id, username, email)
  <2>1. selected = RowCopy(other, USERNAME_MEMBER, EMAIL_MEMBER, stored, USERNAME_OFFSET, EMAIL_OFFSET)
    BY RowOffsets DEF deserialize_row, RowCopy
  <2> HIDE DEF selected
  <2>2. USERNAME_MEMBER + USERNAME_SIZE <= EMAIL_MEMBER
    BY RowOffsets
  <2> QED BY <1>1, <1>3, <2>1, <2>2, RowOffsets, RowCopied
<1> QED BY <1>4 DEF Selected, selected, stored, entered

\* A text with a 0 behind it is what %s prints.
LEMMA HeldIsPrinted ==
  ASSUME NEW mem, NEW at \in Nat, NEW text \in Text, Holds(mem, at, text), mem[at + Size(text)] = 0
  PROVE  Prints(mem, at, text)
<1>1. Len(text) = Size(text) /\ Size(text) \in Nat
  BY TextFacts DEF Size
<1>2. ASSUME NEW i \in 1 .. Size(text)
      PROVE  mem[at + i - 1] = text[i]
  <2>1. i - 1 \in 0 .. Size(text) - 1 /\ at + (i - 1) = at + i - 1 /\ (i - 1) + 1 = i
    BY <1>1
  <2> QED BY <2>1 DEF Holds
<1> QED BY <1>1, <1>2 DEF Prints

\* What insert was given is what select prints, whatever was in the cell and in
\* the structs before, if both texts are shorter than their columns.
THEOREM PrintedAsEntered ==
  ASSUME NEW row \in Row, NEW id \in [0 .. 3 -> Byte], NEW username \in Text, NEW email \in Text,
         Len(username) < USERNAME_SIZE, Len(email) < EMAIL_SIZE,
         NEW value \in Value, NEW other \in Row
  PROVE  LET selected == Selected(ScanRow(row, id, username, email), value, other)
         IN /\ \A i \in 0 .. ID_SIZE - 1 : selected[i] = id[i]
            /\ Prints(selected, USERNAME_MEMBER, username)
            /\ Prints(selected, EMAIL_MEMBER, email)
<1> DEFINE selected == Selected(ScanRow(row, id, username, email), value, other)
<1>1. /\ Len(username) = Size(username) /\ Len(email) = Size(email)
      /\ Size(username) \in Nat /\ Size(email) \in Nat /\ USERNAME_SIZE \in Nat
  BY TextFacts, RowOffsets DEF Size
<1>2. Contains(selected, USERNAME_MEMBER, EMAIL_MEMBER, id, username, email)
  BY <1>1, RowSelected
<1> HIDE DEF selected
<1>3. Prints(selected, USERNAME_MEMBER, username)
  BY <1>1, <1>2, HeldIsPrinted, RowOffsets DEF Contains, Fills
<1>4. Prints(selected, EMAIL_MEMBER, email)
  BY <1>1, <1>2, HeldIsPrinted, RowOffsets DEF Contains
<1>5. \A i \in 0 .. ID_SIZE - 1 : selected[i] = id[i]
  BY <1>2 DEF Contains, ID_SIZE
<1> QED BY <1>3, <1>4, <1>5 DEF selected

\* A username that fills its column of 32 bytes has no 0 behind it in the struct:
\* select prints the email after it, as if it were part of the name.
THEOREM FullNameRunsOn ==
  ASSUME NEW row \in Row, NEW id \in [0 .. 3 -> Byte], NEW username \in Text, NEW email \in Text,
         Len(username) = USERNAME_SIZE, Len(email) < EMAIL_SIZE,
         NEW value \in Value, NEW other \in Row
  PROVE  Prints(Selected(ScanRow(row, id, username, email), value, other),
                USERNAME_MEMBER, username \o email)
<1> DEFINE selected == Selected(ScanRow(row, id, username, email), value, other)
           both == username \o email
<1>1. /\ Size(username) = USERNAME_SIZE /\ Size(email) \in Nat /\ Size(email) < EMAIL_SIZE
      /\ USERNAME_SIZE \in Nat
  BY TextFacts, RowOffsets DEF Size
<1>2. Contains(selected, USERNAME_MEMBER, EMAIL_MEMBER, id, username, email)
  BY <1>1, RowSelected
<1> HIDE DEF selected
<1>3. /\ both \in Text /\ Size(both) = Size(username) + Size(email)
      /\ \A i \in 1 .. Size(username) + Size(email) :
           both[i] = IF i <= Size(username) THEN username[i] ELSE email[i - Size(username)]
  BY ConcatProperties DEF Text, Size
<1> HIDE DEF both
<1>4. ASSUME NEW i \in 0 .. Size(both) - 1
      PROVE  selected[USERNAME_MEMBER + i] = both[i + 1]
  <2>1. CASE i < Size(username)
    <3>1. i \in 0 .. Size(username) - 1 /\ both[i + 1] = username[i + 1]
      BY <1>1, <1>3, <2>1
    <3> QED BY <1>2, <3>1 DEF Contains, Fills, Holds
  <2>2. CASE i >= Size(username)
    <3> DEFINE k == i - Size(username)
    <3>1. k \in 0 .. Size(email) - 1 /\ both[i + 1] = email[k + 1]
      BY <1>1, <1>3, <2>2
    <3>2. EMAIL_MEMBER + k = USERNAME_MEMBER + i
      BY <1>1, <1>3, RowOffsets
    <3> HIDE DEF k
    <3>3. selected[EMAIL_MEMBER + k] = email[k + 1]
      BY <1>2, <3>1 DEF Contains, Holds
    <3> QED BY <3>1, <3>2, <3>3
  <2> QED BY <1>1, <1>3, <2>1, <2>2
<1>5. USERNAME_MEMBER + Size(both) = EMAIL_MEMBER + Size(email)
  BY <1>1, <1>3, RowOffsets
<1>6. Holds(selected, USERNAME_MEMBER, both) /\ selected[USERNAME_MEMBER + Size(both)] = 0
  BY <1>2, <1>4, <1>5 DEF Holds, Contains
<1>7. Prints(selected, USERNAME_MEMBER, both)
  BY <1>3, <1>6, HeldIsPrinted, RowOffsets
<1> QED BY <1>7 DEF selected, both

-----------------------------------------------------------------------------
(* The fields of a page. *)

\* The sizes and offsets, worked out.
LEMMA Offsets ==
  /\ HeaderFields = {Field(0, 1), Field(1, 1), Field(2, 4), Field(6, 4), Field(10, 4)}
  /\ LEAF_NODE_MAX_CELLS = 5
  /\ \A i \in Int : leaf_node_cell(i) = 14 + i * 772 /\ leaf_node_value(i) = 18 + i * 772
  /\ \A i \in Int : internal_node_cell(i) = 14 + i * 8 /\ internal_node_key(i) = 18 + i * 8
<1> USE DEF PAGE_SIZE, WORD, COMMON_NODE_HEADER_SIZE, HEADER_SIZE, ROW_SIZE
<1>1. HeaderFields = {Field(0, 1), Field(1, 1), Field(2, 4), Field(6, 4), Field(10, 4)}
  BY DEF HeaderFields, NODE_TYPE_OFFSET, IS_ROOT_OFFSET, PARENT_POINTER_OFFSET, NUM_CELLS_OFFSET,
         LINK_OFFSET
<1>2. LEAF_NODE_MAX_CELLS = 5
  BY DEF LEAF_NODE_MAX_CELLS, LEAF_NODE_CELL_SIZE
<1>3. \A i \in Int : leaf_node_cell(i) = 14 + i * 772 /\ leaf_node_value(i) = 18 + i * 772
  BY DEF leaf_node_cell, leaf_node_value, LEAF_NODE_CELL_SIZE
<1>4. \A i \in Int : internal_node_cell(i) = 14 + i * 8 /\ internal_node_key(i) = 18 + i * 8
  BY DEF internal_node_cell, internal_node_key, INTERNAL_NODE_CELL_SIZE
<1> QED BY <1>1, <1>2, <1>3, <1>4

\* Fields of which one begins where or after the other ends do not overlap.
LEMMA Apart ==
  ASSUME NEW fields,
         \A f \in fields : /\ f.at \in Nat /\ f.size \in Nat /\ f.at + f.size <= PAGE_SIZE
                           /\ f = Field(f.at, f.size),
         \A f, g \in fields : f = g \/ f.at + f.size <= g.at \/ g.at + g.size <= f.at
  PROVE  FieldsApart(fields)
<1>1. \A f \in fields : Area(f.at, f.size) \subseteq 0 .. PAGE_SIZE - 1
  <2> SUFFICES ASSUME NEW f \in fields, NEW x \in Area(f.at, f.size)
               PROVE  x \in 0 .. PAGE_SIZE - 1
    OBVIOUS
  <2>1. f.at \in Nat /\ f.size \in Nat /\ f.at + f.size <= PAGE_SIZE /\ PAGE_SIZE \in Nat
    BY DEF PAGE_SIZE
  <2>2. x \in f.at .. f.at + f.size - 1
    BY DEF Area
  <2> QED BY <2>1, <2>2
<1>2. ASSUME NEW f \in fields, NEW g \in fields, f # g
      PROVE  Area(f.at, f.size) \cap Area(g.at, g.size) = {}
  BY <1>2 DEF Area
<1> QED BY <1>1, <1>2 DEF FieldsApart

\* The header, the five keys and the five rows of a leaf have bytes of their own
\* within the page, so writing one changes no other.
THEOREM LeafFieldsApart == FieldsApart(LeafFields)
<1>1. ASSUME NEW f \in LeafFields
      PROVE  \/ f \in {Field(0, 1), Field(1, 1), Field(2, 4), Field(6, 4), Field(10, 4)}
             \/ \E i \in 0 .. 4 : f = Field(14 + i * 772, 4) \/ f = Field(18 + i * 772, 768)
  BY Offsets DEF LeafFields, WORD, ROW_SIZE
<1>2. ASSUME NEW f \in LeafFields
      PROVE  /\ f.at \in Nat /\ f.size \in Nat /\ f.at + f.size <= PAGE_SIZE
             /\ f = Field(f.at, f.size)
  BY <1>1 DEF Field, PAGE_SIZE
<1>3. ASSUME NEW f \in LeafFields, NEW g \in LeafFields
      PROVE  f = g \/ f.at + f.size <= g.at \/ g.at + g.size <= f.at
  BY <1>1 DEF Field
<1> QED BY <1>2, <1>3, Apart

\* So have those of an internal node, with the cell past the last key, which
\* update_internal_node_key writes for the right child.
THEOREM InternalFieldsApart == FieldsApart(InternalFields)
<1>1. ASSUME NEW f \in InternalFields
      PROVE  \/ f \in {Field(0, 1), Field(1, 1), Field(2, 4), Field(6, 4), Field(10, 4)}
             \/ \E i \in 0 .. 3 : f = Field(14 + i * 8, 4) \/ f = Field(18 + i * 8, 4)
  BY Offsets DEF InternalFields, WORD, INTERNAL_NODE_MAX_CELLS
<1>2. ASSUME NEW f \in InternalFields
      PROVE  /\ f.at \in Nat /\ f.size \in Nat /\ f.at + f.size <= PAGE_SIZE
             /\ f = Field(f.at, f.size)
  BY <1>1 DEF Field, PAGE_SIZE
<1>3. ASSUME NEW f \in InternalFields, NEW g \in InternalFields
      PROVE  f = g \/ f.at + f.size <= g.at \/ g.at + g.size <= f.at
  BY <1>1 DEF Field
<1> QED BY <1>2, <1>3, Apart
=============================================================================
