------------------------------- MODULE Pager -------------------------------
(***************************************************************************)
(* The pager of tiny-sqlite: the page table of src/page.c, opened and      *)
(* closed by db_open and db_close of src/table.c, over the database file   *)
(* (the file is the operating system's and outlives the process).          *)
(*                                                                         *)
(* Lengths and offsets are counted in pages: every write of the program is *)
(* PAGE_SIZE bytes at a multiple of PAGE_SIZE, so file_len % PAGE_SIZE is  *)
(* always 0 and pager_open never takes its "db file format error" branch.  *)
(* A write that stores fewer bytes than asked is not modelled.             *)
(*                                                                         *)
(* What a page holds is a parameter: this module moves pages, Database     *)
(* gives them nodes of the tree.                                           *)
(***************************************************************************)
EXTENDS Integers, Sequences

CONSTANTS
  TABLE_MAX_PAGES,  \* entries of Pager.pages (64 in config.h)
  Content,          \* what a page of memory or of the file may hold
  Zeros,            \* a page of the file nobody wrote, before one that was
  Junk,             \* malloc'ed memory nobody wrote
  EmptyRoot,        \* what db_open writes in page 0 of an empty file
  Null,             \* an entry of Pager.pages that points nowhere
  MaxFilePages      \* bound: no session is opened on a longer file

ASSUME PageTableAssumption == TABLE_MAX_PAGES \in Nat \ {0}
ASSUME ContentAssumption == {Zeros, Junk, EmptyRoot} \subseteq Content
ASSUME NullAssumption == Null \notin Content
ASSUME FileBoundAssumption == MaxFilePages \in Nat

VARIABLES
  file,      \* the database file, a sequence of pages; slot s is file[s + 1]
  pager,     \* struct Pager and, as pos, the file offset of its descriptor
  pc,        \* "down": no process; "open": at the prompt; "closing": in db_close
  flushing   \* the loop variable i of db_close

pagerVars == <<file, pager, pc, flushing>>

PageNums == 0 .. TABLE_MAX_PAGES - 1

Cached(pg) == {p \in PageNums : pg.pages[p] # Null}

-----------------------------------------------------------------------------
(* Functions of page.c, from one pager to the next.                        *)

\* get_unused_page_num
UnusedPageNum(pg) == pg.num_pages

\* What get_page(p) finds in the file: read() at or past the end of the file
\* returns 0 bytes and leaves the malloc'ed page as it was.
ReadSlot(p) == IF p < Len(file) THEN file[p + 1] ELSE Junk

\* What get_page(p) returns.
Seen(pg, p) == IF pg.pages[p] # Null THEN pg.pages[p] ELSE ReadSlot(p)

\* get_page of a page not in memory reads the file only when p <= file_len,
\* and the read leaves the offset behind the bytes it got.
PosAfterRead(pg, p) ==
  IF p > pg.file_len THEN pg.pos
  ELSE IF p < Len(file) THEN p + 1 ELSE p

\* Mutants of LoadPage: num_pages not raised; a full page table entry read again.
LoadPageNoCount(pg, p) ==
  IF pg.pages[p] # Null THEN pg
  ELSE [pg EXCEPT !.pages[p] = ReadSlot(p), !.pos = PosAfterRead(pg, p)]
LoadPageAgain(pg, p) ==
  [pg EXCEPT !.pages[p] = ReadSlot(p),
             !.pos = PosAfterRead(pg, p),
             !.num_pages = IF p >= @ THEN p + 1 ELSE @]

\* get_page for a page number within the table.
LoadPage(pg, p) ==
  IF pg.pages[p] # Null THEN pg
  ELSE [pg EXCEPT !.pages[p] = ReadSlot(p),
                  !.pos = PosAfterRead(pg, p),
                  !.num_pages = IF p >= @ THEN p + 1 ELSE @]

\* The caller writes the page behind the pointer get_page gave it.
StorePage(pg, p, c) == [pg EXCEPT !.pages[p] = c]

\* Mutant of OpenedPager: the loop that clears the table goes one entry too far.
OpenedPagerPast ==
  [pos       |-> Len(file),
   file_len  |-> Len(file),
   num_pages |-> Len(file),
   pages     |-> [p \in 0 .. TABLE_MAX_PAGES |-> Null]]

\* pager_open: lseek to the end gives file_len and leaves the offset there.
OpenedPager ==
  [pos       |-> Len(file),
   file_len  |-> Len(file),
   num_pages |-> Len(file),
   pages     |-> [p \in PageNums |-> Null]]

\* Mutant of FlushSlot: a seek from the start that leaves out the page number.
FlushSlotStart(pos, p) == 0

\* pager_flush seeks page_num * PAGE_SIZE from the CURRENT offset.
FlushSlot(pos, p) == pos + p

\* write() at a slot; slots between the old end and it become zeros.
WriteSlot(f, s, c) ==
  [i \in 1 .. (IF s < Len(f) THEN Len(f) ELSE s + 1) |->
     IF i = s + 1 THEN c ELSE IF i <= Len(f) THEN f[i] ELSE Zeros]

-----------------------------------------------------------------------------
(* The pager as a state machine, driven by any client that asks for pages  *)
(* already numbered or for the unused one, as the tree code does.          *)

\* No process: what it had in memory is gone.
NoPager ==
  [pos |-> 0, file_len |-> 0, num_pages |-> 0, pages |-> [p \in PageNums |-> Null]]

Init ==
  /\ file = <<>>
  /\ pager = NoPager
  /\ pc = "down"
  /\ flushing = 0

\* The process ends.
Ends ==
  /\ pc' = "down"
  /\ pager' = NoPager
  /\ flushing' = 0

\* db_open: pager_open and, for an empty file, the root leaf in page 0.
Open ==
  /\ pc = "down"
  /\ Len(file) <= MaxFilePages
  /\ pager' = IF OpenedPager.num_pages = 0
              THEN StorePage(LoadPage(OpenedPager, 0), 0, EmptyRoot)
              ELSE OpenedPager
  /\ pc' = "open"
  /\ flushing' = 0
  /\ UNCHANGED file

\* get_page on a page number some node names.
Fetch(p) ==
  /\ pc = "open"
  /\ p < pager.num_pages
  /\ pager' = LoadPage(pager, p)
  /\ UNCHANGED <<file, pc, flushing>>

\* The tree code changes a page it holds.
Modify(p, c) ==
  /\ pc = "open"
  /\ pager.pages[p] # Null
  /\ pager' = StorePage(pager, p, c)
  /\ UNCHANGED <<file, pc, flushing>>

\* A split takes the unused page and initialises it (tree_node.c); past the
\* table get_page exits.
Allocate(c) ==
  /\ pc = "open"
  /\ LET new == UnusedPageNum(pager)
     IN \/ /\ new < TABLE_MAX_PAGES
           /\ pager' = StorePage(LoadPage(pager, new), new, c)
           /\ UNCHANGED <<pc, flushing>>
        \/ /\ new >= TABLE_MAX_PAGES
           /\ Ends
  /\ UNCHANGED file

\* .exit calls db_close.
StartClose ==
  /\ pc = "open"
  /\ pc' = "closing"
  /\ flushing' = 0
  /\ UNCHANGED <<file, pager>>

\* One iteration of the flush loop on a page in memory: pager_flush, free.
FlushPage ==
  /\ pc = "closing"
  /\ flushing < pager.num_pages
  /\ flushing < TABLE_MAX_PAGES
  /\ pager.pages[flushing] # Null
  /\ LET slot == FlushSlot(pager.pos, flushing)
     IN /\ file' = WriteSlot(file, slot, pager.pages[flushing])
        /\ pager' = [pager EXCEPT !.pos = slot + 1, !.pages[flushing] = Null]
  /\ flushing' = flushing + 1
  /\ UNCHANGED pc

\* Mutant of SkipPage: the loop does not move past an entry that is NULL.
SkipPageStuck ==
  /\ pc = "closing"
  /\ flushing < pager.num_pages
  /\ flushing < TABLE_MAX_PAGES => pager.pages[flushing] = Null
  /\ UNCHANGED pagerVars

\* One iteration on an entry that is NULL. The loop runs to num_pages, which may
\* be past the table. What it reads there is undefined: the tail of the Pager's
\* own block of memory, which nobody wrote and is NULL ...
SkipPage ==
  /\ pc = "closing"
  /\ flushing < pager.num_pages
  /\ flushing < TABLE_MAX_PAGES => pager.pages[flushing] = Null
  /\ flushing' = flushing + 1
  /\ UNCHANGED <<file, pager, pc>>

\* ... or the size malloc keeps before the next block, which is no address:
\* write() fails and pager_flush exits.
OverrunExit ==
  /\ pc = "closing"
  /\ flushing < pager.num_pages
  /\ flushing >= TABLE_MAX_PAGES
  /\ Ends
  /\ UNCHANGED file

\* The loop ends; close(), free, exit(EXIT_SUCCESS).
FinishClose ==
  /\ pc = "closing"
  /\ flushing >= pager.num_pages
  /\ Ends
  /\ UNCHANGED file

\* The process ends between two steps: end of input (read_input exits), a
\* failed lseek or write (pager_flush exits), a signal.
Kill ==
  /\ pc # "down"
  /\ Ends
  /\ UNCHANGED file

CloseStep == FlushPage \/ SkipPage \/ OverrunExit \/ FinishClose

\* What the tree code writes: never the two contents that come from outside it.
Written == Content \ {Zeros, Junk}

Next ==
  \/ Open
  \/ \E p \in PageNums : Fetch(p)
  \/ \E p \in PageNums, c \in Written : Modify(p, c)
  \/ \E c \in Written : Allocate(c)
  \/ StartClose
  \/ CloseStep
  \/ Kill

Spec == Init /\ [][Next]_pagerVars

-----------------------------------------------------------------------------
(* Properties.                                                             *)

\* The values of the variables: a file of pages, a page table with an entry
\* for each page number, a loop variable no larger than num_pages.
TypeOK ==
  /\ file \in Seq(Content)
  /\ pager \in [pos : Nat, file_len : Nat, num_pages : Nat,
               pages : [PageNums -> Content \cup {Null}]]
  /\ pc \in {"down", "open", "closing"}
  /\ flushing \in Nat

\* get_unused_page_num never hands out a page that is in use: while the
\* database is open num_pages is past every page in memory and every page of
\* the file. A split that got a used page would overwrite another node.
UnusedIsUnused ==
  pc = "open" =>
    /\ \A p \in Cached(pager) : p < UnusedPageNum(pager)
    /\ Len(file) <= UnusedPageNum(pager)

\* The flush loop of db_close reaches every page in memory: when it has passed
\* num_pages no entry of the table is left unwritten.
NothingLeftUnflushed ==
  pc = "closing" => \A p \in Cached(pager) : flushing <= p /\ p < pager.num_pages

\* The callers of get_page keep the pointers it returned across later calls of
\* it: a step that reads the file or takes a page number leaves every page
\* already in memory as it was.
GetsPage ==
  /\ pc = "open" /\ pc' = "open"
  /\ \/ pager'.pos # pager.pos
     \/ pager'.num_pages # pager.num_pages
     \/ Cached(pager') # Cached(pager)
KeepsPages == \A p \in Cached(pager) : pager'.pages[p] = pager.pages[p]
PagesInMemoryStay == [][GetsPage => KeepsPages]_pagerVars

\* The bookkeeping the properties above rest on, as one inductive invariant:
\* num_pages is past every page in memory and every page of the file, and the
\* flush loop is behind the pages still to write.
PagerInv ==
  /\ TypeOK
  /\ pc = "open" => pager.file_len = Len(file)
  /\ UnusedIsUnused
  /\ NothingLeftUnflushed

\* What page.c:52 says of get_page ("if the page is persisted on disk, read it
\* from disk"): a page pager_flush persists is where get_page reads it.
PersistedWhereRead ==
  [][pc = "closing" /\ flushing' = flushing + 1 /\ flushing \in Cached(pager)
     => file'[flushing + 1] = pager.pages[flushing]]_pagerVars
=============================================================================
