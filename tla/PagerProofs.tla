---------------------------- MODULE PagerProofs ----------------------------
(***************************************************************************)
(* Proofs about Pager and PagerClose, for every size of the page table and *)
(* every set of page contents. They rest on one inductive invariant of the *)
(* pager, PagerInv, and one of its flush loop, CloseInv.                   *)
(***************************************************************************)
EXTENDS PagerClose, TLAPS

PagerRecord ==
  [pos : Nat, file_len : Nat, num_pages : Nat,
   pages : [PageNums -> Content \cup {Null}]]

-----------------------------------------------------------------------------
(* What the functions of page.c return.                                    *)

\* get_page returns a pager of the same kind, with the page in memory, the
\* others as they were, num_pages past the page and never lower.
LEMMA LoadPageFacts ==
  ASSUME TypeOK, NEW pg \in PagerRecord, NEW p \in PageNums
  PROVE  /\ LoadPage(pg, p) \in PagerRecord
         /\ LoadPage(pg, p).file_len = pg.file_len
         /\ LoadPage(pg, p).pages[p] # Null
         /\ \A q \in PageNums \ {p} : LoadPage(pg, p).pages[q] = pg.pages[q]
         /\ pg.pages[p] # Null => LoadPage(pg, p) = pg
         /\ pg.num_pages <= LoadPage(pg, p).num_pages
         /\ pg.pages[p] = Null => p < LoadPage(pg, p).num_pages
         /\ LoadPage(pg, p).num_pages > pg.num_pages => LoadPage(pg, p).num_pages = p + 1
<1> DEFINE lp == LoadPage(pg, p)
<1>1. p \in Nat /\ Len(file) \in Nat
  BY PageTableAssumption DEF PageNums, TypeOK
<1>2. ReadSlot(p) \in Content
  BY <1>1, ContentAssumption DEF ReadSlot, TypeOK
<1>3. PosAfterRead(pg, p) \in Nat
  BY <1>1 DEF PosAfterRead, PagerRecord
<1>5. CASE pg.pages[p] # Null
  BY <1>5, <1>1 DEF LoadPage, PagerRecord
<1>6. CASE pg.pages[p] = Null
  <2> DEFINE loaded == [pg.pages EXCEPT ![p] = ReadSlot(p)]
  <2> DEFINE count == IF p >= pg.num_pages THEN p + 1 ELSE pg.num_pages
  <2>1. lp = [pg EXCEPT !.pages = loaded, !.pos = PosAfterRead(pg, p), !.num_pages = count]
    BY <1>6 DEF LoadPage, PagerRecord
  <2>2. /\ loaded \in [PageNums -> Content \cup {Null}]
        /\ loaded[p] # Null
        /\ \A q \in PageNums \ {p} : loaded[q] = pg.pages[q]
    BY <1>2, NullAssumption DEF PagerRecord
  <2>3. /\ count \in Nat /\ pg.num_pages <= count /\ p < count
        /\ count > pg.num_pages => count = p + 1
    BY <1>1 DEF PagerRecord
  <2> HIDE DEF loaded, count
  <2>4. /\ lp \in PagerRecord
        /\ lp.pages = loaded /\ lp.num_pages = count
        /\ lp.pos = PosAfterRead(pg, p) /\ lp.file_len = pg.file_len
    BY <2>1, <2>2, <2>3, <1>3 DEF PagerRecord
  <2> QED BY <2>2, <2>3, <2>4, <1>6
<1> QED BY <1>5, <1>6

\* Writing behind the pointer get_page gave changes that page only.
LEMMA StorePageFacts ==
  ASSUME NEW pg \in PagerRecord, NEW p \in PageNums, NEW c \in Content
  PROVE  /\ StorePage(pg, p, c) \in PagerRecord
         /\ StorePage(pg, p, c).pages[p] = c
         /\ \A q \in PageNums \ {p} : StorePage(pg, p, c).pages[q] = pg.pages[q]
         /\ StorePage(pg, p, c).pos = pg.pos
         /\ StorePage(pg, p, c).file_len = pg.file_len
         /\ StorePage(pg, p, c).num_pages = pg.num_pages
BY DEF StorePage, PagerRecord

\* A write extends the file with zeros up to the slot and changes that slot only.
LEMMA WriteSlotFacts ==
  ASSUME NEW f \in Seq(Content), NEW s \in Nat, NEW c \in Content
  PROVE  /\ WriteSlot(f, s, c) \in Seq(Content)
         /\ Len(WriteSlot(f, s, c)) = IF s < Len(f) THEN Len(f) ELSE s + 1
         /\ WriteSlot(f, s, c)[s + 1] = c
         /\ \A i \in 1 .. Len(f) : i # s + 1 => WriteSlot(f, s, c)[i] = f[i]
<1> DEFINE n == IF s < Len(f) THEN Len(f) ELSE s + 1
<1> DEFINE g == [i \in 1 .. n |-> IF i = s + 1 THEN c
                                  ELSE IF i <= Len(f) THEN f[i] ELSE Zeros]
<1>1. n \in Nat /\ s + 1 \in 1 .. n /\ Len(f) <= n
  OBVIOUS
<1>2. g \in [1 .. n -> Content]
  BY ContentAssumption
<1>3. g \in Seq(Content) /\ Len(g) = n
  BY <1>1, <1>2
<1>4. WriteSlot(f, s, c) = g
  BY DEF WriteSlot
<1> HIDE DEF n
<1>5. g[s + 1] = c /\ \A i \in 1 .. Len(f) : i # s + 1 => g[i] = f[i]
  BY <1>1
<1> QED BY <1>3, <1>4, <1>5 DEF n

-----------------------------------------------------------------------------
(* The invariant.                                                          *)

LEMMA OpenedPagerFacts ==
  ASSUME TypeOK
  PROVE  /\ OpenedPager \in PagerRecord
         /\ OpenedPager.file_len = Len(file)
         /\ OpenedPager.num_pages = Len(file)
         /\ OpenedPager.pos = Len(file)
         /\ Cached(OpenedPager) = {}
<1>1. Len(file) \in Nat
  BY DEF TypeOK
<1> QED BY <1>1 DEF OpenedPager, PagerRecord, Cached

\* db_open establishes the invariant, whatever file it finds.
LEMMA OpenInv ==
  ASSUME PagerInv, Open
  PROVE  PagerInv'
<1>1. /\ file \in Seq(Content) /\ Len(file) \in Nat
      /\ file' = file /\ pc' = "open" /\ flushing' = 0
  BY DEF PagerInv, TypeOK, Open
<1>2. 0 \in PageNums
  BY PageTableAssumption DEF PageNums
<1>3. TypeOK
  BY DEF PagerInv
<1>4. CASE Len(file) > 0
  <2>1. pager' = OpenedPager
    BY <1>1, <1>3, <1>4, OpenedPagerFacts DEF Open
  <2> QED BY <2>1, <1>1, <1>3, <1>4, OpenedPagerFacts
          DEF PagerInv, TypeOK, PagerRecord, UnusedIsUnused, NothingLeftUnflushed, UnusedPageNum
<1>5. CASE Len(file) = 0
  <2> DEFINE lp == LoadPage(OpenedPager, 0)
  <2>1. pager' = StorePage(lp, 0, EmptyRoot)
    BY <1>1, <1>3, <1>5, OpenedPagerFacts DEF Open
  <2>2. /\ OpenedPager \in PagerRecord /\ OpenedPager.file_len = Len(file)
        /\ \A q \in PageNums : OpenedPager.pages[q] = Null
    BY <1>3, OpenedPagerFacts DEF Cached
  <2>3. /\ lp \in PagerRecord /\ lp.file_len = Len(file) /\ 0 < lp.num_pages
        /\ \A q \in PageNums \ {0} : lp.pages[q] = Null
    BY <1>2, <1>3, <2>2, LoadPageFacts
  <2>4. /\ pager' \in PagerRecord /\ pager'.file_len = Len(file) /\ 0 < pager'.num_pages
        /\ \A q \in PageNums \ {0} : pager'.pages[q] = Null
    BY <1>2, <2>1, <2>3, StorePageFacts, ContentAssumption
  <2> HIDE DEF lp
  <2>a. /\ pager'.num_pages \in Nat /\ Cached(pager') \subseteq {0}
        /\ Len(file') <= pager'.num_pages
    BY <1>1, <1>5, <2>4 DEF Cached, PagerRecord
  <2>5. UnusedIsUnused'
    BY <2>4, <2>a DEF UnusedIsUnused, UnusedPageNum
  <2> QED BY <1>1, <2>4, <2>5 DEF PagerInv, TypeOK, PagerRecord, NothingLeftUnflushed
<1> QED BY <1>1, <1>4, <1>5

\* get_page of a page number in use preserves it, and so does a write to a page.
LEMMA FetchInv ==
  ASSUME PagerInv, NEW p \in PageNums, Fetch(p)
  PROVE  PagerInv'
<1>1. /\ TypeOK /\ pager \in PagerRecord /\ Len(file) \in Nat /\ p \in Nat
      /\ pc = "open" /\ p < pager.num_pages /\ pager' = LoadPage(pager, p)
      /\ file' = file /\ pc' = pc /\ flushing' = flushing
      /\ pager.file_len = Len(file)
  BY PageTableAssumption DEF PagerInv, TypeOK, PagerRecord, Fetch, PageNums
<1>2. /\ pager' \in PagerRecord /\ pager'.file_len = Len(file)
      /\ \A q \in PageNums \ {p} : pager'.pages[q] = pager.pages[q]
      /\ pager.num_pages <= pager'.num_pages
  BY <1>1, LoadPageFacts
<1>3. \A q \in PageNums \ {p} : q \in Cached(pager') => q \in Cached(pager)
  BY <1>2 DEF Cached
<1>4. PageNums \subseteq Nat /\ Cached(pager') \subseteq PageNums
      /\ pager.num_pages \in Nat /\ pager'.num_pages \in Nat
  BY <1>1, <1>2, PageTableAssumption DEF PageNums, Cached, PagerRecord
<1>5. \A q \in Cached(pager) : q < pager.num_pages
  BY <1>1 DEF PagerInv, UnusedIsUnused, UnusedPageNum
<1>6. Len(file) <= pager.num_pages
  BY <1>1 DEF PagerInv, UnusedIsUnused, UnusedPageNum
<1>7. ASSUME NEW q \in Cached(pager') PROVE q < pager'.num_pages
  <2>1. q \in Nat /\ (q = p \/ q \in Cached(pager))
    BY <1>3, <1>4
  <2>2. q < pager.num_pages
    BY <1>1, <1>5, <2>1
  <2> QED BY <1>2, <1>4, <2>1, <2>2
<1>8. UnusedIsUnused'
  BY <1>1, <1>2, <1>4, <1>6, <1>7 DEF UnusedIsUnused, UnusedPageNum
<1> QED BY <1>1, <1>2, <1>8 DEF PagerInv, TypeOK, PagerRecord, NothingLeftUnflushed

LEMMA ModifyInv ==
  ASSUME PagerInv, NEW p \in PageNums, NEW c \in Written, Modify(p, c)
  PROVE  PagerInv'
<1>1. /\ pager \in PagerRecord /\ c \in Content
      /\ pc = "open" /\ pager.pages[p] # Null /\ pager' = StorePage(pager, p, c)
      /\ file' = file /\ pc' = pc /\ flushing' = flushing
  BY DEF PagerInv, TypeOK, PagerRecord, Modify, Written
<1>2. /\ pager' \in PagerRecord /\ pager'.pages[p] = c
      /\ \A q \in PageNums \ {p} : pager'.pages[q] = pager.pages[q]
      /\ pager'.num_pages = pager.num_pages /\ pager'.file_len = pager.file_len
      /\ pager'.pos = pager.pos
  BY <1>1, StorePageFacts
<1>3. Cached(pager') = Cached(pager)
  BY <1>1, <1>2, NullAssumption DEF Cached
<1> QED BY <1>1, <1>2, <1>3
        DEF PagerInv, TypeOK, PagerRecord, UnusedIsUnused, UnusedPageNum, NothingLeftUnflushed

\* The end of the process leaves a file and nothing else.
LEMMA EndsInv ==
  ASSUME PagerInv, Ends, UNCHANGED file
  PROVE  PagerInv'
<1>1. NoPager \in PagerRecord
  BY DEF NoPager, PagerRecord
<1> QED BY <1>1 DEF PagerInv, TypeOK, PagerRecord, UnusedIsUnused, NothingLeftUnflushed, Ends

\* A split's new page preserves it: get_page raises num_pages past the page.
LEMMA AllocateInv ==
  ASSUME PagerInv, NEW c \in Written, Allocate(c)
  PROVE  PagerInv'
<1> DEFINE new == UnusedPageNum(pager)
<1>1. /\ TypeOK /\ pager \in PagerRecord /\ c \in Content /\ pc = "open"
      /\ Len(file) \in Nat /\ new \in Nat /\ new = pager.num_pages
      /\ file' = file
      /\ pager.file_len = Len(file)
  BY DEF PagerInv, TypeOK, PagerRecord, Allocate, Written, UnusedPageNum
<1>2. CASE new >= TABLE_MAX_PAGES
  <2>1. Ends
    BY <1>1, <1>2, PageTableAssumption DEF Allocate
  <2> QED BY <1>1, <2>1, EndsInv
<1>3. CASE new < TABLE_MAX_PAGES
  <2> DEFINE lp == LoadPage(pager, new)
  <2>1. /\ new \in PageNums /\ pager' = StorePage(lp, new, c)
        /\ pc' = pc /\ flushing' = flushing
    BY <1>1, <1>3, PageTableAssumption DEF Allocate, PageNums
  <2>2. pager.pages[new] = Null
    BY <1>1, <2>1 DEF PagerInv, UnusedIsUnused, Cached
  <2>3. /\ lp \in PagerRecord /\ lp.file_len = Len(file) /\ new < lp.num_pages
        /\ \A q \in PageNums \ {new} : lp.pages[q] = pager.pages[q]
        /\ pager.num_pages <= lp.num_pages
    BY <1>1, <2>1, <2>2, LoadPageFacts
  <2>4. /\ pager' \in PagerRecord /\ pager'.file_len = Len(file) /\ new < pager'.num_pages
        /\ \A q \in PageNums \ {new} : pager'.pages[q] = pager.pages[q]
        /\ pager.num_pages <= pager'.num_pages
    BY <1>1, <2>1, <2>3, StorePageFacts
  <2>5. \A q \in PageNums : pager.pages[q] # Null => q < pager.num_pages
    BY <1>1 DEF PagerInv, UnusedIsUnused, UnusedPageNum, Cached
  <2>6. /\ PageNums \subseteq Nat
        /\ pager.num_pages \in Nat /\ pager'.num_pages \in Nat
    BY <1>1, <2>4, PageTableAssumption DEF PageNums, PagerRecord
  <2> HIDE DEF new, lp
  <2>7. \A q \in PageNums : pager'.pages[q] # Null => q < pager'.num_pages
    BY <2>4, <2>5, <2>6
  <2>8. Len(file') <= pager'.num_pages
    BY <1>1, <2>4, <2>6 DEF PagerInv, UnusedIsUnused, UnusedPageNum
  <2>9. UnusedIsUnused'
    BY <2>7, <2>8 DEF UnusedIsUnused, UnusedPageNum, Cached
  <2> QED BY <1>1, <2>1, <2>4, <2>9 DEF PagerInv, TypeOK, PagerRecord, NothingLeftUnflushed
<1> QED BY <1>1, <1>2, <1>3, PageTableAssumption

\* A flush keeps the flush loop behind the pages left.
LEMMA FlushPageInv ==
  ASSUME PagerInv, FlushPage
  PROVE  PagerInv'
<1> DEFINE slot == FlushSlot(pager.pos, flushing)
<1>a. /\ pager \in PagerRecord /\ file \in Seq(Content) /\ flushing \in Nat
      /\ pager.pos \in Nat
  BY DEF PagerInv, TypeOK, PagerRecord
<1>b. /\ pc = "closing" /\ pc' = pc /\ flushing' = flushing + 1
      /\ pager.pages[flushing] # Null
      /\ file' = WriteSlot(file, slot, pager.pages[flushing])
      /\ pager' = [pager EXCEPT !.pos = slot + 1, !.pages[flushing] = Null]
  BY DEF FlushPage
<1>c. flushing \in PageNums
  BY <1>a, PageTableAssumption DEF FlushPage, PageNums
<1>2. slot \in Nat
  BY <1>a, <1>b, <1>c DEF FlushSlot
<1>3. pager.pages[flushing] \in Content
  BY <1>a, <1>b, <1>c DEF PagerRecord
<1> HIDE DEF slot
<1>4. file' \in Seq(Content)
  BY <1>a, <1>b, <1>c, <1>2, <1>3, WriteSlotFacts
<1>5. /\ pager' \in PagerRecord /\ pager'.pos = slot + 1
      /\ pager'.num_pages = pager.num_pages
      /\ pager'.pages[flushing] = Null
      /\ \A q \in PageNums : pager'.pages[q] # Null => q # flushing /\ pager.pages[q] # Null
  <2> DEFINE left == [pager.pages EXCEPT ![flushing] = Null]
  <2>1. pager' = [pos |-> slot + 1, file_len |-> pager.file_len,
                  num_pages |-> pager.num_pages, pages |-> left]
    BY <1>a, <1>b DEF PagerRecord
  <2>2. /\ left \in [PageNums -> Content \cup {Null}] /\ left[flushing] = Null
        /\ \A q \in PageNums : left[q] # Null => q # flushing /\ pager.pages[q] # Null
    BY <1>a, <1>c DEF PagerRecord
  <2> HIDE DEF left
  <2>3. /\ slot + 1 \in Nat
        /\ pager.file_len \in Nat /\ pager.num_pages \in Nat
    BY <1>a, <1>2 DEF PagerRecord
  <2>4. pager' \in PagerRecord
    BY <2>1, <2>2, <2>3 DEF PagerRecord
  <2>5. /\ pager'.pos = slot + 1 /\ pager'.pages = left
        /\ pager'.num_pages = pager.num_pages
    BY <2>1
  <2> QED BY <2>2, <2>4, <2>5
<1>6. PageNums \subseteq Nat
  BY PageTableAssumption DEF PageNums
<1>7. NothingLeftUnflushed'
  BY <1>a, <1>b, <1>c, <1>5, <1>6 DEF PagerInv, NothingLeftUnflushed, Cached
<1> QED BY <1>a, <1>b, <1>c, <1>2, <1>4, <1>5, <1>7 DEF PagerInv, TypeOK, PagerRecord, UnusedIsUnused

\* An iteration on an empty entry, inside the table or past it.
LEMMA SkipPageInv ==
  ASSUME PagerInv, SkipPage
  PROVE  PagerInv'
<1>1. /\ pager \in PagerRecord /\ flushing \in Nat
      /\ pc = "closing" /\ pc' = pc /\ flushing' = flushing + 1
      /\ pager' = pager /\ file' = file
  BY DEF PagerInv, TypeOK, PagerRecord, SkipPage
<1>2. flushing \notin Cached(pager)
  BY PageTableAssumption DEF SkipPage, Cached, PageNums
<1>3. Cached(pager) \subseteq Nat
  BY PageTableAssumption DEF PageNums, Cached
<1>4. NothingLeftUnflushed'
  BY <1>1, <1>2, <1>3 DEF PagerInv, NothingLeftUnflushed, Cached
<1> QED BY <1>1, <1>4 DEF PagerInv, TypeOK, UnusedIsUnused

\* When .exit is read no page in memory is past num_pages, so the loop that
\* starts at 0 has all of them ahead.
LEMMA StartCloseInv ==
  ASSUME PagerInv, StartClose
  PROVE  PagerInv'
<1>1. Cached(pager) \subseteq Nat
  BY PageTableAssumption DEF PageNums, Cached
<1>2. NothingLeftUnflushed'
  BY <1>1 DEF PagerInv, UnusedIsUnused, UnusedPageNum, StartClose, NothingLeftUnflushed, Cached
<1> QED BY <1>2 DEF PagerInv, TypeOK, UnusedIsUnused, StartClose

LEMMA PagerInvInit == Init => PagerInv
<1> SUFFICES ASSUME Init PROVE PagerInv
  OBVIOUS
<1>1. TypeOK
  BY DEF Init, TypeOK, NoPager
<1> QED BY <1>1 DEF Init, PagerInv, UnusedIsUnused, NothingLeftUnflushed

LEMMA PagerInvStep == PagerInv /\ [Next]_pagerVars => PagerInv'
<1> SUFFICES ASSUME PagerInv, [Next]_pagerVars PROVE PagerInv'
  OBVIOUS
<1>1. CASE Open
  BY <1>1, OpenInv
<1>2. CASE \E p \in PageNums : Fetch(p)
  BY <1>2, FetchInv
<1>3. CASE \E p \in PageNums, c \in Written : Modify(p, c)
  BY <1>3, ModifyInv
<1>4. CASE \E c \in Written : Allocate(c)
  BY <1>4, AllocateInv
<1>5. CASE StartClose
  BY <1>5, StartCloseInv
<1>6. CASE FlushPage
  BY <1>6, FlushPageInv
<1>7. CASE SkipPage
  BY <1>7, SkipPageInv
<1>8. CASE OverrunExit \/ FinishClose \/ Kill
  BY <1>8, EndsInv DEF OverrunExit, FinishClose, Kill
<1>9. CASE UNCHANGED pagerVars
  BY <1>9 DEF PagerInv, TypeOK, UnusedIsUnused, NothingLeftUnflushed, UnusedPageNum,
              Cached, pagerVars
<1> QED BY <1>1, <1>2, <1>3, <1>4, <1>5, <1>6, <1>7, <1>8, <1>9 DEF Next, CloseStep

\* The inductive invariant holds in every state of every execution, for any
\* size of the page table.
THEOREM PagerInvariant == Spec => []PagerInv
BY PagerInvInit, PagerInvStep, PTL DEF Spec

\* The variables of the pager keep their types.
THEOREM PagerTypes == Spec => []TypeOK
<1>1. PagerInv => TypeOK
  BY DEF PagerInv
<1> QED BY <1>1, PagerInvariant, PTL

\* get_unused_page_num never hands out a page in use, in memory or in the file.
THEOREM UnusedPageIsUnused == Spec => []UnusedIsUnused
<1>1. PagerInv => UnusedIsUnused
  BY DEF PagerInv
<1> QED BY <1>1, PagerInvariant, PTL

\* db_close passes no page in memory without writing it.
THEOREM CloseReachesEveryPage == Spec => []NothingLeftUnflushed
<1>1. PagerInv => NothingLeftUnflushed
  BY DEF PagerInv
<1> QED BY <1>1, PagerInvariant, PTL

-----------------------------------------------------------------------------
(* What no step of the pager does.                                         *)

\* The pointers get_page returned stay good: neither reading a page nor taking
\* an unused one touches a page in memory.
THEOREM PagesStay == Spec => PagesInMemoryStay
<1>1. ASSUME PagerInv, [Next]_pagerVars
      PROVE  GetsPage => KeepsPages
  <2> SUFFICES ASSUME GetsPage PROVE KeepsPages
    OBVIOUS
  <2>1. TypeOK /\ pager \in PagerRecord
    BY <1>1 DEF PagerInv, TypeOK, PagerRecord
  <2>2. ASSUME NEW p \in PageNums, Fetch(p)
        PROVE  KeepsPages
    BY <2>1, <2>2, LoadPageFacts DEF Fetch, Cached, KeepsPages
  <2>3. ASSUME NEW p \in PageNums, NEW c \in Written, Modify(p, c)
        PROVE  FALSE
    <3>1. pager' = StorePage(pager, p, c) /\ pager.pages[p] # Null /\ c \in Content
      BY <2>3 DEF Modify, Written
    <3>2. /\ pager'.pages[p] = c /\ pager'.pos = pager.pos
          /\ pager'.num_pages = pager.num_pages
          /\ \A q \in PageNums \ {p} : pager'.pages[q] = pager.pages[q]
      BY <2>1, <3>1, StorePageFacts
    <3>3. Cached(pager') = Cached(pager)
      BY <3>1, <3>2, NullAssumption DEF Cached
    <3> QED BY <3>2, <3>3 DEF GetsPage
  <2>4. ASSUME NEW c \in Written, Allocate(c)
        PROVE  KeepsPages
    <3> DEFINE new == UnusedPageNum(pager)
    <3>1. /\ new \in PageNums /\ c \in Content
          /\ pager' = StorePage(LoadPage(pager, new), new, c)
      BY <1>1, <2>1, <2>4, PageTableAssumption
         DEF GetsPage, Allocate, Ends, UnusedPageNum, PageNums, PagerRecord, Written
    <3>2. \A q \in Cached(pager) : q # new
      BY <1>1, <2>1
         DEF GetsPage, PagerInv, UnusedIsUnused, UnusedPageNum, PagerRecord, Cached, PageNums
    <3>3. /\ LoadPage(pager, new) \in PagerRecord
          /\ \A q \in PageNums \ {new} : LoadPage(pager, new).pages[q] = pager.pages[q]
      BY <2>1, <3>1, LoadPageFacts
    <3> HIDE DEF new
    <3>4. \A q \in PageNums \ {new} : pager'.pages[q] = pager.pages[q]
      BY <3>1, <3>3, StorePageFacts
    <3> QED BY <3>2, <3>4 DEF Cached, KeepsPages
  <2>5. CASE UNCHANGED pagerVars
    BY <2>5 DEF pagerVars, KeepsPages
  <2> QED BY <1>1, <2>2, <2>3, <2>4, <2>5
          DEF Next, CloseStep, Open, StartClose, FlushPage, SkipPage, OverrunExit,
              FinishClose, Kill, Ends, GetsPage, KeepsPages
<1> QED BY <1>1, PagerInvariant, PTL DEF Spec, PagesInMemoryStay

-----------------------------------------------------------------------------
(* db_close loses no page.                                                 *)

\* While the flush loop runs, a page it owes is still in memory, or it is passed and
\* has a slot of its own before the offset, where no later flush can land.
Passed == {p \in DOMAIN due : p < flushing}

Owed ==
  /\ DOMAIN due \subseteq PageNums
  /\ \A p \in DOMAIN due : due[p] # Null /\ (p < flushing \/ pager.pages[p] = due[p])
  /\ \E slot \in [DOMAIN due -> Nat] :
       /\ SavedAt(Passed, slot)
       /\ \A p \in Passed : slot[p] \in 1 .. Len(file) /\ slot[p] <= pager.pos

CloseInv == PagerInv /\ (pc = "closing" => Owed)

LEMMA StartCloseOwes ==
  ASSUME PagerInv, StartClose, Remember
  PROVE  Owed'
<1>1. /\ pc = "open" /\ pc' = "closing" /\ flushing' = 0 /\ file' = file /\ pager' = pager
      /\ due' = InMemory(pager)
  BY DEF StartClose, Remember
<1>2. /\ DOMAIN due' = Cached(pager) /\ Cached(pager) \subseteq PageNums
      /\ \A p \in Cached(pager) : due'[p] = pager.pages[p] /\ due'[p] # Null
  BY <1>1 DEF InMemory, Cached
<1>3. Passed' = {}
  BY <1>1, <1>2, PageTableAssumption DEF Passed, PageNums
<1>4. PICK slot : slot \in [DOMAIN due' -> Nat]
  BY [p \in DOMAIN due' |-> 0] \in [DOMAIN due' -> Nat]
<1>5. SavedAt(Passed, slot)'
  BY <1>3 DEF SavedAt
<1> QED BY <1>1, <1>2, <1>3, <1>4, <1>5 DEF Owed

LEMMA FlushPageOwes ==
  ASSUME PagerInv, Owed, FlushPage, Remember
  PROVE  Owed'
<1> DEFINE f == flushing
<1> DEFINE at == FlushSlot(pager.pos, f) + 1
<1>1. /\ pc = "closing" /\ pc' = pc /\ f \in PageNums /\ f \in Nat /\ flushing' = f + 1
      /\ pager \in PagerRecord /\ file \in Seq(Content) /\ pager.pages[f] \in Content
      /\ due' = due
      /\ pager' = [pager EXCEPT !.pos = FlushSlot(pager.pos, f) + 1, !.pages[f] = Null]
      /\ file' = WriteSlot(file, FlushSlot(pager.pos, f), pager.pages[f])
  BY PageTableAssumption DEF PagerInv, TypeOK, PagerRecord, FlushPage, PageNums, Remember
<1>2. /\ at \in Nat /\ pager.pos < at /\ pager.pos \in Nat
      /\ PageNums \subseteq Nat
  BY <1>1, PageTableAssumption DEF FlushSlot, PagerRecord, PageNums
<1>3. /\ pager'.pos = at
      /\ \A p \in PageNums \ {f} : pager'.pages[p] = pager.pages[p]
  BY <1>1 DEF PagerRecord
<1>4. /\ Len(file) \in Nat /\ Len(file') \in Nat /\ Len(file) <= Len(file') /\ at \in 1 .. Len(file')
      /\ file'[at] = pager.pages[f]
      /\ \A i \in 1 .. Len(file) : i # at => file'[i] = file[i]
  <2>1. FlushSlot(pager.pos, f) \in Nat
    BY <1>1, <1>2 DEF FlushSlot
  <2> DEFINE s == FlushSlot(pager.pos, f)
  <2> DEFINE g == WriteSlot(file, s, pager.pages[f])
  <2> HIDE DEF s
  <2>a. s \in Nat /\ at = s + 1
    BY <2>1 DEF s
  <2> HIDE DEF at
  <2>b. /\ g \in Seq(Content)
        /\ Len(g) = IF s < Len(file) THEN Len(file) ELSE s + 1
        /\ g[s + 1] = pager.pages[f]
        /\ \A i \in 1 .. Len(file) : i # s + 1 => g[i] = file[i]
    BY <1>1, <2>a, WriteSlotFacts
  <2> HIDE DEF g
  <2>2. /\ g \in Seq(Content)
        /\ Len(g) = IF s < Len(file) THEN Len(file) ELSE at
        /\ g[at] = pager.pages[f]
        /\ \A i \in 1 .. Len(file) : i # at => g[i] = file[i]
    BY <2>a, <2>b
  <2>3. Len(file) \in Nat /\ Len(g) \in Nat
    BY <1>1, <2>2
  <2>4. at >= 1
    BY <1>2
  <2>5. Len(file) <= Len(g) /\ at \in 1 .. Len(g)
    BY <1>2, <2>a, <2>2, <2>3, <2>4
  <2> QED BY <1>1, <2>2, <2>3, <2>5 DEF g, s
<1> HIDE DEF f, at
<1>5. PICK slot \in [DOMAIN due -> Nat] :
        /\ SavedAt(Passed, slot)
        /\ \A p \in Passed : slot[p] \in 1 .. Len(file) /\ slot[p] <= pager.pos
  BY DEF Owed
<1>6. /\ DOMAIN due \subseteq PageNums
      /\ \A p \in DOMAIN due : due[p] # Null /\ (p < f \/ pager.pages[p] = due[p])
  BY DEF Owed, f
<1>7. Passed' = {p \in DOMAIN due : p < f + 1}
  BY <1>1 DEF Passed
<1>8. \A p \in Passed' : p = f \/ (p \in Passed /\ p # f)
  BY <1>1, <1>2, <1>6, <1>7 DEF Passed, f
<1>9. PICK next \in [DOMAIN due' -> Nat] : next = [slot EXCEPT ![f] = at]
  BY <1>1, <1>2, <1>5
<1>10. \A p \in Passed : slot[p] # at /\ slot[p] \in 1 .. Len(file)
  BY <1>2, <1>4, <1>5
<1>11. ASSUME NEW p \in Passed'
       PROVE  /\ p \in DOMAIN due
              /\ next[p] = IF p = f THEN at ELSE slot[p]
              /\ next[p] \in 1 .. Len(file') /\ next[p] <= at
              /\ file'[next[p]] = due[p]
  <2>1. p \in DOMAIN due
    BY <1>7
  <2>2. next[p] = IF p = f THEN at ELSE slot[p]
    BY <1>5, <1>9, <2>1
  <2>3. CASE p = f
    <3>1. due[p] = pager.pages[f]
      BY <1>1, <1>6, <2>1, <2>3
    <3> QED BY <1>2, <1>4, <2>1, <2>2, <2>3, <3>1
  <2>4. CASE p # f
    <3>1. p \in Passed
      BY <1>8, <2>4
    <3>2. /\ slot[p] \in 1 .. Len(file) /\ slot[p] <= pager.pos /\ slot[p] # at
          /\ file[slot[p]] = due[p]
      BY <1>5, <1>10, <3>1 DEF SavedAt
    <3> QED BY <1>2, <1>4, <2>1, <2>2, <2>4, <3>2
  <2> QED BY <2>3, <2>4
<1>12. ASSUME NEW p \in Passed', NEW q \in Passed', next[p] = next[q] PROVE p = q
  <2>1. /\ next[p] = IF p = f THEN at ELSE slot[p]
        /\ next[q] = IF q = f THEN at ELSE slot[q]
    BY <1>11
  <2>2. \A r \in Passed : slot[r] # at
    BY <1>10
  <2>3. CASE p = f \/ q = f
    BY <1>8, <1>12, <2>1, <2>2, <2>3
  <2>4. CASE p # f /\ q # f
    BY <1>5, <1>8, <1>12, <2>1, <2>4 DEF SavedAt
  <2> QED BY <2>3, <2>4
<1>13. SavedAt(Passed, next)'
  BY <1>1, <1>11, <1>12 DEF SavedAt
<1>14. \A p \in DOMAIN due : due[p] # Null /\ (p < f + 1 \/ pager'.pages[p] = due[p])
  BY <1>1, <1>2, <1>3, <1>6
<1>15. \A p \in Passed' : next[p] \in 1 .. Len(file') /\ next[p] <= pager'.pos
  BY <1>3, <1>11
<1>16. /\ DOMAIN due' \subseteq PageNums
       /\ \A p \in DOMAIN due' : due'[p] # Null /\ (p < flushing' \/ pager'.pages[p] = due'[p])
  BY <1>1, <1>6, <1>14
<1> QED BY <1>9, <1>13, <1>15, <1>16 DEF Owed

\* A pass over an entry that is NULL passes no page that is owed.
LEMMA SkipPageOwes ==
  ASSUME PagerInv, Owed, SkipPage, Remember
  PROVE  Owed'
<1>1. /\ pc = "closing" /\ pc' = pc /\ flushing \in Nat /\ flushing' = flushing + 1
      /\ pager' = pager /\ file' = file /\ due' = due
      /\ PageNums \subseteq Nat
  BY PageTableAssumption DEF PagerInv, TypeOK, SkipPage, Remember, PageNums
<1>2. /\ DOMAIN due \subseteq PageNums
      /\ \A p \in DOMAIN due : due[p] # Null /\ (p < flushing \/ pager.pages[p] = due[p])
  BY DEF Owed
<1>3. \A p \in DOMAIN due : p # flushing
  BY <1>1, <1>2, PageTableAssumption DEF SkipPage, PageNums
<1>4. ASSUME NEW p \in DOMAIN due PROVE p < flushing <=> p < flushing'
  <2>1. p \in Nat /\ p # flushing
    BY <1>1, <1>2, <1>3
  <2> QED BY <1>1, <2>1
<1>5. Passed' = Passed
  BY <1>1, <1>4 DEF Passed
<1>6. \A slot : SavedAt(Passed, slot)' <=> SavedAt(Passed, slot)
  BY <1>1, <1>5 DEF SavedAt
<1> QED BY <1>1, <1>2, <1>4, <1>5, <1>6 DEF Owed

LEMMA CloseInvStep == CloseInv /\ [CloseNext]_closeVars => CloseInv'
<1> SUFFICES ASSUME CloseInv, [CloseNext]_closeVars PROVE CloseInv'
  OBVIOUS
<1>1. PagerInv'
  BY PagerInvStep DEF CloseInv, CloseNext, closeVars, pagerVars
<1>2. CASE UNCHANGED closeVars
  BY <1>1, <1>2 DEF CloseInv, Owed, Passed, SavedAt, closeVars
<1>3. CASE CloseNext
  <2>1. CASE StartClose
    BY <1>1, <1>3, <2>1, StartCloseOwes DEF CloseInv, CloseNext
  <2>2. CASE FlushPage
    BY <1>1, <1>3, <2>2, FlushPageOwes DEF CloseInv, CloseNext, FlushPage
  <2>3. CASE SkipPage
    BY <1>1, <1>3, <2>3, SkipPageOwes DEF CloseInv, CloseNext, SkipPage
  <2>4. CASE ~(StartClose \/ FlushPage \/ SkipPage)
    <3>1. pc' # "closing"
      BY <1>3, <2>4 DEF CloseNext, Next, CloseStep, Open, Fetch, Modify, Allocate, OverrunExit,
                        FinishClose, Kill, Ends
    <3> QED BY <1>1, <3>1 DEF CloseInv
  <2> QED BY <2>1, <2>2, <2>3, <2>4
<1> QED BY <1>2, <1>3

\* When the loop of db_close is over, each page that was in memory when it began is in
\* the file, at a slot of its own.
THEOREM CloseSavesEveryPage == CloseSpec => []EveryPageSaved
<1>1. CloseInit => CloseInv
  BY PagerInvInit DEF CloseInit, CloseInv, Init
<1>2. CloseInv => EveryPageSaved
  <2> SUFFICES ASSUME CloseInv, pc = "closing", flushing >= pager.num_pages
               PROVE  \E slot \in [DOMAIN due -> 1 .. Len(file)] : SavedAt(DOMAIN due, slot)
    BY DEF EveryPageSaved
  <2>1. PICK slot \in [DOMAIN due -> Nat] :
          /\ SavedAt(Passed, slot)
          /\ \A p \in Passed : slot[p] \in 1 .. Len(file) /\ slot[p] <= pager.pos
    BY DEF CloseInv, Owed
  <2>2. ASSUME NEW p \in DOMAIN due PROVE p \in Passed
    <3>1. p \in PageNums /\ p \in Nat /\ flushing \in Nat /\ pager.num_pages \in Nat
      BY PageTableAssumption DEF CloseInv, Owed, PageNums, PagerInv, TypeOK
    <3>2. ASSUME ~(p < flushing) PROVE FALSE
      <4>1. p \in Cached(pager)
        BY <3>1, <3>2 DEF CloseInv, Owed, Cached
      <4> QED BY <3>1, <3>2, <4>1 DEF CloseInv, PagerInv, NothingLeftUnflushed
    <3> QED BY <3>2 DEF Passed
  <2>3. Passed = DOMAIN due
    BY <2>2 DEF Passed
  <2> QED BY <2>1, <2>3
<1>3. CloseInv /\ [CloseNext]_closeVars => CloseInv'
  BY CloseInvStep
<1> QED BY <1>1, <1>2, <1>3, PTL DEF CloseSpec
=============================================================================
