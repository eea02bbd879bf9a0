----------------------------- MODULE PagerClose -----------------------------
(***************************************************************************)
(* What db_close owes to the session it ends: Pager with a history         *)
(* variable that keeps the pages in memory from the call of db_close on.   *)
(* pager_flush forgets each of them as it goes, so nothing in the pager    *)
(* itself says what the file ought to hold when the loop is over.          *)
(***************************************************************************)
EXTENDS Pager

VARIABLE due   \* the pages in memory when db_close was called; <<>> before and after

closeVars == <<file, pager, pc, flushing, due>>

InMemory(pg) == [p \in Cached(pg) |-> pg.pages[p]]

CloseInit == Init /\ due = <<>>

Remember ==
  due' = IF pc' # "closing" THEN <<>>
         ELSE IF pc = "closing" THEN due ELSE InMemory(pager)

CloseNext == Next /\ Remember

CloseSpec == CloseInit /\ [][CloseNext]_closeVars

-----------------------------------------------------------------------------
(* Properties.                                                             *)

\* slot tells the pages ps apart, and the file holds each of them at its slot.
SavedAt(ps, slot) ==
  /\ \A p, q \in ps : slot[p] = slot[q] => p = q
  /\ \A p \in ps : file[slot[p]] = due[p]

\* db_close loses no page: when its loop is over, each page that was in memory when
\* it began has a slot of the file to itself that holds it. Every flush seeks from
\* where the last one ended (page.c:85), so whether a page is still there at the
\* end depends on all the pages flushed after it, and on num_pages reaching them all.
EveryPageSaved ==
  pc = "closing" /\ flushing >= pager.num_pages =>
    \E slot \in [DOMAIN due -> 1 .. Len(file)] : SavedAt(DOMAIN due, slot)
=============================================================================
