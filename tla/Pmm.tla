-------------------------------- MODULE Pmm ---------------------------------
(***************************************************************************)
(* The physical memory manager, kernel/mm/pmm.c: a bitmap of used pages,  *)
(* an eight-bit reference count per page, a count of free pages and a     *)
(* next-fit hint.  Pages are indexed from pages_base.  `held' is an        *)
(* auxiliary variable: the references the callers of the PMM really own    *)
(* (one per allocation, one more per pmm_incref, one less per              *)
(* pmm_free_page).  `outcome' is what the last call returned: a page,       *)
(* 0 ("null") or nothing ("void"); `asked' is the number of pages it asked  *)
(* for, 0 if it was not an allocation.                                     *)
(*                                                                         *)
(* Every call is one step: system calls and faults run with interrupts off. *)
(* The exception is a reap after a task_wait that has blocked, whose calls  *)
(* of pmm_free_page can be preempted; PmmPreempted adds that.              *)
(***************************************************************************)
EXTENDS Integers, FiniteSets

CONSTANTS MAX_PAGES,    \* length of the bitmap
          Usable,       \* page indices of LIMINE_MEMMAP_USABLE memory
          RefLimit,     \* the largest value of a uint8_t counter: 255
          MaxSharers,   \* bound: references the callers keep to one page, at
                        \* most one per task (MAX_TASKS = 64 of them)
          Counts        \* bound: the values of `count' in pmm_alloc_pages

Page == 0..(MAX_PAGES - 1)

ASSUME PmmAssumption ==
  /\ MAX_PAGES \in Nat \ {0}
  /\ Usable \subseteq Page
  /\ RefLimit \in Nat \ {0}
  /\ MaxSharers \in 1..RefLimit
  /\ Counts \subseteq Nat \ {0}
  /\ 1 \in Counts

VARIABLES bitmap,       \* the indices whose bit is set: in use, or not usable
          page_refs, pages_free, last_scan,
          held, outcome, asked
state == <<bitmap, page_refs, pages_free, last_scan, held>>
vars == <<state, outcome, asked>>

Run(s, n) == s..(s + n - 1)

\* bitmap_get is FALSE on the whole run
ClearRun(s, n) == \A i \in Run(s, n) : i \in Page /\ i \notin bitmap

-----------------------------------------------------------------------------
\* pmm_init: every bit set, then the bits of usable pages cleared.
pmm_init ==
  /\ bitmap = Page \ Usable
  /\ page_refs = [i \in Page |-> 0]
  /\ pages_free = Cardinality(Usable)
  /\ last_scan = 0
  /\ held = [i \in Page |-> 0]
  /\ outcome = "void" /\ asked = 0

\* Mutants of Take: the hint one too far; one page counted for a whole run.
Take_hint_past(s, n) ==
  /\ bitmap' = bitmap \cup Run(s, n)
  /\ page_refs' = [i \in Page |-> IF i \in Run(s, n) THEN 1 ELSE page_refs[i]]
  /\ pages_free' = pages_free - n
  /\ last_scan' = s + n + 1
  /\ held' = [i \in Page |-> IF i \in Run(s, n) THEN 1 ELSE held[i]]
  /\ outcome' = "page" /\ asked' = n

Take_counts_one(s, n) ==
  /\ bitmap' = bitmap \cup Run(s, n)
  /\ page_refs' = [i \in Page |-> IF i \in Run(s, n) THEN 1 ELSE page_refs[i]]
  /\ pages_free' = pages_free - 1
  /\ last_scan' = s + n
  /\ held' = [i \in Page |-> IF i \in Run(s, n) THEN 1 ELSE held[i]]
  /\ outcome' = "page" /\ asked' = n

\* The bookkeeping both allocators do for the pages they return.
Take(s, n) ==
  /\ bitmap' = bitmap \cup Run(s, n)
  /\ page_refs' = [i \in Page |-> IF i \in Run(s, n) THEN 1 ELSE page_refs[i]]
  /\ pages_free' = pages_free - n
  /\ last_scan' = s + n
  /\ held' = [i \in Page |-> IF i \in Run(s, n) THEN 1 ELSE held[i]]
  /\ outcome' = "page" /\ asked' = n

\* Mutant of NextFit: the second loop is missing.
NextFit_no_wrap(i) ==
  i \notin bitmap /\ i >= last_scan /\ \A j \in Page : j \in last_scan..(i - 1) => j \in bitmap

\* Where the two loops of pmm_alloc_page stop: the first clear bit from
\* last_scan to the end of the bitmap, else the first one before last_scan.
NextFit(i) ==
  /\ i \notin bitmap
  /\ \/ i >= last_scan /\ \A j \in Page : j \in last_scan..(i - 1) => j \in bitmap
     \/ /\ i < last_scan
        /\ \A j \in Page : j >= last_scan \/ j < i => j \in bitmap

pmm_alloc_page == \E i \in Page : NextFit(i) /\ Take(i, 1)

\* Both loops ran to their end: the caller gets 0.
pmm_alloc_page_fails ==
  /\ \A i \in Page : ~NextFit(i)
  /\ outcome' = "null" /\ asked' = 1
  /\ UNCHANGED state

\* The run counter of pmm_alloc_pages reaches `count' first at the lowest
\* start whose whole run is clear.
FirstFit(s, n) == ClearRun(s, n) /\ \A r \in Page : r < s => ~ClearRun(r, n)

pmm_alloc_pages(n) ==
  /\ n > 1
  /\ \E s \in Page : FirstFit(s, n) /\ Take(s, n)

pmm_alloc_pages_fails(n) ==
  /\ n > 1
  /\ \A s \in Page : ~FirstFit(s, n)
  /\ outcome' = "null" /\ asked' = n
  /\ UNCHANGED state

\* Mutants of pmm_free_pages: shared pages freed at once; the last reference
\* taken for one of several.
FreeWhere(Freed, s, n) ==
  /\ \A i \in Run(s, n) : i \in Page /\ held[i] > 0
  /\ held' = [i \in Page |-> IF i \in Run(s, n) THEN held[i] - 1 ELSE held[i]]
  /\ page_refs' = [i \in Page |-> IF i \in Freed THEN 0
                                  ELSE IF i \in Run(s, n) THEN page_refs[i] - 1
                                  ELSE page_refs[i]]
  /\ bitmap' = bitmap \ Freed
  /\ pages_free' = pages_free + Cardinality(Freed)
  /\ last_scan' = last_scan
  /\ outcome' = "void" /\ asked' = 0

pmm_free_pages_ignores_refs(s, n) == FreeWhere({i \in Run(s, n) : i \in bitmap}, s, n)
pmm_free_pages_off_by_one(s, n) == FreeWhere({i \in Run(s, n) : page_refs[i] < 1}, s, n)

\* The loop of pmm_free_pages over a run the caller owns references to: a page
\* with other references loses one, a last reference returns its page to the
\* pool and pulls the hint back.
pmm_free_pages(s, n) ==
  LET Freed == {i \in Run(s, n) : i \in bitmap /\ page_refs[i] <= 1}
  IN  /\ \A i \in Run(s, n) : i \in Page /\ held[i] > 0
      /\ held' = [i \in Page |-> IF i \in Run(s, n) THEN held[i] - 1 ELSE held[i]]
      /\ page_refs' = [i \in Page |-> IF i \in Freed THEN 0
                                      ELSE IF i \in Run(s, n) /\ i \in bitmap
                                      THEN page_refs[i] - 1 ELSE page_refs[i]]
      /\ bitmap' = bitmap \ Freed
      /\ pages_free' = pages_free + Cardinality(Freed)
      /\ \/ /\ \A i \in Freed : i >= last_scan
            /\ UNCHANGED last_scan
         \/ \E i \in Freed : /\ i < last_scan
                             /\ \A j \in Freed : i <= j
                             /\ last_scan' = i
      /\ outcome' = "void" /\ asked' = 0

pmm_free_page(i) == pmm_free_pages(i, 1)

\* A release of a page already in the pool is reported and ignored, and so is
\* one of an address beyond the bitmap.
pmm_free_page_ignored(i) ==
  /\ i \in Page => i \notin bitmap
  /\ outcome' = "void" /\ asked' = 0
  /\ UNCHANGED state

\* pmm_incref saturates; only holders of the page call it.
pmm_incref(i) ==
  /\ held[i] \in 1..(MaxSharers - 1)
  /\ held' = [held EXCEPT ![i] = @ + 1]
  /\ page_refs' = [page_refs EXCEPT ![i] = IF @ < RefLimit THEN @ + 1 ELSE @]
  /\ outcome' = "void" /\ asked' = 0
  /\ UNCHANGED <<bitmap, pages_free, last_scan>>

Next ==
  \/ pmm_alloc_page \/ pmm_alloc_page_fails
  \/ \E n \in Counts : pmm_alloc_pages(n) \/ pmm_alloc_pages_fails(n)
  \/ \E i \in Page : pmm_free_page(i) \/ pmm_incref(i)
  \/ \E i \in 0..MAX_PAGES : pmm_free_page_ignored(i)
  \/ \E s \in Page, n \in Counts : pmm_free_pages(s, n)

Spec == pmm_init /\ [][Next]_vars

-----------------------------------------------------------------------------
(* Properties *)

TypeOK ==
  /\ bitmap \subseteq Page
  /\ page_refs \in [Page -> 0..RefLimit]
  /\ pages_free \in 0..MAX_PAGES
  /\ last_scan \in 0..MAX_PAGES
  /\ held \in [Page -> 0..MaxSharers]
  /\ outcome \in {"page", "null", "void"} /\ asked \in Counts \cup {0}

\* The eight-bit counter of a page counts exactly the references its users
\* own, in whatever order calls that run to completion follow each other.
RefsCountHolders == \A i \in Page : page_refs[i] = held[i]

\* A page is marked in use exactly while somebody owns a reference to it or
\* it never was usable memory, which is never handed out: no leak, no page both
\* owned and allocatable.
BitmapIsOwnership ==
  \A i \in Page : /\ i \in bitmap <=> (held[i] > 0 \/ i \notin Usable)
                  /\ held[i] > 0 => i \in Usable

\* SYS_MEMSTATS and the kernel's leak tests read pages_free as the number of
\* allocatable pages; the counter never drifts from the bitmap.
FreeCountExact == pages_free = Cardinality(Page \ bitmap)

\* What the callers see of the PMM is the abstract frame allocator: a page
\* handed out was free, a refusal means that no run of that length is free.
FA == INSTANCE FrameAlloc WITH Frame <- Usable, held <- [i \in Usable |-> held[i]]
ImplementsFrameAlloc == FA!FSpec
=============================================================================
