---------------------------- MODULE PmmPreempted ----------------------------
(***************************************************************************)
(* pmm_free_page as a reap runs it after a task_wait that has blocked: with *)
(* interrupts on.  Pmm takes each call as one step; here one release may be  *)
(* preempted between its tests and what follows from them, while other tasks *)
(* make calls of their own.  The kernel is built with -O2: the byte of the   *)
(* bitmap and the count that the tests load stay in registers, and what is   *)
(* stored in the end is computed from them.  The stores at the end are taken *)
(* together.                                                               *)
(***************************************************************************)
EXTENDS Pmm

VARIABLE releasing      \* the preempted release, with what its tests loaded

NoRelease == [page |-> MAX_PAGES, count |-> 0, byte |-> {}]

SameByte(i) == {j \in Page : j \div 8 = i \div 8}

\* References to page i that are not the one being released
Others(i) == IF releasing.page = i THEN held[i] - 1 ELSE held[i]

\* The caller owns a reference, so the bit is set.
release_tests(i) ==
  /\ releasing = NoRelease /\ held[i] > 0 /\ i \in bitmap
  /\ releasing' = [page |-> i, count |-> page_refs[i], byte |-> bitmap \cap SameByte(i)]
  /\ UNCHANGED vars

\* What the caller was about to give up it no longer has.
Released ==
  /\ held' = [held EXCEPT ![releasing.page] = @ - 1]
  /\ releasing' = NoRelease
  /\ outcome' = "void" /\ asked' = 0

\* page_refs[idx]--
release_drops ==
  /\ releasing.count > 1
  /\ page_refs' = [page_refs EXCEPT ![releasing.page] = releasing.count - 1]
  /\ Released
  /\ UNCHANGED <<bitmap, pages_free, last_scan>>

\* The last reference: the page goes back to the pool.
release_frees ==
  LET i == releasing.page
  IN  /\ releasing # NoRelease /\ releasing.count <= 1
      /\ page_refs' = [page_refs EXCEPT ![i] = 0]
      /\ bitmap' = (bitmap \ SameByte(i)) \cup (releasing.byte \ {i})
      /\ pages_free' = pages_free + 1
      /\ last_scan' = IF i < last_scan THEN i ELSE last_scan
      /\ Released

\* A call of another task, which can give up or share only what it owns
OtherCall ==
  /\ Next
  /\ \A i \in Page : held'[i] # held[i] /\ held[i] > 0 => Others(i) > 0
  /\ UNCHANGED releasing

PreemptibleSpec ==
  /\ pmm_init /\ releasing = NoRelease
  /\ [][OtherCall \/ (\E i \in Page : release_tests(i)) \/ release_drops \/ release_frees]_<<vars, releasing>>

-----------------------------------------------------------------------------
\* Once every reference has been given up, pages_free is what it was before
\* the first allocation: what the leak tests of proctest_mem.c compare over
\* rounds of fork, exit and task_wait.
FreePagesUnchanged ==
  (\A i \in Page : held[i] = 0) => pages_free = Cardinality(Usable)
=============================================================================
