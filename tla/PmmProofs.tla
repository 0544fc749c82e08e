----------------------------- MODULE PmmProofs ------------------------------
(***************************************************************************)
(* Proofs about Pmm for every bitmap length, memory map, counter limit and *)
(* request size: the three safety invariants of pmm.c, and that it         *)
(* implements the abstract frame allocator.                                *)
(***************************************************************************)
EXTENDS Pmm, FiniteSetTheorems, WellFoundedInduction, TLAPS

LEMMA LeastElement ==
  ASSUME NEW S, S \subseteq Nat, S # {}
  PROVE  \E x \in S : \A y \in S : x <= y
<1> DEFINE R == {ss \in Nat \X Nat : ss[1] < ss[2]}
<1>1. IsWellFoundedOn(R, Nat)
  BY NatLessThanWellFounded, Zenon DEF OpToRel
<1>2. PICK x \in S : \A y \in S : ~(<<y, x>> \in R)
  <2> HIDE DEF R
  <2> QED
    BY <1>1, WFMin
<1>3. \A y \in S : ~(y < x)
  BY <1>2
<1> QED
  BY <1>3

\* The clear bits, which pages_free counts.
ClearBits == Page \ bitmap

\* The inductive invariant: the safety invariants support each other.  The
\* bitmap follows ownership only because the counter is exact (otherwise
\* pmm_free_page would clear a bit too early), and the free count is exact
\* only because a release never clears a bit twice.
Inv == TypeOK /\ RefsCountHolders /\ BitmapIsOwnership /\ FreeCountExact

LEMMA FiniteClear ==
  ASSUME TypeOK
  PROVE  IsFiniteSet(ClearBits) /\ Cardinality(ClearBits) \in 0..MAX_PAGES
<1>1. IsFiniteSet(Page) /\ Cardinality(Page) = MAX_PAGES
  BY FS_Interval, PmmAssumption DEF Page
<1>2. ClearBits \subseteq Page
  BY DEF ClearBits
<1> QED
  BY <1>1, <1>2, FS_Subset, FS_CardinalityType, PmmAssumption

LEMMA InitInv == pmm_init => Inv
<1> SUFFICES ASSUME pmm_init PROVE Inv
  OBVIOUS
<1>1. Page \ bitmap = Usable
  BY PmmAssumption DEF pmm_init
<1>2. IsFiniteSet(Page) /\ Cardinality(Page) = MAX_PAGES
  BY FS_Interval, PmmAssumption DEF Page
<1>3. Cardinality(Usable) \in 0..MAX_PAGES
  BY <1>2, FS_Subset, FS_CardinalityType, PmmAssumption
<1> QED
  BY <1>1, <1>3, PmmAssumption
  DEF Inv, TypeOK, RefsCountHolders, BitmapIsOwnership, FreeCountExact, pmm_init

\* Handing out a clear run keeps the invariant, whichever allocator chose it.
LEMMA TakeInv ==
  ASSUME Inv, NEW s \in Page, NEW n \in Counts, ClearRun(s, n), Take(s, n)
  PROVE  Inv'
<1>1. Run(s, n) \subseteq Page
  BY DEF ClearRun
<1>2. s + n - 1 \in Page
  BY <1>1, PmmAssumption DEF Run, Page
<1>3. s + n \in 0..MAX_PAGES
  BY <1>2, PmmAssumption DEF Page
<1>4. IsFiniteSet(ClearBits) /\ Cardinality(ClearBits) \in 0..MAX_PAGES
  BY FiniteClear DEF Inv
<1>5. Run(s, n) \subseteq ClearBits
  BY DEF ClearRun, ClearBits
<1>6. Cardinality(Run(s, n)) = n /\ IsFiniteSet(Run(s, n))
  BY FS_Interval, PmmAssumption DEF Run, Page
<1>7. ClearBits' = ClearBits \ Run(s, n)
  BY DEF ClearBits, Take, Inv, TypeOK
<1>8. ClearBits \cap Run(s, n) = Run(s, n)
  BY <1>5
<1>9. Cardinality(ClearBits') = Cardinality(ClearBits) - n
  <2>1. Cardinality(ClearBits \ Run(s, n))
          = Cardinality(ClearBits) - Cardinality(ClearBits \cap Run(s, n))
    BY <1>4, FS_Difference
  <2> QED
    BY <1>6, <1>7, <1>8, <2>1
<1>10. FreeCountExact'
  BY <1>9 DEF FreeCountExact, ClearBits, Take, Inv
<1>11. Cardinality(ClearBits') \in Nat
  BY <1>4, <1>7, FS_Difference, FS_CardinalityType
<1>12. TypeOK'
  <2>1. pages_free' \in 0..MAX_PAGES
    BY <1>4, <1>9, <1>11, PmmAssumption DEF Inv, FreeCountExact, ClearBits, Take
  <2>2. page_refs' \in [Page -> 0..RefLimit] /\ held' \in [Page -> 0..MaxSharers]
    BY PmmAssumption DEF Inv, TypeOK, Take
  <2> QED
    BY <1>1, <1>3, <2>1, <2>2 DEF Inv, TypeOK, Take
<1>13. RefsCountHolders'
  BY DEF Inv, RefsCountHolders, Take, TypeOK
<1>14. BitmapIsOwnership'
  BY <1>1 DEF Inv, BitmapIsOwnership, Take, TypeOK, ClearRun
<1> QED
  BY <1>10, <1>12, <1>13, <1>14 DEF Inv

LEMMA FreePagesInv ==
  ASSUME Inv, NEW s \in Page, NEW n \in Nat \ {0}, pmm_free_pages(s, n)
  PROVE  Inv'
<1> DEFINE Freed == {i \in Run(s, n) : i \in bitmap /\ page_refs[i] <= 1}
<1>1. Run(s, n) \subseteq Page /\ \A i \in Run(s, n) : held[i] > 0
  BY DEF pmm_free_pages
<1>2. \A i \in Run(s, n) : i \in bitmap /\ i \in Usable /\ page_refs[i] = held[i]
  BY <1>1 DEF Inv, RefsCountHolders, BitmapIsOwnership, TypeOK
<1>3. \A i \in Page : /\ held[i] \in 0..MaxSharers
                      /\ page_refs[i] \in 0..RefLimit
                      /\ held[i] \in Int
  BY PmmAssumption DEF Inv, TypeOK
<1>4. RefsCountHolders'
  BY <1>1, <1>2, <1>3 DEF Inv, RefsCountHolders, pmm_free_pages
<1>5. BitmapIsOwnership'
  BY <1>1, <1>2, <1>3 DEF Inv, BitmapIsOwnership, pmm_free_pages, TypeOK
<1>6. ClearBits' = ClearBits \cup Freed
  BY <1>1 DEF ClearBits, pmm_free_pages, Inv, TypeOK
<1>7. ClearBits \cap Freed = {}
  BY DEF ClearBits
<1>8. IsFiniteSet(ClearBits) /\ Cardinality(ClearBits) \in Nat
  BY FiniteClear DEF Inv
<1>9. IsFiniteSet(Freed) /\ Cardinality(Freed) \in Nat
  <2>1. IsFiniteSet(Page)
    BY FS_Interval, PmmAssumption DEF Page
  <2>2. Freed \subseteq Page
    BY <1>1
  <2> QED
    BY <2>1, <2>2, FS_Subset, FS_CardinalityType
<1>10. Cardinality(ClearBits') = Cardinality(ClearBits) + Cardinality(Freed)
  BY <1>6, <1>7, <1>8, <1>9, FS_Union, FS_EmptySet
<1>11. pages_free' = pages_free + Cardinality(Freed)
  BY DEF pmm_free_pages
<1>12. FreeCountExact'
  BY <1>10, <1>11 DEF FreeCountExact, ClearBits, Inv
<1>13. bitmap' \subseteq Page
  BY DEF pmm_free_pages, Inv, TypeOK
<1>14. last_scan' \in 0..MAX_PAGES
  BY <1>1, PmmAssumption DEF pmm_free_pages, Inv, TypeOK, Page
<1>15. page_refs' \in [Page -> 0..RefLimit] /\ held' \in [Page -> 0..MaxSharers]
  <2>1. \A i \in Run(s, n) : /\ held[i] - 1 \in 0..MaxSharers
                             /\ page_refs[i] - 1 \in 0..RefLimit
    BY <1>1, <1>2, <1>3, PmmAssumption
  <2> QED
    BY <2>1, <1>3, PmmAssumption DEF pmm_free_pages
<1>16. pages_free' \in 0..MAX_PAGES
  <2>1. ClearBits' \subseteq Page
    BY DEF ClearBits
  <2>2. IsFiniteSet(Page) /\ Cardinality(Page) = MAX_PAGES
    BY FS_Interval, PmmAssumption DEF Page
  <2>3. Cardinality(ClearBits') \in 0..MAX_PAGES
    BY <2>1, <2>2, FS_Subset, FS_CardinalityType, PmmAssumption
  <2> QED
    BY <2>3, <1>12 DEF FreeCountExact, ClearBits
<1>17. outcome' = "void" /\ asked' = 0
  BY DEF pmm_free_pages
<1> QED
  BY <1>4, <1>5, <1>12, <1>13, <1>14, <1>15, <1>16, <1>17 DEF Inv, TypeOK

LEMMA NextInv == Inv /\ [Next]_vars => Inv'
<1> SUFFICES ASSUME Inv, [Next]_vars PROVE Inv'
  OBVIOUS
<1>1. CASE pmm_alloc_page
  <2>1. PICK i \in Page : NextFit(i) /\ Take(i, 1)
    BY <1>1 DEF pmm_alloc_page
  <2>2. ClearRun(i, 1)
    BY <2>1, PmmAssumption DEF ClearRun, Run, NextFit, Page
  <2> QED
    BY <2>1, <2>2, TakeInv, PmmAssumption
<1>2. ASSUME NEW n \in Counts, pmm_alloc_pages(n) PROVE Inv'
  <2>1. PICK s \in Page : FirstFit(s, n) /\ Take(s, n)
    BY <1>2 DEF pmm_alloc_pages
  <2> QED
    BY <2>1, TakeInv, PmmAssumption DEF FirstFit
<1>3. ASSUME NEW i \in Page, pmm_free_page(i) PROVE Inv'
  BY <1>3, FreePagesInv DEF pmm_free_page
<1>4. ASSUME NEW s \in Page, NEW n \in Counts, pmm_free_pages(s, n) PROVE Inv'
  BY <1>4, FreePagesInv, PmmAssumption
<1>5. ASSUME NEW i \in Page, pmm_incref(i) PROVE Inv'
  <2>1. page_refs[i] = held[i] /\ held[i] \in 1..(MaxSharers - 1)
    BY <1>5 DEF Inv, RefsCountHolders, pmm_incref
  <2>a. page_refs[i] < RefLimit
    BY <2>1, PmmAssumption
  <2>2. page_refs' = [page_refs EXCEPT ![i] = page_refs[i] + 1]
    BY <1>5, <2>a DEF pmm_incref
  <2>3. TypeOK'
    BY <1>5, <2>1, <2>2, PmmAssumption DEF Inv, TypeOK, pmm_incref
  <2>4. RefsCountHolders'
    BY <1>5, <2>1, <2>2 DEF Inv, TypeOK, RefsCountHolders, pmm_incref
  <2>5. BitmapIsOwnership'
    BY <1>5, <2>1 DEF Inv, TypeOK, BitmapIsOwnership, pmm_incref
  <2>6. FreeCountExact'
    BY <1>5 DEF Inv, FreeCountExact, pmm_incref
  <2> QED
    BY <2>3, <2>4, <2>5, <2>6 DEF Inv
<1>6. ASSUME UNCHANGED state, outcome' \in {outcome, "null", "void"},
             asked' \in {asked, 0} \cup Counts
      PROVE  Inv'
  BY <1>6 DEF Inv, TypeOK, RefsCountHolders, BitmapIsOwnership, FreeCountExact, state
<1> QED
  BY <1>1, <1>2, <1>3, <1>4, <1>5, <1>6, PmmAssumption
  DEF Next, vars, pmm_alloc_page_fails, pmm_alloc_pages_fails, pmm_free_page_ignored

\* The four invariants of the run hold for every instance: counters count
\* holders, bits follow ownership, and pages_free equals the clear bits.
THEOREM PmmSafety ==
  Spec => [](TypeOK /\ RefsCountHolders /\ BitmapIsOwnership /\ FreeCountExact)
<1>1. Spec => []Inv
  BY InitInv, NextInv, PTL DEF Spec
<1> QED
  BY <1>1, PTL DEF Inv

-----------------------------------------------------------------------------
(* The refinement: what callers own, seen page by page of usable memory.   *)

Owned == [i \in Usable |-> held[i]]

LEMMA UsableRuns ==
  ASSUME Inv, NEW s \in Page, NEW n \in Nat \ {0}
  PROVE  ClearRun(s, n) <=> s \in Usable /\ FA!FreeRun(s, n)
<1>1. \A i \in Page : i \notin bitmap <=> i \in Usable /\ held[i] = 0
  BY DEF Inv, BitmapIsOwnership, TypeOK
<1>2. s \in Run(s, n)
  BY PmmAssumption DEF Run, Page
<1> QED
  BY <1>1, <1>2, PmmAssumption DEF ClearRun, FA!FreeRun, FA!FreeFrame, Run

LEMMA TakeGrants ==
  ASSUME Inv, NEW s \in Page, NEW n \in Counts, ClearRun(s, n), Take(s, n)
  PROVE  FA!Grant(n)
<1>1. s \in Usable /\ FA!FreeRun(s, n)
  BY UsableRuns, PmmAssumption
<1>2. Owned' = [f \in Usable |-> IF f \in Run(s, n) THEN 1 ELSE Owned[f]]
  BY PmmAssumption DEF Owned, Take
<1>3. outcome' = "page" /\ asked' = n
  BY DEF Take
<1> QED
  BY <1>1, <1>2, <1>3 DEF FA!Grant, Owned, Run

LEMMA FreeReleases ==
  ASSUME Inv, NEW s \in Page, NEW n \in Nat \ {0}, pmm_free_pages(s, n)
  PROVE  s \in Usable /\ FA!Release(s, n)
<1>1. \A i \in Run(s, n) : i \in Usable /\ held[i] > 0
  BY DEF pmm_free_pages, Inv, BitmapIsOwnership
<1>2. s \in Usable
  BY <1>1, PmmAssumption DEF Run, Page
<1>3. Owned' = [f \in Usable |-> IF f \in Run(s, n) THEN Owned[f] - 1 ELSE Owned[f]]
  BY PmmAssumption DEF Owned, pmm_free_pages
<1>4. outcome' = "void" /\ asked' = 0
  BY DEF pmm_free_pages
<1> QED
  BY <1>1, <1>2, <1>3, <1>4 DEF FA!Release, Owned, Run

\* The two loops of pmm_alloc_page miss no clear bit, wherever the hint is.
LEMMA NextFitComplete ==
  ASSUME TypeOK, \A i \in Page : ~NextFit(i)
  PROVE  Page \subseteq bitmap
<1> DEFINE Above == {i \in Page : i \notin bitmap /\ i >= last_scan}
<1>1. Page \subseteq Nat /\ last_scan \in Nat
  BY PmmAssumption DEF Page, TypeOK
<1>2. Above = {}
  <2> SUFFICES ASSUME Above # {} PROVE FALSE
    OBVIOUS
  <2>1. PICK i \in Above : \A j \in Above : i <= j
    BY <1>1, LeastElement
  <2> QED
    BY <1>1, <2>1 DEF NextFit
<1>3. ASSUME ClearBits # {} PROVE FALSE
  <2>1. PICK i \in ClearBits : \A j \in ClearBits : i <= j
    BY <1>1, <1>3, LeastElement DEF ClearBits
  <2> QED
    BY <1>1, <1>2, <2>1 DEF NextFit, ClearBits
<1> QED
  BY <1>3 DEF ClearBits

\* The scan of pmm_alloc_pages misses no clear run.
LEMMA FirstFitComplete ==
  ASSUME NEW n, \A s \in Page : ~FirstFit(s, n)
  PROVE  \A s \in Page : ~ClearRun(s, n)
<1> DEFINE Starts == {s \in Page : ClearRun(s, n)}
<1>1. Starts \subseteq Nat
  BY PmmAssumption DEF Page
<1>2. ASSUME Starts # {} PROVE FALSE
  <2>1. PICK s \in Starts : \A r \in Starts : s <= r
    BY <1>1, <1>2, LeastElement
  <2> QED
    BY <1>1, <2>1, PmmAssumption DEF FirstFit, Page
<1> QED
  BY <1>2

LEMMA StepRefines == Inv /\ [Next]_vars => [FA!FNext]_<<Owned, outcome, asked>>
<1> SUFFICES ASSUME Inv, [Next]_vars PROVE [FA!FNext]_<<Owned, outcome, asked>>
  OBVIOUS
<1>1. CASE pmm_alloc_page
  <2>1. PICK i \in Page : NextFit(i) /\ Take(i, 1)
    BY <1>1 DEF pmm_alloc_page
  <2>2. ClearRun(i, 1)
    BY <2>1, PmmAssumption DEF ClearRun, Run, NextFit, Page
  <2> QED
    BY <2>1, <2>2, TakeGrants, PmmAssumption DEF FA!FNext
<1>2. ASSUME NEW n \in Counts, pmm_alloc_pages(n) PROVE FA!FNext
  <2>1. PICK s \in Page : FirstFit(s, n) /\ Take(s, n)
    BY <1>2 DEF pmm_alloc_pages
  <2> QED
    BY <2>1, TakeGrants, PmmAssumption DEF FirstFit, FA!FNext
<1>3. CASE pmm_alloc_page_fails
  <2>1. \A s \in Usable : ~FA!FreeRun(s, 1)
    BY <1>3, NextFitComplete, UsableRuns, PmmAssumption
    DEF Inv, pmm_alloc_page_fails, ClearRun, Run, Page
  <2>2. FA!Refuse(1)
    BY <1>3, <2>1 DEF FA!Refuse, pmm_alloc_page_fails, state
  <2> QED
    BY <2>2, PmmAssumption DEF FA!FNext
<1>4. ASSUME NEW n \in Counts, pmm_alloc_pages_fails(n) PROVE FA!FNext
  <2>1. \A s \in Usable : ~FA!FreeRun(s, n)
    BY <1>4, FirstFitComplete, UsableRuns, PmmAssumption DEF pmm_alloc_pages_fails
  <2>2. FA!Refuse(n)
    BY <1>4, <2>1 DEF FA!Refuse, pmm_alloc_pages_fails, state
  <2> QED
    BY <2>2 DEF FA!FNext
<1>5. ASSUME NEW i \in Page, pmm_free_page(i) PROVE FA!FNext
  BY <1>5, FreeReleases, PmmAssumption DEF FA!FNext, pmm_free_page
<1>6. ASSUME NEW s \in Page, NEW n \in Counts, pmm_free_pages(s, n) PROVE FA!FNext
  BY <1>6, FreeReleases, PmmAssumption DEF FA!FNext
<1>7. ASSUME NEW i \in Page, pmm_incref(i) PROVE FA!FNext
  <2>1. i \in Usable /\ Owned[i] = held[i]
    BY <1>7, PmmAssumption DEF Inv, BitmapIsOwnership, pmm_incref, Owned
  <2>2. Owned' = [Owned EXCEPT ![i] = Owned[i] + 1]
    BY <1>7, <2>1, PmmAssumption DEF Owned, pmm_incref, Inv, TypeOK
  <2>3. FA!Share(i)
    BY <1>7, <2>1, <2>2 DEF FA!Share, Owned, pmm_incref
  <2> QED
    BY <2>1, <2>3 DEF FA!FNext
<1>8. ASSUME NEW i, pmm_free_page_ignored(i) PROVE FA!FNext
  BY <1>8 DEF FA!FNext, FA!Ignore, pmm_free_page_ignored, state, Owned
<1>9. CASE UNCHANGED vars
  BY <1>9 DEF vars, state, Owned
<1> QED
  BY <1>1, <1>2, <1>3, <1>4, <1>5, <1>6, <1>7, <1>8, <1>9
  DEF Next

\* pmm.c implements the frame allocator its callers rely on: every page handed
\* out was owned by nobody, and an allocation fails only when no run of the
\* requested length is free, despite the next-fit hint.
THEOREM PmmImplementsFrameAlloc == Spec => ImplementsFrameAlloc
<1>1. pmm_init => FA!FInit
  BY PmmAssumption DEF pmm_init, FA!FInit
<1>2. Spec => []Inv
  BY InitInv, NextInv, PTL DEF Spec
<1> QED
  BY <1>1, <1>2, StepRefines, PTL DEF Spec, ImplementsFrameAlloc, FA!FSpec, Owned
=============================================================================
