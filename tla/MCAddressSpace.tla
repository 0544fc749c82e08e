--------------------------- MODULE MCAddressSpace ---------------------------
(* At most two pages, each under a page table of its own and (where the      *)
(* configuration has it) an upper table they share; frames are handed out     *)
(* lowest first.                                                             *)
EXTENDS AddressSpace

CONSTANTS text, stack, upper, pt1, pt2

MCLeaf(v) == IF v = text THEN pt1 ELSE pt2
MCPathOf == [v \in VPage |-> IF upper \in Node THEN <<upper, MCLeaf(v)>> ELSE <<MCLeaf(v)>>]
MCTableOrder == SelectSeq(<<upper, pt1, pt2>>, LAMBDA n : n \in Node)
MCFreeOrder == SelectSeq(<<text, pt1, stack, pt2, upper>>, LAMBDA x : x \in Node \cup VPage)
MCPlacement(S) == {f \in S : \A g \in S : f <= g}

Segment(v, w, x) == [page |-> v, fixed |-> FALSE, writable |-> w, val |-> x]
Fixed(v) == [page |-> v, fixed |-> TRUE, writable |-> TRUE, val |-> 0]

\* A program with a page of text that two segments share, and one whose
\* segment lies where the stack has to go
MCBootStack == <<Fixed(stack)>>
MCBootImage == <<Segment(text, FALSE, 0)>>
MCPrograms == {<<Segment(text, FALSE, 1), Segment(text, FALSE, 0), Fixed(stack)>>,
               <<Segment(stack, TRUE, 0), Fixed(stack)>>}

\* One page that a read-only and a writable segment share
DataBootImage == <<>>
DataPrograms == {<<Segment(stack, FALSE, 0), Segment(stack, TRUE, 0)>>}

TaskSymmetry == Permutations(Task \ {First})

\* A state up to the names of frames, the contents of frames that are no pages
\* (exec and COW overwrite a frame before it becomes one) and the entries that
\* a reap has released (nothing reads them again, a second reap in KillSpec
\* excepted, where the view only prunes the search).
FrameView(f) ==
  LET At == {<<s, x>> \in Space \X Slot : map[s][x] = f /\ Held(s, x)}
  IN  <<At, page_refs[f], {v \in VPage : tlb[v] = f},
        contents[f] # 0 /\ \E a \in At : a[2] \in VPage \cup {Spare}>>
View == <<state, parent, cur, wr, cow, tlbw, op, reap, {FrameView(f) : f \in Frame}>>
=============================================================================
