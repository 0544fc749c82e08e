----------------------------- MODULE FrameAlloc -----------------------------
(***************************************************************************)
(* What the physical memory manager promises its callers, without saying  *)
(* how: frames carry a number of outstanding references; an allocation     *)
(* hands out frames nobody references, and is refused only when the pool   *)
(* really cannot serve it; the last release returns a frame to the pool.   *)
(* Pmm (kernel/mm/pmm.c) is shown to implement this specification, and     *)
(* AddressSpace builds on it.                                              *)
(***************************************************************************)
EXTENDS Integers

CONSTANTS Frame,        \* the frames of the pool, a set of naturals
          MaxSharers,   \* most references any caller keeps to one frame
          Counts        \* the run lengths callers ask for

VARIABLES held,         \* held[f]: references outstanding to frame f
          outcome,      \* what the last call returned: "page", "null", "void"
          asked         \* the run length it asked for, 0 if it was no request

FreeFrame(f) == held[f] = 0

\* n consecutive frames of the pool starting at s, none of them referenced
FreeRun(s, n) == \A f \in s..(s + n - 1) : f \in Frame /\ FreeFrame(f)

FInit == held = [f \in Frame |-> 0] /\ outcome = "void" /\ asked = 0

\* A run of n frames is handed out, each with one reference.
Grant(n) ==
  \E s \in Frame :
    /\ FreeRun(s, n)
    /\ held' = [f \in Frame |-> IF f \in s..(s + n - 1) THEN 1 ELSE held[f]]
    /\ outcome' = "page" /\ asked' = n

\* A refusal is legal only if no run of that length is free.
Refuse(n) ==
  /\ \A s \in Frame : ~FreeRun(s, n)
  /\ outcome' = "null" /\ asked' = n
  /\ UNCHANGED held

Share(f) ==
  /\ held[f] \in 1..(MaxSharers - 1)
  /\ held' = [held EXCEPT ![f] = @ + 1]
  /\ outcome' = "void" /\ asked' = 0

\* Each frame of the run loses one reference.
Release(s, n) ==
  /\ \A f \in s..(s + n - 1) : f \in Frame /\ held[f] > 0
  /\ held' = [f \in Frame |-> IF f \in s..(s + n - 1) THEN held[f] - 1 ELSE held[f]]
  /\ outcome' = "void" /\ asked' = 0

\* A release of a frame that is not in use does nothing.
Ignore == outcome' = "void" /\ asked' = 0 /\ UNCHANGED held

FNext == \/ \E n \in Counts : Grant(n) \/ Refuse(n)
         \/ \E f \in Frame : Share(f)
         \/ \E s \in Frame, n \in Counts : Release(s, n)
         \/ Ignore

FSpec == FInit /\ [][FNext]_<<held, outcome, asked>>
=============================================================================
