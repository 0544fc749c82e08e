--------------------------- MODULE PrivateMemory ----------------------------
(***************************************************************************)
(* What the memory system promises to user processes: every process has a  *)
(* memory of its own.  A store changes one page of the process that makes  *)
(* it; fork gives the child a copy of the parent's memory at that moment;   *)
(* exec replaces the caller's memory by the image of a program.             *)
(* AddressSpace (page tables, copy-on-write, TLB, reference counts) is      *)
(* shown to implement this.                                                *)
(***************************************************************************)
CONSTANTS Task, VPage, Val,
          Images,       \* what exec may load: functions from pages to contents
          BootMem,      \* the memory of the first process
          NoVal         \* a page that is not mapped

VARIABLES alive,        \* tasks that may execute user code
          mem           \* mem[t][v]: what task t reads at page v

Unmapped == [v \in VPage |-> NoVal]

MInit == alive = {} /\ mem = [t \in Task |-> Unmapped]

\* The boot loader may have left out pages (of the image, never of the stack).
Create(t) ==
  /\ alive = {}
  /\ alive' = {t}
  /\ \E S \in SUBSET VPage :
       mem' = [mem EXCEPT ![t] = [v \in VPage |-> IF v \in S THEN BootMem[v] ELSE NoVal]]

Store(t, v, x) ==
  /\ t \in alive /\ mem[t][v] # NoVal
  /\ mem' = [mem EXCEPT ![t][v] = x]
  /\ UNCHANGED alive

Fork(p, c) ==
  /\ p \in alive /\ c \notin alive
  /\ alive' = alive \cup {c}
  /\ mem' = [mem EXCEPT ![c] = mem[p]]

Exec(t) ==
  /\ t \in alive
  /\ \E I \in Images : mem' = [mem EXCEPT ![t] = I]
  /\ UNCHANGED alive

\* exit, kill and faults
Die(t) ==
  /\ t \in alive
  /\ alive' = alive \ {t}
  /\ mem' = [mem EXCEPT ![t] = Unmapped]

MNext == \/ \E t \in Task : Create(t) \/ Exec(t) \/ Die(t)
         \/ \E t \in Task, v \in VPage, x \in Val : Store(t, v, x)
         \/ \E p, c \in Task : Fork(p, c)

MSpec == MInit /\ [][MNext]_<<alive, mem>>
=============================================================================
