---------------------------- MODULE MCKernelStack ----------------------------
(* Idle, init and two more tasks; a stack for each, and three more so that    *)
(* every task can be in the middle of an exec.                                *)
EXTENDS KernelStack, TLC

Symmetric == Permutations(Task \ {InitTask}) \cup Permutations(Stack)
=============================================================================
