------------------------------- MODULE MCPmm --------------------------------
(* A bitmap of six pages with a hole in the usable memory. *)
EXTENDS Pmm

MCUsable == {0, 1, 3, 4, 5}
=============================================================================
