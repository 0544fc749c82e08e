--------------------------- MODULE MCPmmPreempted ---------------------------
(* A bitmap of three pages, all of them usable. *)
EXTENDS PmmPreempted

MCUsable == {0, 1, 2}
=============================================================================
