--------------------------- MODULE MCPriorityQueue ---------------------------
(***************************************************************************)
(* A priority queue of six variables: a root, its four children and one    *)
(* grandchild, with scores that coincide after a division by two.          *)
(***************************************************************************)
EXTENDS PriorityQueue
=============================================================================
