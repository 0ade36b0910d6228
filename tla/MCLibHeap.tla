----------------------------- MODULE MCLibHeap -----------------------------
(* An instance of LibHeap for TLC: its constants are plain numbers.        *)
EXTENDS LibHeap
=============================================================================
