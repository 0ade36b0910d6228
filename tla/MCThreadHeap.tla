---------------------------- MODULE MCThreadHeap ----------------------------
(* An instance of ThreadHeap for TLC: its constants are plain numbers.     *)
EXTENDS ThreadHeap
=============================================================================
