-------------------------- MODULE MCContextSwitch --------------------------
(* An instance of ContextSwitch for TLC.                                   *)
EXTENDS ContextSwitch, TLC

\* All threads but main are created in the same way.
Symmetry == Permutations(Threads \ {Main})
=============================================================================
