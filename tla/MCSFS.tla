------------------------------- MODULE MCSFS -------------------------------
(* Instances of SFS for TLC.                                               *)
EXTENDS SFS

ThreeInodes == 0..2

\* Buffers of different bytes; p has two where no crash multiplies the disks.
Letters == [c \in Clients |-> [x \in Paths |->
              CASE x = "q"       -> {<<3, 2>>}
                [] c = "crashes" -> {<<1, 2, 3>>}
                [] OTHER         -> {<<1>>, <<1, 2, 3>>}]]
=============================================================================
