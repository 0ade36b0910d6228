------------------------------- MODULE Words -------------------------------
(***************************************************************************)
(* The bit fields of my_pthread.c.  A header word of a block holds its     *)
(* size (24 bits), isNext and isF (4 bits each); a word of the page table  *)
(* holds a page (16 bits), a thread and a free flag (8 bits each).         *)
(*                                                                         *)
(* A shift is a multiplication or a division by a power of two, and the    *)
(* masks keep or drop whole fields.  An | of words that have no bit in     *)
(* common is their sum: so it is as long as isNext, isF, the thread and    *)
(* the free flag, which are not masked, fit their fields.                  *)
(***************************************************************************)
EXTENDS Integers

setBlockSize(w, size) == (size % 2^24) * 2^8 + (w % 2^8)
getBlockSize(w) == (w \div 2^8) % 2^24

\* Mutant: the mask leaves only isF.
setBlockIsNext_DropsSize(w, isNext) == isNext * 2^4 + (w % 2^4)

setBlockIsNext(w, isNext) == (w \div 2^8) * 2^8 + isNext * 2^4 + (w % 2^4)
getBlockIsNext(w) == (w \div 2^4) % 2^4

setBlockIsF(w, isF) == (w \div 2^4) * 2^4 + isF
getBlockIsF(w) == w % 2^4

setPagePgID(w, id) == (id % 2^16) * 2^16 + (w % 2^16)
getPagePgID(w) == (w \div 2^16) % 2^16

\* Mutant: the old thread is not masked out.
setPageThID_Adds(w, id) == w + id * 2^8

setPageThID(w, id) == (w \div 2^16) * 2^16 + id * 2^8 + (w % 2^8)
getPageThID(w) == (w \div 2^8) % 2^8

setPageIsF(w, free) == (w \div 2^8) * 2^8 + free
getPageIsF(w) == w % 2^8

-----------------------------------------------------------------------------
\* A flag as the code stores and tests it.
Flag(b) == IF b THEN 1 ELSE 0

\* The fields of a record stored one after the other into a word, whatever it
\* held, and the record read back.
PackBlock(w, h) ==
  setBlockIsF(setBlockIsNext(setBlockSize(w, h.size), Flag(h.isNext)), Flag(h.isF))

UnpackBlock(w) ==
  [size |-> getBlockSize(w), isNext |-> getBlockIsNext(w) = 1, isF |-> getBlockIsF(w) = 1]

PackPage(w, e) ==
  setPageIsF(setPageThID(setPagePgID(w, e.pg), e.th), Flag(e.free))

UnpackPage(w) ==
  [th |-> getPageThID(w), pg |-> getPagePgID(w), free |-> getPageIsF(w) = 1]
=============================================================================
