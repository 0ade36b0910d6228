------------------------------ MODULE LibHeap ------------------------------
(***************************************************************************)
(* The library's own heap in my_pthread.c: the LIBRARYREQ branches of      *)
(* myallocate and mydeallocate, with freeAndMerge.  The arena is a chain   *)
(* of blocks, each a header word followed by its payload.  A header packs  *)
(* the payload's size (24 bits), isNext and isF (4 bits each); the address *)
(* of the next block is computed, not stored.                              *)
(*                                                                         *)
(* The state is the function heap from the addresses of the headers in the *)
(* chain to their contents.  A header that freeAndMerge unlinks leaves the *)
(* domain: its word stays in memory, but every walk of the code starts at  *)
(* rootBlock and goes from header to header.  A walk visits the chain in   *)
(* address order, so first fit is the fit with the smallest address.       *)
(*                                                                         *)
(* Both functions run under pause_timer: each is one step.                 *)
(***************************************************************************)
EXTENDS Integers, Words

CONSTANTS
  HeapSize,     \* LIBPAGES * PAGESIZE, 819200 in the code
  BLOCK_SIZE,   \* sizeof(unsigned int), 4
  Sizes         \* the request sizes

ASSUME LibHeapAssumption ==
  /\ BLOCK_SIZE \in Nat \ {0}
  /\ HeapSize \in Nat
  /\ HeapSize >= BLOCK_SIZE
  /\ Sizes \subseteq Nat

\* Every size fits the 24 bits that setBlockSize keeps.
ASSUME SizeFieldAssumption == HeapSize <= 2^24

Header == [size : Nat, isNext : BOOLEAN, isF : BOOLEAN]

VARIABLE heap

\* initializeRoot
Init ==
  heap = [b \in {0} |-> [size |-> HeapSize - BLOCK_SIZE, isNext |-> FALSE, isF |-> TRUE]]

\* getNextBlock, for a block whose isNext is set.
NextBlock(h, b) == b + h[b].size + BLOCK_SIZE

\* setBlockIsF on the header at b.
Marked(h, b, f) ==
  [h EXCEPT ![b] = [size |-> h[b].size, isNext |-> h[b].isNext, isF |-> f]]

-----------------------------------------------------------------------------
(* myallocate                                                              *)

\* A free block of exactly the size, or with room for the header of the rest.
Fits(h, b, n) == h[b].isF /\ (h[b].size = n \/ h[b].size >= n + BLOCK_SIZE)

\* Mutant: the new header is not subtracted from the rest.
Taken_SizeOffByHeader(h, b, n) ==
  IF h[b].size = n
  THEN Marked(h, b, FALSE)
  ELSE LET new == b + n + BLOCK_SIZE
       IN  [c \in DOMAIN h \cup {new} |->
              CASE c = new -> [size |-> h[b].size - n, isNext |-> h[b].isNext, isF |-> TRUE]
                [] c = b   -> [size |-> n, isNext |-> TRUE, isF |-> FALSE]
                [] OTHER   -> h[c]]

\* The heap after block b has been taken for n bytes, split if it is larger.
Taken(h, b, n) ==
  IF h[b].size = n
  THEN Marked(h, b, FALSE)
  ELSE LET new == b + n + BLOCK_SIZE
       IN  [c \in DOMAIN h \cup {new} |->
              CASE c = new -> [size |-> h[b].size - n - BLOCK_SIZE,
                               isNext |-> h[b].isNext, isF |-> TRUE]
                [] c = b   -> [size |-> n, isNext |-> TRUE, isF |-> FALSE]
                [] OTHER   -> h[c]]

FirstFit(h, n) ==
  {b \in DOMAIN h : Fits(h, b, n) /\ \A c \in DOMAIN h : Fits(h, c, n) => b <= c}

Allocate(n) == \E b \in FirstFit(heap, n) : heap' = Taken(heap, b, n)

\* myallocate returns NULL.
AllocateFails(n) == FirstFit(heap, n) = {} /\ UNCHANGED heap

-----------------------------------------------------------------------------
(* mydeallocate                                                            *)

\* Mutant: the merged block drops the rest of the chain.
MergedWithNext_EndsChain(h, b) ==
  LET nx == NextBlock(h, b)
  IN  IF h[b].isNext /\ h[nx].isF
      THEN [c \in DOMAIN h \ {nx} |->
              IF c = b THEN [size |-> h[b].size + h[nx].size + BLOCK_SIZE,
                             isNext |-> FALSE, isF |-> h[b].isF]
              ELSE h[c]]
      ELSE h

\* Block b swallows the next block if that one is free.
MergedWithNext(h, b) ==
  LET nx == NextBlock(h, b)
  IN  IF h[b].isNext /\ h[nx].isF
      THEN [c \in DOMAIN h \ {nx} |->
              IF c = b THEN [size |-> h[b].size + h[nx].size + BLOCK_SIZE,
                             isNext |-> h[nx].isNext, isF |-> h[b].isF]
              ELSE h[c]]
      ELSE h

\* The block the walk of freeAndMerge passed just before b, if it is free.
FreePrevious(h, b) ==
  {p \in DOMAIN h : h[p].isNext /\ NextBlock(h, p) = b /\ h[p].isF}

\* Mutants: the previous block is not looked at; its flag is not tested.
FreeAndMerge_OnlyNext(h, b) == MergedWithNext(Marked(h, b, TRUE), b)

FreeAndMerge_TakenPrevious(h, b) ==
  LET merged == MergedWithNext(Marked(h, b, TRUE), b)
      prev == {p \in DOMAIN h : h[p].isNext /\ NextBlock(h, p) = b}
  IN  IF prev = {} THEN merged
      ELSE MergedWithNext(merged, CHOOSE p \in prev : TRUE)

FreeAndMerge(h, b) ==
  LET merged == MergedWithNext(Marked(h, b, TRUE), b)
  IN  IF FreePrevious(merged, b) = {}
      THEN merged
      ELSE MergedWithNext(merged, CHOOSE p \in FreePrevious(merged, b) : TRUE)

Deallocate(p) ==
  LET b == p - BLOCK_SIZE
  IN  /\ b \in DOMAIN heap
      /\ ~heap[b].isF
      /\ heap' = FreeAndMerge(heap, b)

\* The pointer was freed before, or there is no block of the chain at it: the
\* isF found in front of it decides the message, and nothing is changed.
DeallocateRejected(p) ==
  LET b == p - BLOCK_SIZE
  IN  /\ b \in DOMAIN heap => heap[b].isF
      /\ UNCHANGED heap

Next ==
  \/ \E n \in Sizes : Allocate(n)
  \/ \E n \in Sizes : AllocateFails(n)
  \/ \E p \in 0..HeapSize : Deallocate(p)
  \/ \E p \in 0..HeapSize : DeallocateRejected(p)

Spec == Init /\ [][Next]_heap

-----------------------------------------------------------------------------
TypeOK ==
  /\ heap \in [DOMAIN heap -> Header]
  /\ 0 \in DOMAIN heap
  /\ DOMAIN heap \subseteq 0..HeapSize - BLOCK_SIZE

\* The headers cut the arena into blocks without gap or overlap: the size and
\* the isNext flag of a header always lead to the next header, and those of
\* the last one to the end of the arena.  Every getNextBlock relies on it.
Tiled(h) ==
  \A b \in DOMAIN h :
    /\ NextBlock(h, b) <= HeapSize
    /\ h[b].isNext => NextBlock(h, b) \in DOMAIN h
    /\ ~h[b].isNext => NextBlock(h, b) = HeapSize
    /\ \A c \in DOMAIN h : b < c => NextBlock(h, b) <= c

ChainTilesHeap == Tiled(heap)

\* "If the previous and/or next blocks are free, they will be merged into one"
\* (my_pthread.c:1288): no two free blocks are ever neighbours, after any
\* sequence of allocations and frees.
Coalesced(h) ==
  \A b \in DOMAIN h : h[b].isF /\ h[b].isNext => ~h[NextBlock(h, b)].isF

NoFreeNeighbours == Coalesced(heap)

\* Nothing leaks: once everything has been freed, in whatever order, the heap
\* is the single block that initializeRoot made.
FreedHeapIsRoot == (\A b \in DOMAIN heap : heap[b].isF) => Init

\* Freeing what was just allocated restores the heap exactly, whichever block
\* first fit chose and whether or not it was split.
FreeUndoesAllocate ==
  \A n \in Sizes : \A b \in FirstFit(heap, n) : FreeAndMerge(Taken(heap, b, n), b) = heap

\* Words are as good as the records kept here: a header stored over any other
\* header of the heap, one field after the other, is read back as it was.
WordsKeepHeaders ==
  \A b, c \in DOMAIN heap : UnpackBlock(PackBlock(PackBlock(0, heap[c]), heap[b])) = heap[b]

\* The heap as its callers see it: the payloads of the taken blocks.
Owned(h) ==
  [p \in {b + BLOCK_SIZE : b \in {c \in DOMAIN h : ~h[c].isF}} |-> h[p - BLOCK_SIZE].size]

Abstract == INSTANCE Allocator WITH Limit <- HeapSize, Requests <- Sizes, owned <- Owned(heap)

\* myallocate and mydeallocate implement the abstract allocator: live
\* allocations never overlap, and no call but its own free touches one.
ImplementsAllocator == Abstract!ASpec
=============================================================================
