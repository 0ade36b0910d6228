----------------------------- MODULE MyMalloc ------------------------------
(***************************************************************************)
(* The allocator of MallocStuff/mymalloc.c, from which the library heap of *)
(* my_pthread.c was made: blocks linked by next pointers, sizes kept in an *)
(* unsigned short.  It is shown to behave as LibHeap does.                 *)
(*                                                                         *)
(* heap maps the addresses of the blocks in the list to their fields; it   *)
(* is empty until the first mymalloc makes the root block.                 *)
(***************************************************************************)
EXTENDS Integers

CONSTANTS
  HeapSize,     \* MAX_MEMORY, 5000 in the code
  BLOCK_SIZE,   \* sizeof(Block), 16
  Word,         \* 2^16, one more than the largest unsigned short
  Sizes         \* the request sizes, of type size_t

ASSUME MyMallocAssumption ==
  /\ BLOCK_SIZE \in Nat \ {0}
  /\ HeapSize \in BLOCK_SIZE..Word - 1
  /\ Sizes \subseteq Nat

NULL == -1
Short(n) == n % Word

VARIABLE heap

\* initializeRoot
Root == [b \in {0} |-> [isFree |-> TRUE, size |-> Short(HeapSize - BLOCK_SIZE), next |-> NULL]]

Init == heap = [b \in {} |-> NULL]

\* The heap mymalloc works on: the first call makes the root block.
Initialized == IF DOMAIN heap = {} THEN Root ELSE heap

-----------------------------------------------------------------------------
SizeWithBlock(n) == Short(n + BLOCK_SIZE)

\* Mutant: only the sum, an unsigned short, is compared with the block's size.
Fits_OnlySum(h, b, n) ==
  h[b].isFree /\ (h[b].size = n \/ h[b].size >= SizeWithBlock(n))

Fits(h, b, n) ==
  /\ h[b].isFree
  /\ h[b].size >= n
  /\ h[b].size = n \/ h[b].size >= SizeWithBlock(n)

\* The first block from b on that fits.
RECURSIVE Search(_, _, _)
Search(h, b, n) ==
  IF b = NULL \/ Fits(h, b, n) THEN b ELSE Search(h, h[b].next, n)

Taken(h, b, n) ==
  IF h[b].size = n
  THEN [h EXCEPT ![b].isFree = FALSE]
  ELSE LET new == b + SizeWithBlock(n)
       IN  [c \in DOMAIN h \cup {new} |->
              CASE c = new -> [isFree |-> TRUE, next |-> h[b].next,
                               size |-> Short(h[b].size - SizeWithBlock(n))]
                [] c = b   -> [isFree |-> FALSE, next |-> new, size |-> Short(n)]
                [] OTHER   -> h[c]]

Malloc(n) ==
  LET b == Search(Initialized, 0, n)
  IN  heap' = IF b = NULL THEN Initialized ELSE Taken(Initialized, b, n)

-----------------------------------------------------------------------------
\* The block the walk of freeAndMerge passed just before b.
RECURSIVE Previous(_, _, _)
Previous(h, c, b) ==
  IF c = b THEN NULL ELSE IF h[c].next = b THEN c ELSE Previous(h, h[c].next, b)

\* Block b takes in its successor c.
Swallow(h, b, c) ==
  [a \in DOMAIN h \ {c} |->
     IF a = b THEN [h[b] EXCEPT !.size = Short(@ + h[c].size + BLOCK_SIZE),
                                !.next = h[c].next]
     ELSE h[a]]

FreeAndMerge(h, b) ==
  LET freed  == [h EXCEPT ![b].isFree = TRUE]
      next   == freed[b].next
      merged == IF next # NULL /\ freed[next].isFree THEN Swallow(freed, b, next) ELSE freed
      prev   == Previous(h, 0, b)
  IN  IF prev # NULL /\ merged[prev].isFree THEN Swallow(merged, prev, b) ELSE merged

InMemorySpace(p) == p \in 0..HeapSize - 1

\* A pointer that mymalloc did not return, or that was freed, only prints.
Free(p) ==
  /\ InMemorySpace(p)
  /\ p - BLOCK_SIZE \in DOMAIN heap
  /\ ~heap[p - BLOCK_SIZE].isFree
  /\ heap' = FreeAndMerge(heap, p - BLOCK_SIZE)

Next ==
  \/ \E n \in Sizes : Malloc(n)
  \/ \E p \in 0..HeapSize : Free(p)

Spec == Init /\ [][Next]_heap

-----------------------------------------------------------------------------
TypeOK ==
  /\ heap \in [DOMAIN heap ->
                 [isFree : BOOLEAN, size : 0..Word - 1, next : DOMAIN heap \cup {NULL}]]
  /\ DOMAIN heap \subseteq 0..HeapSize - BLOCK_SIZE

Packed == INSTANCE LibHeap WITH
  heap <- [b \in DOMAIN Initialized |->
             [size   |-> Initialized[b].size,
              isNext |-> Initialized[b].next # NULL,
              isF    |-> Initialized[b].isFree]]

\* mymalloc and myfree make the choices of myallocate and mydeallocate on the
\* packed headers: the list and the sizes agree on where blocks are, and no
\* request is large enough for the 16-bit sum to hide its size.
ImplementsLibHeap == Packed!Spec
=============================================================================
