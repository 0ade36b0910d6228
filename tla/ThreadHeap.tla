----------------------------- MODULE ThreadHeap -----------------------------
(***************************************************************************)
(* The heap of a thread: the THREADREQ branches of myallocate and          *)
(* mydeallocate on top of the page table.  The chain of blocks is the one  *)
(* of LibHeap, but it lies at the addresses of the thread's pages, so that *)
(* every header the library reads may first have to be brought in by       *)
(* sigHandler, and it grows page by page.                                  *)
(*                                                                         *)
(* Every action is an action of PageTable together with what it does to    *)
(* the chain.  todo holds the pages with a header that the walk under way  *)
(* has yet to reach; the walk goes up the addresses.                       *)
(*                                                                         *)
(* isEnoughPages asks for a wrong number of pages in some cases, which the *)
(* model takes as they come; the requests of a Careful client avoid them.  *)
(***************************************************************************)
EXTENDS PageTable, FiniteSetsExt

CONSTANTS
  PageSize,     \* PAGESIZE, 4096
  BLOCK_SIZE,   \* sizeof(unsigned int), 4
  Sizes         \* the request sizes

ASSUME ThreadHeapAssumption ==
  /\ BLOCK_SIZE \in Nat \ {0}
  /\ PageSize \in Nat /\ PageSize >= BLOCK_SIZE
  /\ Sizes \subseteq Nat

VARIABLES
  chain,   \* for each thread, its headers by address
  op,      \* the call under way: what it is, its size or its block, its new pages
  todo

heapVars == <<chain, op, todo>>
allVars == <<vars, heapVars>>

\* LibHeap's operators on a chain of blocks: the two branches of myallocate and
\* mydeallocate walk, split and merge in the same way.
Lib == INSTANCE LibHeap WITH HeapSize <- NFrames * PageSize, heap <- chain[current]

Empty == [b \in {} |-> <<>>]
Call(k, a) == [kind |-> k, arg |-> a, pages |-> 0]
NoOp == Call("none", 0)
mine == chain[current]

\* A thread that has lost bytes to a faulting copy: its headers may be anything,
\* and the model follows it no further into malloc and free.
Wrecked(t) == \E c \in clobbered : c[1] = t

HeapInit ==
  /\ Init
  /\ chain = [t \in Thread |-> Empty]
  /\ op = NoOp
  /\ todo = {}

-----------------------------------------------------------------------------
PageOf(a) == a \div PageSize
LastBlock(h) == Max(DOMAIN h)

\* The headers that myallocate reads or writes when it looks for n bytes.
SearchPages(h, n) ==
  LET fit == Lib!FirstFit(h, n)
  IN  IF fit = {} THEN {PageOf(b) : b \in DOMAIN h}
      ELSE UNION {{PageOf(b) : b \in {c \in DOMAIN h : c <= f}} \cup
                  (IF h[f].size = n THEN {} ELSE {PageOf(f + n + BLOCK_SIZE)}) : f \in fit}

\* Those of freeAndMerge for block b.
MergePages(h, b) ==
  {PageOf(c) : c \in {d \in DOMAIN h : d <= IF h[b].isNext THEN Lib!NextBlock(h, b) ELSE b}}

-----------------------------------------------------------------------------
(* What myallocate computes when no block of chain h fits                  *)

bytesLeft(h) == NFrames * PageSize - (LastBlock(h) + BLOCK_SIZE)
extraBlock(h) == IF h[LastBlock(h)].isF THEN 0 ELSE BLOCK_SIZE

\* Division in C, which rounds towards zero.
Quotient(a, b) == IF a >= 0 THEN a \div b ELSE -((-a) \div b)

\* isEnoughPages
pagesWanted(h, n) ==
  Quotient(extraBlock(h) + n + BLOCK_SIZE - h[LastBlock(h)].size, PageSize) + 1

\* Mutant: the new block's own header is counted as its payload.
Extended_NoHeader(h, held, k) ==
  LET last == LastBlock(h)
      bl == held * PageSize
  IN  IF h[last].isF
      THEN [h EXCEPT ![last].size = @ + k * PageSize]
      ELSE [c \in DOMAIN h \cup {bl} |->
              CASE c = bl   -> [size |-> k * PageSize, isNext |-> FALSE, isF |-> TRUE]
                [] c = last -> [h[last] EXCEPT !.isNext = TRUE]
                [] OTHER    -> h[c]]

\* The block that takes the k new pages behind the ones held: the last one if it
\* is free, else a new one.
Extended(h, held, k) ==
  LET last == LastBlock(h)
      bl == held * PageSize
  IN  IF h[last].isF
      THEN [h EXCEPT ![last].size = @ + k * PageSize]
      ELSE [c \in DOMAIN h \cup {bl} |->
              CASE c = bl   -> [size |-> k * PageSize - BLOCK_SIZE, isNext |-> FALSE, isF |-> TRUE]
                [] c = last -> [h[last] EXCEPT !.isNext = TRUE]
                [] OTHER    -> h[c]]

\* That block is taken without a look at its size, with a header for the rest.
\* setBlockSize keeps 24 bits of a size below zero.
TakenAnyway(h, b, n) ==
  LET new == b + n + BLOCK_SIZE
  IN  [c \in DOMAIN h \cup {new} |->
         CASE c = new -> [size |-> (h[b].size - n - BLOCK_SIZE) % 2^24,
                          isNext |-> h[b].isNext, isF |-> TRUE]
           [] c = b   -> [size |-> n, isNext |-> TRUE, isF |-> FALSE]
           [] OTHER   -> h[c]]

-----------------------------------------------------------------------------
(* myallocate                                                              *)

\* initializePage writes the root of the chain into page 0.
Root == [b \in {0} |-> [size |-> PageSize - BLOCK_SIZE, isNext |-> FALSE, isF |-> TRUE]]

\* What a careful client sees to: if its request takes more pages, these are
\* enough for it and the memory has them.
PagesAreRight(n) ==
  LET h == IF pageNum[current] = 0 THEN Root ELSE mine
      held == IF pageNum[current] = 0 THEN 1 ELSE pageNum[current]
      k == pagesWanted(h, n)
      e == Extended(h, held, k)
  IN  \/ Lib!FirstFit(h, n) # {}
      \/ n + BLOCK_SIZE > bytesLeft(h)
      \/ k <= 0
      \/ held + k <= NFrames /\ e[LastBlock(e)].size >= n + BLOCK_SIZE

Malloc(n) ==
  /\ ~Wrecked(current)
  /\ Careful => PagesAreRight(n)
  /\ MallocEnter
  /\ op' = Call("malloc", n)
  /\ UNCHANGED <<chain, todo>>

\* The root is written for the thread's page 0 only.
MallocFirst ==
  /\ FirstPage
  /\ chain' = [chain EXCEPT ![current] = IF pageNum'[current] = 1 THEN Root ELSE mine]
  /\ todo' = SearchPages(chain'[current], op.arg)
  /\ UNCHANGED op

MallocAgain ==
  /\ HasFirstPage
  /\ todo' = SearchPages(mine, op.arg)
  /\ UNCHANGED <<chain, op>>

\* "could not allocate."
MallocNoFirst ==
  /\ NoFirstPage
  /\ op' = NoOp
  /\ UNCHANGED <<chain, todo>>

\* The walk runs into a page that is not there.
WalkFaults ==
  /\ op # NoOp
  /\ \E n \in Frames :
       /\ n \in FirstOf(todo \cap prot)
       /\ Access(n)
       /\ todo' = {m \in todo : m > n}
  /\ UNCHANGED <<chain, op>>

\* The walk is through: the headers it needs have been reached.
Walked(kind) == pc = "walk" /\ op.kind = kind /\ todo \cap prot = {}

Done == Return /\ op' = NoOp /\ todo' = {}

MallocFits ==
  /\ Walked("malloc")
  /\ \E b \in Lib!FirstFit(mine, op.arg) :
       chain' = [chain EXCEPT ![current] = Lib!Taken(mine, b, op.arg)]
  /\ Done

\* No block fits: more pages.
NoFit == Walked("malloc") /\ Lib!FirstFit(mine, op.arg) = {}

\* "not enough space is available to allocate."
MallocFails ==
  /\ NoFit
  /\ \/ op.arg + BLOCK_SIZE > bytesLeft(mine)
     \/ pagesWanted(mine, op.arg) <= 0
     \/ pagesWanted(mine, op.arg) > Cardinality(FreePlaces)
  /\ UNCHANGED chain
  /\ Done

MallocGrows ==
  /\ NoFit
  /\ op.arg + BLOCK_SIZE <= bytesLeft(mine)
  /\ \E k \in 1..NFrames + NSlots :
       /\ k = pagesWanted(mine, op.arg)
       /\ Grow(k)
       /\ op' = [op EXCEPT !.pages = k]
  /\ todo' = {}
  /\ UNCHANGED chain

MallocGathers ==
  /\ GatherPage
  /\ UNCHANGED heapVars

Gathered == pc = "gather" /\ need = 0

Grown == Extended(mine, pageNum[current] - op.pages, op.pages)

\* The header of the block that is handed out, and that of the rest.
GrownPages ==
  {PageOf(LastBlock(Grown)), PageOf(LastBlock(Grown) + op.arg + BLOCK_SIZE)}

GrowFaults ==
  /\ Gathered
  /\ \E n \in Frames : n \in GrownPages /\ Access(n)
  /\ UNCHANGED heapVars

MallocGrown ==
  /\ Gathered
  /\ GrownPages \cap prot = {}
  /\ chain' = [chain EXCEPT ![current] = TakenAnyway(Grown, LastBlock(Grown), op.arg)]
  /\ Done

-----------------------------------------------------------------------------
(* mydeallocate                                                            *)

Free(b) ==
  /\ b \in DOMAIN mine
  /\ ~Wrecked(current)
  /\ FreeEnter
  /\ op' = Call("free", b)
  /\ todo' = {PageOf(b)}
  /\ UNCHANGED chain

\* "pointer has already been freed."
FreeRejected ==
  /\ Walked("free")
  /\ mine[op.arg].isF
  /\ UNCHANGED chain
  /\ Done

\* freeAndMerge starts at the first frame of the thread.  If that is not frame
\* 0, it starts four times as far into the memory or past it, and what it takes
\* for headers leads it past the block, or to it, but by the wrong way, or out of
\* the memory.
FreeStarts ==
  /\ Walked("free")
  /\ ~mine[op.arg].isF
  /\ IF 0 \in Own(current)
     THEN /\ Followed
          /\ op' = [op EXCEPT !.kind = "merge"]
          /\ todo' = MergePages(mine, op.arg)
          /\ UNCHANGED <<vars, chain>>
     ELSE \E way \in {"past", "to", "out"} :
            IF way = "out"
            THEN WalkCrashes /\ UNCHANGED heapVars
            ELSE /\ chain' = [chain EXCEPT ![current] =
                      IF way = "past" THEN mine
                      ELSE Lib!MergedWithNext(Lib!Marked(mine, op.arg, TRUE), op.arg)]
                 /\ Done

FreeMerges ==
  /\ Walked("merge")
  /\ chain' = [chain EXCEPT ![current] = Lib!FreeAndMerge(mine, op.arg)]
  /\ Done

-----------------------------------------------------------------------------
\* The thread uses what it has allocated.
UserFaults ==
  /\ pc = "user"
  /\ \E n \in Frames : n < pageNum[current] /\ Access(n)
  /\ UNCHANGED heapVars

HeapSwitch(u) == Switch(u) /\ UNCHANGED heapVars
HeapExit(u) == Exit(u) /\ chain' = [chain EXCEPT ![current] = Empty] /\ UNCHANGED <<op, todo>>

HeapNext ==
  \/ \E n \in Sizes : Malloc(n)
  \/ MallocFirst
  \/ MallocAgain
  \/ MallocNoFirst
  \/ WalkFaults
  \/ MallocFits
  \/ MallocFails
  \/ MallocGrows
  \/ MallocGathers
  \/ GrowFaults
  \/ MallocGrown
  \/ \E b \in DOMAIN mine : Free(b)
  \/ FreeRejected
  \/ FreeStarts
  \/ FreeMerges
  \/ UserFaults
  \/ \E u \in Thread : HeapSwitch(u)
  \/ \E u \in Thread : HeapExit(u)

HeapSpec == HeapInit /\ [][HeapNext]_allVars

-----------------------------------------------------------------------------
HeapTypeOK ==
  /\ TypeOK
  /\ \A t \in Thread : chain[t] \in [DOMAIN chain[t] -> Lib!Header]
  /\ op.kind \in {"none", "malloc", "free", "merge"}
  /\ todo \subseteq Frames

\* Through growth, splits and merges the blocks of a thread lie without gap or
\* overlap on exactly the pages it has: no block reaches past its last page,
\* where another thread's bytes or none are.
ChainTilesPages ==
  \A t \in Thread \ dead :
    ~Wrecked(t) /\ (pc # "gather" \/ t # current) =>
      LET h == chain[t]
          end == pageNum[t] * PageSize
      IN  \A b \in DOMAIN h :
            /\ Lib!NextBlock(h, b) <= end
            /\ IF h[b].isNext THEN Lib!NextBlock(h, b) \in DOMAIN h
                              ELSE Lib!NextBlock(h, b) = end
            /\ \A c \in DOMAIN h : b < c => Lib!NextBlock(h, b) <= c

\* When a walk is through, all the headers it has met are in their frames at
\* once: a fault on a later page never takes an earlier one away again, so the
\* pointers prev and current that the library has kept are good.
WalkStaysInPlace ==
  /\ Walked("malloc") => SearchPages(mine, op.arg) \cap prot = {}
  /\ Walked("merge") => MergePages(mine, op.arg) \cap prot = {}
  /\ Gathered /\ ~Wrecked(current) => PageOf(LastBlock(mine)) \notin prot
=============================================================================
