--------------------------- MODULE LibHeapProofs ---------------------------
(***************************************************************************)
(* Proofs about LibHeap for every arena size, header size and set of       *)
(* request sizes.                                                          *)
(***************************************************************************)
EXTENDS LibHeap, WordsProofs, TLAPS

\* The types of a heap, and the inductive invariant as a predicate of a heap.
WellTyped(h) ==
  /\ h \in [DOMAIN h -> Header]
  /\ 0 \in DOMAIN h
  /\ DOMAIN h \subseteq 0..HeapSize - BLOCK_SIZE

Sound(h) == WellTyped(h) /\ Tiled(h)

HeapInv == Sound(heap) /\ Coalesced(heap)

USE LibHeapAssumption

\* The header fields of a well-typed heap, one by one.
LEMMA HeaderTypes ==
  ASSUME NEW h, WellTyped(h), NEW b \in DOMAIN h
  PROVE  /\ b \in Nat /\ b <= HeapSize - BLOCK_SIZE
         /\ h[b].size \in Nat /\ h[b].isNext \in BOOLEAN /\ h[b].isF \in BOOLEAN
         /\ h[b] = [size |-> h[b].size, isNext |-> h[b].isNext, isF |-> h[b].isF]
         /\ NextBlock(h, b) \in Nat /\ NextBlock(h, b) > b
BY DEF WellTyped, Header, NextBlock

\* Marking a block free or taken moves no header: the chain still tiles.
LEMMA MarkKeepsSound ==
  ASSUME NEW h, Sound(h), NEW b \in DOMAIN h, NEW f \in BOOLEAN
  PROVE  /\ Sound(Marked(h, b, f))
         /\ DOMAIN Marked(h, b, f) = DOMAIN h
         /\ \A c \in DOMAIN h : NextBlock(Marked(h, b, f), c) = NextBlock(h, c)
<1> DEFINE g == Marked(h, b, f)
<1>1. DOMAIN g = DOMAIN h
  BY DEF Marked
<1>2. \A c \in DOMAIN h : h[c].size \in Nat /\ h[c].isNext \in BOOLEAN /\ h[c].isF \in BOOLEAN
  BY HeaderTypes DEF Sound
<1>3. \A c \in DOMAIN h : /\ g[c].size = h[c].size /\ g[c].isNext = h[c].isNext
                          /\ g[c] \in Header
  BY <1>2, HeaderTypes DEF Sound, Marked, WellTyped, Header
<1> HIDE DEF g
<1>4. \A c \in DOMAIN h : NextBlock(g, c) = NextBlock(h, c)
  BY <1>3 DEF NextBlock
<1>5. WellTyped(g)
  <2>1. \A c \in DOMAIN g : g[c] \in Header
    BY <1>1, <1>3
  <2>2. g = [c \in DOMAIN g |-> g[c]]
    BY DEF g, Marked
  <2> QED
    BY <1>1, <2>1, <2>2 DEF WellTyped, Sound
<1>6. Tiled(g)
  BY <1>1, <1>3, <1>4 DEF Tiled, Sound
<1> QED
  BY <1>1, <1>4, <1>5, <1>6 DEF g, Sound

\* A block has at most one block in front of it.
LEMMA OnePrevious ==
  ASSUME NEW h, Sound(h), NEW p \in DOMAIN h, NEW q \in DOMAIN h,
         NextBlock(h, p) = NextBlock(h, q)
  PROVE  p = q
<1>1. /\ p \in Nat /\ q \in Nat
      /\ NextBlock(h, p) \in Nat /\ NextBlock(h, p) > p /\ NextBlock(h, q) > q
  BY HeaderTypes DEF Sound
<1>2. /\ p < q => NextBlock(h, p) <= q
      /\ q < p => NextBlock(h, q) <= p
  BY DEF Sound, Tiled
<1> QED
  BY <1>1, <1>2

\* g is h with the free block b split: new is the header of the rest.
SplitResult(h, b, n, new, g) ==
  /\ new \in Nat /\ new \notin DOMAIN h /\ b < new /\ new < NextBlock(h, b)
  /\ DOMAIN g = DOMAIN h \cup {new}
  /\ g = [c \in DOMAIN g |-> g[c]]
  /\ g[new] = [size |-> h[b].size - n - BLOCK_SIZE, isNext |-> h[b].isNext, isF |-> TRUE]
  /\ g[b] = [size |-> n, isNext |-> TRUE, isF |-> FALSE]
  /\ \A c \in DOMAIN h \ {b} : g[c] = h[c]

\* Splitting a free block that has room for a header.
LEMMA SplitFields ==
  ASSUME NEW h, Sound(h), NEW b \in DOMAIN h, NEW n \in Nat,
         h[b].size >= n + BLOCK_SIZE
  PROVE  SplitResult(h, b, n, b + n + BLOCK_SIZE, Taken(h, b, n))
<1> DEFINE g == Taken(h, b, n)
           new == b + n + BLOCK_SIZE
<1>1. b \in Nat /\ h[b].size \in Nat /\ h[b].size # n
  BY HeaderTypes DEF Sound
<1>2. new \in Nat /\ b < new /\ new < NextBlock(h, b)
  BY <1>1 DEF NextBlock
<1>3. new \notin DOMAIN h
  <2> SUFFICES ASSUME new \in DOMAIN h PROVE FALSE
    OBVIOUS
  <2>1. NextBlock(h, b) <= new
    BY <1>2 DEF Sound, Tiled
  <2>2. NextBlock(h, b) \in Nat
    BY HeaderTypes DEF Sound
  <2> QED
    BY <1>2, <2>1, <2>2
<1>4. g = [c \in DOMAIN h \cup {new} |->
             IF c = new THEN [size |-> h[b].size - n - BLOCK_SIZE,
                              isNext |-> h[b].isNext, isF |-> TRUE]
             ELSE IF c = b THEN [size |-> n, isNext |-> TRUE, isF |-> FALSE]
             ELSE h[c]]
  BY <1>1 DEF Taken
<1>5. b # new
  BY <1>1, <1>2
<1>6. SplitResult(h, b, n, new, g)
  <2> HIDE DEF new, g
  <2> QED
    BY <1>2, <1>3, <1>4, <1>5 DEF SplitResult
<1> QED
  BY <1>6

\* Splitting keeps the chain a tiling: the new header sits inside the old block.
LEMMA SplitKeepsSound ==
  ASSUME NEW h, Sound(h), NEW b \in DOMAIN h, NEW n \in Nat,
         h[b].size >= n + BLOCK_SIZE
  PROVE  LET g == Taken(h, b, n)
             new == b + n + BLOCK_SIZE
         IN  /\ Sound(g)
             /\ NextBlock(g, b) = new
             /\ NextBlock(g, new) = NextBlock(h, b)
             /\ \A c \in DOMAIN h \ {b} : NextBlock(g, c) = NextBlock(h, c)
<1> DEFINE g == Taken(h, b, n)
           new == b + n + BLOCK_SIZE
<1>1. /\ new \in Nat /\ new \notin DOMAIN h /\ b < new /\ new < NextBlock(h, b)
      /\ DOMAIN g = DOMAIN h \cup {new}
      /\ g = [c \in DOMAIN g |-> g[c]]
      /\ g[new] = [size |-> h[b].size - n - BLOCK_SIZE, isNext |-> h[b].isNext, isF |-> TRUE]
      /\ g[b] = [size |-> n, isNext |-> TRUE, isF |-> FALSE]
      /\ \A c \in DOMAIN h \ {b} : g[c] = h[c]
  <2>1. SplitResult(h, b, n, new, g)
    BY SplitFields
  <2> QED
    BY <2>1 DEF SplitResult
<1>2. \A c \in DOMAIN h : /\ c \in Nat /\ c <= HeapSize - BLOCK_SIZE
                          /\ h[c] \in Header /\ h[c].isNext \in BOOLEAN
                          /\ h[c].size \in Nat
                          /\ NextBlock(h, c) \in Nat /\ NextBlock(h, c) > c
  BY HeaderTypes DEF Sound, WellTyped
<1>3. /\ g[b].size = n /\ g[b].isNext = TRUE
      /\ g[new].size = h[b].size - n - BLOCK_SIZE /\ g[new].isNext = h[b].isNext
  BY <1>1
<1>4. new <= HeapSize - BLOCK_SIZE
  <2>1. NextBlock(h, b) <= HeapSize
    BY DEF Sound, Tiled
  <2> QED
    BY <1>2, <2>1 DEF NextBlock
<1> HIDE DEF g
<1>5. /\ NextBlock(g, b) = new
      /\ NextBlock(g, new) = NextBlock(h, b)
  BY <1>2, <1>3 DEF NextBlock
<1>6. \A c \in DOMAIN h \ {b} : NextBlock(g, c) = NextBlock(h, c)
  BY <1>1 DEF NextBlock
<1> HIDE DEF new
<1>7. WellTyped(g)
  <2>1. g[new] \in Header /\ g[b] \in Header
    <3>1. h[b].size - n - BLOCK_SIZE \in Nat
      BY <1>2
    <3> QED
      BY <1>1, <1>2, <3>1 DEF Header
  <2>2. \A c \in DOMAIN g : g[c] \in Header
    BY <1>1, <1>2, <2>1
  <2>3. 0 \in DOMAIN g /\ DOMAIN g \subseteq 0..HeapSize - BLOCK_SIZE
    BY <1>1, <1>2, <1>4 DEF Sound, WellTyped
  <2> QED
    BY <1>1, <2>2, <2>3 DEF WellTyped
<1>8. Tiled(g)
  <2> SUFFICES ASSUME NEW c \in DOMAIN g
               PROVE  /\ NextBlock(g, c) <= HeapSize
                      /\ g[c].isNext => NextBlock(g, c) \in DOMAIN g
                      /\ ~g[c].isNext => NextBlock(g, c) = HeapSize
                      /\ \A d \in DOMAIN g : c < d => NextBlock(g, c) <= d
    BY DEF Tiled
  <2>1. CASE c = b
    <3>1. \A d \in DOMAIN g : b < d => new <= d
      BY <1>1, <1>2 DEF Sound, Tiled
    <3> QED
      BY <1>1, <1>3, <1>4, <1>5, <2>1, <3>1
  <2>2. CASE c = new
    <3>1. \A d \in DOMAIN g : new < d => NextBlock(h, b) <= d
      BY <1>1, <1>2 DEF Sound, Tiled
    <3> QED
      BY <1>1, <1>3, <1>5, <2>2, <3>1 DEF Sound, Tiled
  <2>3. CASE c \in DOMAIN h \ {b}
    <3>1. g[c].isNext = h[c].isNext /\ NextBlock(g, c) = NextBlock(h, c)
      BY <1>1, <1>6, <2>3
    <3>2. c < new => NextBlock(h, c) <= new
      <4>1. c < b \/ b < c
        BY <1>2, <2>3
      <4>2. c < b => NextBlock(h, c) <= b
        BY <2>3 DEF Sound, Tiled
      <4>3. b < c => NextBlock(h, b) <= c
        BY <2>3 DEF Sound, Tiled
      <4> QED
        BY <1>1, <1>2, <2>3, <4>1, <4>2, <4>3
    <3>3. \A d \in DOMAIN h : c < d => NextBlock(h, c) <= d
      BY <2>3 DEF Sound, Tiled
    <3> QED
      BY <1>1, <2>3, <3>1, <3>2, <3>3 DEF Sound, Tiled
  <2> QED
    BY <1>1, <2>1, <2>2, <2>3
<1> QED
  BY <1>5, <1>6, <1>7, <1>8 DEF g, new, Sound

\* g is h with block b and the next block nx merged.
MergeResult(h, b, nx, g) ==
  /\ Sound(g)
  /\ nx \in DOMAIN h /\ b # nx
  /\ DOMAIN g = DOMAIN h \ {nx}
  /\ g[b] = [size |-> h[b].size + h[nx].size + BLOCK_SIZE,
             isNext |-> h[nx].isNext, isF |-> h[b].isF]
  /\ NextBlock(g, b) = NextBlock(h, nx)
  /\ \A c \in DOMAIN g \ {b} : g[c] = h[c] /\ NextBlock(g, c) = NextBlock(h, c)

\* Merging a block with a free next block unlinks one header and keeps the
\* chain a tiling.
LEMMA MergeKeepsSound ==
  ASSUME NEW h, Sound(h), NEW b \in DOMAIN h, h[b].isNext, h[NextBlock(h, b)].isF
  PROVE  MergeResult(h, b, NextBlock(h, b), MergedWithNext(h, b))
<1> DEFINE g == MergedWithNext(h, b)
           nx == NextBlock(h, b)
<1>1. nx \in DOMAIN h
  BY DEF Sound, Tiled
<1>2. \A c \in DOMAIN h : /\ c \in Nat /\ c <= HeapSize - BLOCK_SIZE
                          /\ h[c] \in Header /\ h[c].isNext \in BOOLEAN
                          /\ h[c].isF \in BOOLEAN /\ h[c].size \in Nat
                          /\ NextBlock(h, c) \in Nat /\ NextBlock(h, c) > c
  BY HeaderTypes DEF Sound, WellTyped
<1>3. g = [c \in DOMAIN h \ {nx} |->
             IF c = b THEN [size |-> h[b].size + h[nx].size + BLOCK_SIZE,
                            isNext |-> h[nx].isNext, isF |-> h[b].isF]
             ELSE h[c]]
  BY DEF MergedWithNext
<1>4. b # nx
  BY <1>1, <1>2
<1>5. /\ DOMAIN g = DOMAIN h \ {nx}
      /\ g = [c \in DOMAIN g |-> g[c]]
      /\ g[b] = [size |-> h[b].size + h[nx].size + BLOCK_SIZE,
                 isNext |-> h[nx].isNext, isF |-> h[b].isF]
      /\ \A c \in DOMAIN g \ {b} : g[c] = h[c]
  BY <1>3, <1>4
<1>6. g[b].size = h[b].size + h[nx].size + BLOCK_SIZE /\ g[b].isNext = h[nx].isNext
  BY <1>5
<1> HIDE DEF g
<1>7. NextBlock(g, b) = NextBlock(h, nx)
  BY <1>1, <1>2, <1>6 DEF NextBlock
<1>8. \A c \in DOMAIN g \ {b} : NextBlock(g, c) = NextBlock(h, c)
  BY <1>5 DEF NextBlock
<1>9. WellTyped(g)
  <2>1. g[b] \in Header
    <3>1. h[b].size + h[nx].size + BLOCK_SIZE \in Nat
      BY <1>1, <1>2
    <3> QED
      BY <1>1, <1>2, <1>5, <3>1 DEF Header
  <2>2. \A c \in DOMAIN g : g[c] \in Header
    BY <1>2, <1>5, <2>1
  <2>3. 0 \in DOMAIN g
    BY <1>1, <1>2, <1>5 DEF Sound, WellTyped
  <2> QED
    BY <1>5, <2>2, <2>3 DEF Sound, WellTyped
<1>10. Tiled(g)
  <2> HIDE DEF nx
  <2> SUFFICES ASSUME NEW c \in DOMAIN g
               PROVE  /\ NextBlock(g, c) <= HeapSize
                      /\ g[c].isNext => NextBlock(g, c) \in DOMAIN g
                      /\ ~g[c].isNext => NextBlock(g, c) = HeapSize
                      /\ \A d \in DOMAIN g : c < d => NextBlock(g, c) <= d
    BY DEF Tiled
  <2>1. CASE c = b
    <3>1. \A d \in DOMAIN g : b < d => NextBlock(h, nx) <= d
      <4> SUFFICES ASSUME NEW d \in DOMAIN g, b < d PROVE NextBlock(h, nx) <= d
        OBVIOUS
      <4>1. nx <= d
        BY <1>5 DEF Sound, Tiled, nx
      <4>2. nx < d
        BY <1>1, <1>2, <1>5, <4>1
      <4> QED
        BY <1>1, <1>5, <4>2 DEF Sound, Tiled
    <3>2. NextBlock(h, nx) # nx
      BY <1>1, <1>2
    <3> QED
      BY <1>1, <1>5, <1>6, <1>7, <2>1, <3>1, <3>2 DEF Sound, Tiled
  <2>2. CASE c # b
    <3>1. c \in DOMAIN h /\ g[c] = h[c] /\ NextBlock(g, c) = NextBlock(h, c)
      BY <1>5, <1>8, <2>2
    <3>2. NextBlock(h, c) # nx
      BY <2>2, <3>1, OnePrevious DEF nx
    <3> QED
      BY <1>5, <3>1, <3>2 DEF Sound, Tiled
  <2> QED
    BY <2>1, <2>2
<1> QED
  BY <1>1, <1>4, <1>5, <1>7, <1>8, <1>9, <1>10 DEF g, Sound, MergeResult

\* Taking a block that fits keeps the whole invariant.
LEMMA TakenKeepsInvariant ==
  ASSUME NEW h, Sound(h), Coalesced(h), NEW n \in Nat, NEW b \in DOMAIN h, Fits(h, b, n)
  PROVE  Sound(Taken(h, b, n)) /\ Coalesced(Taken(h, b, n))
<1> DEFINE g == Taken(h, b, n)
<1>1. h[b].size \in Nat
  BY HeaderTypes DEF Sound
<1>2. CASE h[b].size = n
  <2>1. g = Marked(h, b, FALSE)
    BY <1>2 DEF Taken
  <2>2. /\ Sound(g) /\ DOMAIN g = DOMAIN h
        /\ \A c \in DOMAIN h : NextBlock(g, c) = NextBlock(h, c)
    BY <2>1, MarkKeepsSound
  <2>3. \A c \in DOMAIN h : g[c].isNext = h[c].isNext /\ (g[c].isF => h[c].isF)
    BY <2>1 DEF Marked
  <2>4. Coalesced(g)
    <3> HIDE DEF g
    <3> QED
      BY <2>2, <2>3 DEF Coalesced, Sound, Tiled
  <2> QED
    BY <2>2, <2>4
<1>3. CASE h[b].size # n
  <2> DEFINE new == b + n + BLOCK_SIZE
  <2>1. h[b].size >= n + BLOCK_SIZE /\ h[b].isF
    BY <1>3 DEF Fits
  <2>2. /\ new \notin DOMAIN h
        /\ DOMAIN g = DOMAIN h \cup {new}
        /\ g[new].isNext = h[b].isNext
        /\ g[b].isF = FALSE
        /\ \A c \in DOMAIN h \ {b} : g[c] = h[c]
    <3>1. SplitResult(h, b, n, new, g)
      BY <2>1, SplitFields
    <3> HIDE DEF g, new
    <3> QED
      BY <3>1 DEF SplitResult
  <2>3. /\ Sound(g)
        /\ NextBlock(g, b) = new
        /\ NextBlock(g, new) = NextBlock(h, b)
        /\ \A c \in DOMAIN h \ {b} : NextBlock(g, c) = NextBlock(h, c)
    BY <2>1, SplitKeepsSound
  <2>4. Coalesced(g)
    <3> HIDE DEF g, new
    <3> SUFFICES ASSUME NEW c \in DOMAIN g, g[c].isF, g[c].isNext
                 PROVE  ~g[NextBlock(g, c)].isF
      BY DEF Coalesced
    <3>1. c # b
      BY <2>2
    <3>2. CASE c = new
      <4>1. NextBlock(h, b) \in DOMAIN h /\ NextBlock(h, b) # b
        BY <2>2, <3>2, HeaderTypes DEF Sound, Tiled
      <4>2. ~h[NextBlock(h, b)].isF
        BY <2>1, <2>2, <3>2 DEF Coalesced
      <4> QED
        BY <2>2, <2>3, <3>2, <4>1, <4>2
    <3>3. CASE c # new
      <4>1. /\ c \in DOMAIN h \ {b} /\ h[c].isF /\ h[c].isNext
            /\ NextBlock(g, c) = NextBlock(h, c)
        BY <2>2, <2>3, <3>1, <3>3
      <4>2. NextBlock(h, c) \in DOMAIN h /\ ~h[NextBlock(h, c)].isF
        BY <4>1 DEF Coalesced, Sound, Tiled
      <4> QED
        BY <2>2, <4>1, <4>2
    <3> QED
      BY <3>2, <3>3
  <2> QED
    BY <2>3, <2>4
<1> QED
  BY <1>2, <1>3

\* freeAndMerge keeps the whole invariant: merging with the next block comes
\* first, and then at most the previous block still has a free neighbour.
LEMMA FreeKeepsInvariant ==
  ASSUME NEW h, Sound(h), Coalesced(h), NEW b \in DOMAIN h
  PROVE  Sound(FreeAndMerge(h, b)) /\ Coalesced(FreeAndMerge(h, b))
<1> DEFINE m == Marked(h, b, TRUE)
           g == MergedWithNext(m, b)
<1>1. /\ Sound(m) /\ DOMAIN m = DOMAIN h
      /\ \A c \in DOMAIN h : NextBlock(m, c) = NextBlock(h, c)
  BY MarkKeepsSound
<1>2. /\ m[b].isF /\ m[b].isNext = h[b].isNext
      /\ \A c \in DOMAIN h \ {b} : m[c] = h[c]
  BY DEF Marked
<1>3. \A c \in DOMAIN h : NextBlock(h, c) # c /\ h[c].isF \in BOOLEAN /\ h[c].isNext \in BOOLEAN
  BY HeaderTypes DEF Sound
<1> HIDE DEF m
\* Facts about g that hold whether or not the next block was free.
<1>4. /\ Sound(g) /\ b \in DOMAIN g /\ g[b].isF
      /\ g[b].isNext => ~g[NextBlock(g, b)].isF
      /\ \A c \in DOMAIN g : g[c].isF /\ g[c].isNext /\ NextBlock(g, c) # b
           => ~g[NextBlock(g, c)].isF
  <2>1. CASE m[b].isNext /\ m[NextBlock(m, b)].isF
    <3> DEFINE nx == NextBlock(m, b)
    <3>0. MergeResult(m, b, nx, g)
      BY <1>1, <2>1, MergeKeepsSound
    <3> HIDE DEF g, nx
    <3>1. /\ Sound(g) /\ nx \in DOMAIN m /\ b # nx
          /\ DOMAIN g = DOMAIN m \ {nx}
          /\ g[b] = [size |-> m[b].size + m[nx].size + BLOCK_SIZE,
                     isNext |-> m[nx].isNext, isF |-> m[b].isF]
          /\ NextBlock(g, b) = NextBlock(m, nx)
          /\ \A c \in DOMAIN g \ {b} : g[c] = m[c] /\ NextBlock(g, c) = NextBlock(m, c)
      BY <3>0 DEF MergeResult
    <3>2. g[b].isNext = m[nx].isNext /\ g[b].isF
      BY <1>2, <3>1
    <3>3. m[nx] = h[nx] /\ h[nx].isF
      BY <1>1, <1>2, <2>1, <3>1 DEF nx
    <3>4. ASSUME g[b].isNext PROVE ~g[NextBlock(g, b)].isF
      <4>1. NextBlock(h, nx) \in DOMAIN h /\ ~h[NextBlock(h, nx)].isF
        BY <1>1, <3>1, <3>2, <3>3, <3>4 DEF Coalesced, Sound, Tiled
      <4>2. NextBlock(h, nx) # b /\ NextBlock(h, nx) # nx
        <5>1. nx \in Nat /\ b \in Nat /\ nx > b /\ NextBlock(h, nx) > nx /\ NextBlock(h, nx) \in Nat
          BY <1>1, <3>1, HeaderTypes DEF nx, Sound
        <5> QED
          BY <5>1
      <4> QED
        BY <1>1, <1>2, <3>1, <4>1, <4>2
    <3>5. ASSUME NEW c \in DOMAIN g, g[c].isF, g[c].isNext, NextBlock(g, c) # b
          PROVE  ~g[NextBlock(g, c)].isF
      <4>1. CASE c = b
        BY <3>4, <3>5, <4>1
      <4>2. CASE c # b
        <5>1. c \in DOMAIN h /\ g[c] = h[c] /\ NextBlock(g, c) = NextBlock(h, c)
          BY <1>1, <1>2, <3>1, <4>2
        <5>2. NextBlock(h, c) # nx
          BY <1>1, <4>2, <5>1, OnePrevious DEF nx
        <5>3. NextBlock(h, c) \in DOMAIN h /\ ~h[NextBlock(h, c)].isF
          BY <3>5, <5>1 DEF Coalesced, Sound, Tiled
        <5> QED
          BY <1>1, <1>2, <3>1, <3>5, <5>1, <5>2, <5>3
      <4> QED
        BY <4>1, <4>2
    <3> QED
      BY <1>1, <3>1, <3>2, <3>4, <3>5
  <2>2. CASE ~(m[b].isNext /\ m[NextBlock(m, b)].isF)
    <3>1. g = m
      BY <2>2 DEF MergedWithNext
    <3>2. ASSUME NEW c \in DOMAIN m, m[c].isF, m[c].isNext, NextBlock(m, c) # b
          PROVE  ~m[NextBlock(m, c)].isF
      <4>1. CASE c = b
        BY <2>2, <3>2, <4>1
      <4>2. CASE c # b
        <5>1. NextBlock(h, c) \in DOMAIN h /\ ~h[NextBlock(h, c)].isF
          BY <1>1, <1>2, <3>2, <4>2 DEF Coalesced, Sound, Tiled
        <5> QED
          BY <1>1, <1>2, <3>2, <4>2, <5>1
      <4> QED
        BY <4>1, <4>2
    <3> QED
      BY <1>1, <1>2, <2>2, <3>1, <3>2
  <2> QED
    BY <2>1, <2>2
<1>5. FreeAndMerge(h, b) = IF FreePrevious(g, b) = {} THEN g
                           ELSE MergedWithNext(g, CHOOSE p \in FreePrevious(g, b) : TRUE)
  BY DEF FreeAndMerge, m
<1> HIDE DEF g
<1>6. CASE FreePrevious(g, b) = {}
  <2>1. Coalesced(g)
    BY <1>4, <1>6 DEF Coalesced, FreePrevious
  <2> QED
    BY <1>4, <1>5, <1>6, <2>1
<1>7. CASE FreePrevious(g, b) # {}
  <2> DEFINE p == CHOOSE q \in FreePrevious(g, b) : TRUE
             k == MergedWithNext(g, p)
  <2>1. p \in DOMAIN g /\ g[p].isNext /\ NextBlock(g, p) = b /\ g[p].isF
    BY <1>7 DEF FreePrevious
  <2> HIDE DEF p
  <2>2. /\ Sound(k) /\ p # b
        /\ DOMAIN k = DOMAIN g \ {b}
        /\ k[p] = [size |-> g[p].size + g[b].size + BLOCK_SIZE,
                   isNext |-> g[b].isNext, isF |-> g[p].isF]
        /\ NextBlock(k, p) = NextBlock(g, b)
        /\ \A c \in DOMAIN k \ {p} : k[c] = g[c] /\ NextBlock(k, c) = NextBlock(g, c)
    <3>1. Sound(g) /\ p \in DOMAIN g /\ g[p].isNext /\ g[NextBlock(g, p)].isF
      BY <1>4, <2>1
    <3>2. MergeResult(g, p, NextBlock(g, p), k)
      BY <3>1, MergeKeepsSound
    <3> HIDE DEF k
    <3> QED
      BY <2>1, <3>2 DEF MergeResult
  <2> HIDE DEF k
  <2>3. Coalesced(k)
    <3> SUFFICES ASSUME NEW c \in DOMAIN k, k[c].isF, k[c].isNext
                 PROVE  ~k[NextBlock(k, c)].isF
      BY DEF Coalesced
    <3>1. CASE c = p
      <4>1. g[b].isNext
        BY <2>2, <3>1
      <4>2. NextBlock(g, b) \in DOMAIN g /\ ~g[NextBlock(g, b)].isF
        BY <1>4, <4>1 DEF Sound, Tiled
      <4>3. NextBlock(g, b) # b /\ NextBlock(g, b) # p
        BY <1>4, <2>1, <4>2
      <4> QED
        BY <2>2, <3>1, <4>2, <4>3
    <3>2. CASE c # p
      <4>1. c \in DOMAIN g /\ k[c] = g[c] /\ NextBlock(k, c) = NextBlock(g, c)
        BY <2>2, <3>2
      <4>2. NextBlock(g, c) # b
        BY <1>4, <2>1, <3>2, <4>1, OnePrevious
      <4>3. NextBlock(g, c) \in DOMAIN g /\ ~g[NextBlock(g, c)].isF
        BY <1>4, <4>1, <4>2 DEF Sound, Tiled
      <4>4. NextBlock(g, c) # p
        BY <2>1, <4>3
      <4> QED
        BY <2>2, <4>1, <4>2, <4>3, <4>4
    <3> QED
      BY <3>1, <3>2
  <2> QED
    BY <1>5, <1>7, <2>2, <2>3 DEF p, k
<1> QED
  BY <1>6, <1>7

\* The invariant is inductive, whatever the callers ask for and free.
THEOREM HeapInvariant == Spec => []HeapInv
<1>1. Init => HeapInv
  <2> SUFFICES ASSUME Init PROVE HeapInv
    OBVIOUS
  <2>1. /\ DOMAIN heap = {0}
        /\ heap[0] = [size |-> HeapSize - BLOCK_SIZE, isNext |-> FALSE, isF |-> TRUE]
        /\ heap = [b \in DOMAIN heap |-> heap[b]]
    BY DEF Init
  <2>2. heap[0] \in Header /\ heap[0].size = HeapSize - BLOCK_SIZE /\ ~heap[0].isNext
    BY <2>1 DEF Header
  <2>3. NextBlock(heap, 0) = HeapSize
    BY <2>2 DEF NextBlock
  <2>4. WellTyped(heap)
    <3>1. \A b \in DOMAIN heap : heap[b] \in Header
      BY <2>1, <2>2
    <3>2. heap \in [DOMAIN heap -> Header]
      BY <2>1, <3>1
    <3>3. 0 \in 0..HeapSize - BLOCK_SIZE
      OBVIOUS
    <3> QED
      BY <2>1, <3>2, <3>3 DEF WellTyped
  <2>5. Tiled(heap)
    BY <2>1, <2>2, <2>3 DEF Tiled
  <2>6. Coalesced(heap)
    BY <2>1, <2>2 DEF Coalesced
  <2> QED
    BY <2>4, <2>5, <2>6 DEF HeapInv, Sound
<1>2. HeapInv /\ [Next]_heap => HeapInv'
  <2> SUFFICES ASSUME HeapInv, [Next]_heap PROVE HeapInv'
    OBVIOUS
  <2>1. ASSUME NEW n \in Sizes, Allocate(n) PROVE HeapInv'
    <3>1. PICK b \in DOMAIN heap : Fits(heap, b, n) /\ heap' = Taken(heap, b, n)
      BY <2>1 DEF Allocate, FirstFit
    <3> QED
      BY <3>1, TakenKeepsInvariant DEF HeapInv
  <2>2. ASSUME NEW p \in 0..HeapSize, Deallocate(p) PROVE HeapInv'
    BY <2>2, FreeKeepsInvariant DEF Deallocate, HeapInv
  <2>3. CASE UNCHANGED heap
    BY <2>3 DEF HeapInv
  <2> QED
    BY <2>1, <2>2, <2>3 DEF Next, AllocateFails, DeallocateRejected
<1> QED
  BY <1>1, <1>2, PTL DEF Spec

\* Every header reachable by myallocate and mydeallocate is well formed.
THEOREM TypeCorrect == Spec => []TypeOK
<1>1. HeapInv => TypeOK
  BY DEF HeapInv, Sound, WellTyped, TypeOK
<1> QED
  BY <1>1, HeapInvariant, PTL

\* getNextBlock always leads to a header or to the end of the arena.
THEOREM ChainAlwaysTilesHeap == Spec => []ChainTilesHeap
<1>1. HeapInv => ChainTilesHeap
  BY DEF HeapInv, Sound, ChainTilesHeap
<1> QED
  BY <1>1, HeapInvariant, PTL

\* Sizes never outgrow the 24 bits of their field, so that no header is garbled
\* when it is packed into its word.
THEOREM HeadersFitWords == Spec => []WordsKeepHeaders
<1>1. ASSUME HeapInv PROVE WordsKeepHeaders
  <2>1. ASSUME NEW b \in DOMAIN heap
        PROVE  heap[b] \in [size : Nat, isNext : BOOLEAN, isF : BOOLEAN] /\ heap[b].size < 2^24
    <3>1. heap[b] \in Header /\ b \in Nat
      BY <1>1 DEF HeapInv, Sound, WellTyped
    <3>2. b + heap[b].size + BLOCK_SIZE <= HeapSize
      BY <1>1 DEF HeapInv, Sound, Tiled, NextBlock
    <3>3. heap[b].size \in Nat
      BY <3>1 DEF Header
    <3>4. HeapSize \in Nat /\ BLOCK_SIZE \in Nat \ {0}
      BY LibHeapAssumption
    <3>5. HeapSize <= 16777216
      BY SizeFieldAssumption, Powers
    <3>6. heap[b].size < 16777216
      BY <3>1, <3>2, <3>3, <3>4, <3>5
    <3> QED
      BY <3>1, <3>6, Powers DEF Header
  <2>2. ASSUME NEW b \in DOMAIN heap, NEW c \in DOMAIN heap
        PROVE  UnpackBlock(PackBlock(PackBlock(0, heap[c]), heap[b])) = heap[b]
    <3>1. PackBlock(0, heap[c]) \in Nat
      BY <2>1, BlockWordsFaithful
    <3> QED
      BY <2>1, <3>1, BlockWordsFaithful
  <2> QED
    BY <2>2 DEF WordsKeepHeaders
<1> QED
  BY <1>1, HeapInvariant, PTL

\* freeAndMerge leaves no two free blocks side by side.
THEOREM NeverFreeNeighbours == Spec => []NoFreeNeighbours
<1>1. HeapInv => NoFreeNeighbours
  BY DEF HeapInv, NoFreeNeighbours
<1> QED
  BY <1>1, HeapInvariant, PTL

\* Once everything is freed the heap is the one initializeRoot made.
THEOREM NothingLeaks == Spec => []FreedHeapIsRoot
<1>1. HeapInv => FreedHeapIsRoot
  <2> SUFFICES ASSUME HeapInv, \A b \in DOMAIN heap : heap[b].isF PROVE Init
    BY DEF FreedHeapIsRoot
  <2>1. \A b \in DOMAIN heap : b \in Nat /\ b <= HeapSize - BLOCK_SIZE
    BY HeaderTypes DEF HeapInv, Sound
  <2>2. 0 \in DOMAIN heap
    BY DEF HeapInv, Sound, WellTyped
  <2>3. heap[0].isNext = FALSE /\ NextBlock(heap, 0) = HeapSize
    <3>1. heap[0].isNext \in BOOLEAN
      BY <2>2, HeaderTypes DEF HeapInv, Sound
    <3>2. ~heap[0].isNext
      BY <2>2 DEF HeapInv, Sound, Tiled, Coalesced
    <3> QED
      BY <2>2, <3>1, <3>2 DEF HeapInv, Sound, Tiled
  <2>4. DOMAIN heap = {0}
    <3>1. \A c \in DOMAIN heap : 0 < c => HeapSize <= c
      BY <2>2, <2>3 DEF HeapInv, Sound, Tiled
    <3> QED
      BY <2>1, <2>2, <3>1
  <2>5. heap[0].size = HeapSize - BLOCK_SIZE /\ heap[0].isF = TRUE
    <3>1. heap[0].size \in Nat /\ heap[0].isF \in BOOLEAN
      BY <2>2, HeaderTypes DEF HeapInv, Sound
    <3> QED
      BY <2>2, <2>3, <3>1 DEF NextBlock
  <2>6. heap[0] = [size |-> HeapSize - BLOCK_SIZE, isNext |-> FALSE, isF |-> TRUE]
    BY <2>2, <2>3, <2>5, HeaderTypes DEF HeapInv, Sound
  <2>7. heap = [b \in DOMAIN heap |-> heap[b]]
    BY DEF HeapInv, Sound, WellTyped
  <2> QED
    BY <2>4, <2>6, <2>7 DEF Init
<1> QED
  BY <1>1, HeapInvariant, PTL

\* In a coalesced heap the block in front of a free one is taken.
LEMMA NoFreePrevious ==
  ASSUME NEW h, Coalesced(h), NEW b, h[b].isF
  PROVE  FreePrevious(h, b) = {}
BY DEF FreePrevious, Coalesced

\* A free block has no free block behind it either, so merging it does nothing.
LEMMA NothingToMerge ==
  ASSUME NEW h, Coalesced(h), NEW b \in DOMAIN h, h[b].isF
  PROVE  MergedWithNext(h, b) = h
BY DEF MergedWithNext, Coalesced

\* Freeing a block that was just taken restores the heap.
LEMMA FreeUndoesTaken ==
  ASSUME NEW h, Sound(h), Coalesced(h), NEW n \in Nat, NEW b \in DOMAIN h, Fits(h, b, n)
  PROVE  FreeAndMerge(Taken(h, b, n), b) = h
<1> DEFINE t == Taken(h, b, n)
           m == Marked(t, b, TRUE)
<1>1. /\ h = [c \in DOMAIN h |-> h[c]]
      /\ h[b] = [size |-> h[b].size, isNext |-> h[b].isNext, isF |-> TRUE]
      /\ h[b].size \in Nat /\ h[b].isNext \in BOOLEAN
  BY HeaderTypes DEF Sound, WellTyped, Fits
<1>2. MergedWithNext(m, b) = h
  <2>1. CASE h[b].size = n
    <3>1. t = [c \in DOMAIN h |-> IF c = b THEN [size |-> h[b].size, isNext |-> h[b].isNext,
                                                 isF |-> FALSE] ELSE h[c]]
      BY <1>1, <2>1 DEF Taken, Marked
    <3>2. t[b].size = h[b].size /\ t[b].isNext = h[b].isNext
      BY <3>1
    <3>3. m = [c \in DOMAIN h |-> IF c = b THEN [size |-> h[b].size, isNext |-> h[b].isNext,
                                                 isF |-> TRUE] ELSE h[c]]
      BY <3>1, <3>2 DEF Marked
    <3>4. m = h
      BY <1>1, <3>3
    <3> QED
      BY <3>4, NothingToMerge DEF Fits
  <2>2. CASE h[b].size # n
    <3> DEFINE new == b + n + BLOCK_SIZE
    <3>1. h[b].size \in Nat /\ h[b].isF /\ h[b].size >= n + BLOCK_SIZE
      BY <1>1, <2>2 DEF Fits
    <3>2. SplitResult(h, b, n, new, t)
      BY <3>1, SplitFields
    <3> HIDE DEF t, new
    <3>3. /\ DOMAIN m = DOMAIN h \cup {new}
          /\ m[b] = [size |-> t[b].size, isNext |-> t[b].isNext, isF |-> TRUE]
          /\ m[new] = t[new]
          /\ \A c \in DOMAIN h \ {b} : m[c] = h[c]
      BY <3>2 DEF Marked, SplitResult
    <3> HIDE DEF m
    <3>4. /\ m[b].size = n /\ m[b].isNext = TRUE /\ m[b].isF = TRUE
          /\ m[new].size = h[b].size - n - BLOCK_SIZE
          /\ m[new].isNext = h[b].isNext /\ m[new].isF = TRUE
      <4>1. /\ t[b].size = n /\ t[b].isNext = TRUE
            /\ t[new].size = h[b].size - n - BLOCK_SIZE
            /\ t[new].isNext = h[b].isNext /\ t[new].isF = TRUE
        BY <3>2 DEF SplitResult
      <4> QED
        BY <3>3, <4>1
    <3>5. b \in Nat
      BY HeaderTypes DEF Sound
    <3>6. NextBlock(m, b) = new
      BY <3>4, <3>5 DEF NextBlock, new
    <3>7. n + (h[b].size - n - BLOCK_SIZE) + BLOCK_SIZE = h[b].size
      BY <1>1
    <3>8. MergedWithNext(m, b) =
            [c \in DOMAIN h |->
               IF c = b THEN [size |-> h[b].size, isNext |-> h[b].isNext, isF |-> TRUE]
               ELSE h[c]]
      <4>1. DOMAIN m \ {new} = DOMAIN h
        BY <3>2, <3>3 DEF SplitResult
      <4>2. MergedWithNext(m, b) =
              [c \in DOMAIN m \ {new} |->
                 IF c = b THEN [size |-> m[b].size + m[new].size + BLOCK_SIZE,
                                isNext |-> m[new].isNext, isF |-> m[b].isF]
                 ELSE m[c]]
        BY <3>4, <3>6 DEF MergedWithNext
      <4>3. m[b].size + m[new].size + BLOCK_SIZE = h[b].size
        BY <3>4, <3>7
      <4> QED
        BY <3>3, <3>4, <4>1, <4>2, <4>3
    <3> QED
      BY <1>1, <3>8
  <2> QED
    BY <2>1, <2>2
<1>3. FreePrevious(h, b) = {}
  BY NoFreePrevious DEF Fits
<1> QED
  BY <1>2, <1>3 DEF FreeAndMerge

\* freeAndMerge of the block that myallocate just returned restores the heap.
THEOREM FreeAlwaysUndoesAllocate == Spec => []FreeUndoesAllocate
<1>1. HeapInv => FreeUndoesAllocate
  BY FreeUndoesTaken DEF HeapInv, FreeUndoesAllocate, FirstFit
<1> QED
  BY <1>1, HeapInvariant, PTL

\* Merging a free block with its next block, whatever that one is, leaves the
\* taken blocks as they are.
LEMMA MergeKeepsTaken ==
  ASSUME NEW h, Sound(h), NEW b \in DOMAIN h, h[b].isF
  PROVE  LET g == MergedWithNext(h, b)
         IN  /\ Sound(g) /\ b \in DOMAIN g
             /\ \A c : c \in DOMAIN g /\ ~g[c].isF <=> c \in DOMAIN h /\ ~h[c].isF
             /\ \A c \in DOMAIN g : ~g[c].isF => g[c] = h[c]
<1> DEFINE g == MergedWithNext(h, b)
           nx == NextBlock(h, b)
<1>1. CASE h[b].isNext /\ h[nx].isF
  <2>1. MergeResult(h, b, nx, g)
    BY <1>1, MergeKeepsSound
  <2> HIDE DEF g, nx
  <2>2. g[b].isF
    BY <2>1 DEF MergeResult
  <2>3. /\ \A c : c \in DOMAIN g /\ ~g[c].isF <=> c \in DOMAIN h /\ ~h[c].isF
        /\ \A c \in DOMAIN g : ~g[c].isF => g[c] = h[c]
    BY <1>1, <2>1, <2>2 DEF MergeResult
  <2> QED
    BY <2>1, <2>3 DEF g, MergeResult
<1>2. CASE ~(h[b].isNext /\ h[nx].isF)
  BY <1>2 DEF MergedWithNext
<1> QED
  BY <1>1, <1>2

\* freeAndMerge takes exactly one block out of the taken ones.
LEMMA FreeRemovesOne ==
  ASSUME NEW h, Sound(h), NEW b \in DOMAIN h
  PROVE  LET g == FreeAndMerge(h, b)
         IN  /\ \A c : c \in DOMAIN g /\ ~g[c].isF <=> c \in DOMAIN h /\ ~h[c].isF /\ c # b
             /\ \A c \in DOMAIN g : ~g[c].isF => g[c] = h[c]
<1> DEFINE m == Marked(h, b, TRUE)
           k == MergedWithNext(m, b)
           p == CHOOSE q \in FreePrevious(k, b) : TRUE
           g == FreeAndMerge(h, b)
<1>1. Sound(m) /\ DOMAIN m = DOMAIN h
  BY MarkKeepsSound
<1>2. m[b].isF /\ \A c \in DOMAIN h \ {b} : m[c] = h[c]
  BY DEF Marked
<1> HIDE DEF m
<1>3. /\ Sound(k) /\ b \in DOMAIN k
      /\ \A c : c \in DOMAIN k /\ ~k[c].isF <=> c \in DOMAIN m /\ ~m[c].isF
      /\ \A c \in DOMAIN k : ~k[c].isF => k[c] = m[c]
  BY <1>1, <1>2, MergeKeepsTaken
<1>4. g = IF FreePrevious(k, b) = {} THEN k ELSE MergedWithNext(k, p)
  BY DEF FreeAndMerge, m
<1> HIDE DEF k
<1>5. /\ \A c : c \in DOMAIN g /\ ~g[c].isF <=> c \in DOMAIN k /\ ~k[c].isF
      /\ \A c \in DOMAIN g : ~g[c].isF => g[c] = k[c]
  <2>1. CASE FreePrevious(k, b) = {}
    BY <1>4, <2>1
  <2>2. CASE FreePrevious(k, b) # {}
    <3>1. p \in DOMAIN k /\ k[p].isF
      BY <2>2 DEF FreePrevious
    <3> HIDE DEF p, g
    <3>2. g = MergedWithNext(k, p)
      BY <1>4, <2>2
    <3> QED
      BY <1>3, <3>1, <3>2, MergeKeepsTaken
  <2> QED
    BY <2>1, <2>2
<1> HIDE DEF g
<1>6. \A c : c \in DOMAIN g /\ ~g[c].isF <=> c \in DOMAIN h /\ ~h[c].isF /\ c # b
  BY <1>1, <1>2, <1>3, <1>5
<1>7. \A c \in DOMAIN g : ~g[c].isF => g[c] = h[c]
  BY <1>1, <1>2, <1>3, <1>5
<1> QED
  BY <1>6, <1>7 DEF g

-----------------------------------------------------------------------------
(* The refinement.                                                         *)

TakenBlocks(h) == {c \in DOMAIN h : ~h[c].isF}

\* What Owned is, block by block.
OwnedIs(h, o) ==
  /\ DOMAIN o = {b + BLOCK_SIZE : b \in TakenBlocks(h)}
  /\ \A b \in DOMAIN h : b + BLOCK_SIZE \in DOMAIN o <=> b \in TakenBlocks(h)
  /\ \A b \in TakenBlocks(h) : o[b + BLOCK_SIZE] = h[b].size
  /\ o = [q \in DOMAIN o |-> o[q]]

\* The pointers owned are those of the taken blocks, with the blocks' sizes.
LEMMA OwnedBlocks ==
  ASSUME NEW h, WellTyped(h)
  PROVE  OwnedIs(h, Owned(h))
<1>1. \A b \in DOMAIN h : b \in Nat
  BY HeaderTypes
<1>2. DOMAIN Owned(h) = {b + BLOCK_SIZE : b \in TakenBlocks(h)}
  BY DEF Owned, TakenBlocks
<1>3. \A b \in DOMAIN h : b + BLOCK_SIZE \in DOMAIN Owned(h) <=> b \in TakenBlocks(h)
  BY <1>1, <1>2 DEF TakenBlocks
<1>4. \A b \in TakenBlocks(h) : Owned(h)[b + BLOCK_SIZE] = h[b].size
  <2> SUFFICES ASSUME NEW b \in TakenBlocks(h)
               PROVE  Owned(h)[b + BLOCK_SIZE] = h[b].size
    OBVIOUS
  <2>1. b \in Nat /\ (b + BLOCK_SIZE) - BLOCK_SIZE = b
    BY <1>1 DEF TakenBlocks
  <2>2. b + BLOCK_SIZE \in {c + BLOCK_SIZE : c \in {d \in DOMAIN h : ~h[d].isF}}
    BY DEF TakenBlocks
  <2>3. Owned(h)[b + BLOCK_SIZE] = h[(b + BLOCK_SIZE) - BLOCK_SIZE].size
    BY <2>2 DEF Owned
  <2> QED
    BY <2>1, <2>3
<1>5. Owned(h) = [q \in DOMAIN Owned(h) |-> Owned(h)[q]]
  BY DEF Owned
<1> QED
  BY <1>2, <1>3, <1>4, <1>5 DEF OwnedIs

\* An allocation is a Malloc step: the first fit lies clear of all that is taken.
LEMMA AllocateRefines ==
  ASSUME HeapInv, HeapInv', NEW n \in Sizes, Allocate(n)
  PROVE  Abstract!Malloc(n)
<1>1. PICK b \in DOMAIN heap : Fits(heap, b, n) /\ heap' = Taken(heap, b, n)
  BY DEF Allocate, FirstFit
<1> DEFINE p == b + BLOCK_SIZE
           T == TakenBlocks(heap)
           o == Owned(heap)
           r == Owned(heap')
<1>0. OwnedIs(heap, o) /\ OwnedIs(heap', r)
  BY OwnedBlocks DEF HeapInv, Sound
<1> HIDE DEF o, r
<1>2. /\ n \in Nat /\ b \in Nat /\ heap[b].size \in Nat /\ heap[b].isF
      /\ n <= heap[b].size /\ b \notin T
      /\ NextBlock(heap, b) <= HeapSize /\ NextBlock(heap, b) \in Nat
  BY <1>1, HeaderTypes DEF Fits, HeapInv, Sound, Tiled, TakenBlocks
<1>3. p \in 0..HeapSize /\ p + n <= HeapSize /\ p + n <= NextBlock(heap, b)
  BY <1>2 DEF NextBlock
<1>4. p \notin DOMAIN o
  BY <1>0, <1>1, <1>2 DEF OwnedIs
<1>5. \A q \in DOMAIN o : Abstract!Disjoint(p, n, q, o[q])
  <2> SUFFICES ASSUME NEW q \in DOMAIN o PROVE p + n <= q \/ q + o[q] <= p
    BY DEF Abstract!Disjoint
  <2>1. PICK c \in T : q = c + BLOCK_SIZE
    BY <1>0 DEF OwnedIs
  <2>2. c \in DOMAIN heap /\ c # b /\ o[q] = heap[c].size
    BY <1>0, <1>2, <2>1 DEF OwnedIs, TakenBlocks
  <2>3. c \in Nat /\ heap[c].size \in Nat
    BY <2>2, HeaderTypes DEF HeapInv, Sound
  <2>4. CASE c < b
    <3>1. NextBlock(heap, c) <= b
      BY <2>2, <2>4 DEF HeapInv, Sound, Tiled
    <3> QED
      BY <1>2, <2>1, <2>2, <2>3, <3>1 DEF NextBlock
  <2>5. CASE b < c
    <3>1. NextBlock(heap, b) <= c
      BY <2>2, <2>5 DEF HeapInv, Sound, Tiled
    <3> QED
      BY <1>2, <1>3, <2>1, <2>3, <3>1
  <2> QED
    BY <1>2, <2>2, <2>3, <2>4, <2>5
<1>6. TakenBlocks(heap') = T \cup {b} /\ heap'[b].size = n /\ \A c \in T : heap'[c] = heap[c]
  <2>1. CASE heap[b].size = n
    <3>1. heap' = Marked(heap, b, FALSE)
      BY <1>1, <2>1 DEF Taken
    <3> QED
      BY <1>2, <2>1, <3>1 DEF Marked, TakenBlocks
  <2>2. CASE heap[b].size # n
    <3> DEFINE new == b + n + BLOCK_SIZE
    <3>1. heap[b].isF /\ heap[b].size \in Nat /\ heap[b].size >= n + BLOCK_SIZE
      BY <1>1, <1>2, <2>2 DEF Fits
    <3>2. SplitResult(heap, b, n, new, heap')
      BY <1>1, <1>2, <3>1, SplitFields DEF HeapInv
    <3> HIDE DEF new
    <3>3. heap'[new].isF /\ ~heap'[b].isF /\ heap'[b].size = n
      BY <3>2 DEF SplitResult
    <3> QED
      BY <1>2, <3>2, <3>3 DEF TakenBlocks, SplitResult
  <2> QED
    BY <2>1, <2>2
<1>7. r = [q \in DOMAIN o \cup {p} |-> IF q = p THEN n ELSE o[q]]
  <2>1. DOMAIN r = DOMAIN o \cup {p}
    BY <1>0, <1>6 DEF OwnedIs
  <2>2. r[p] = n
    BY <1>0, <1>6 DEF OwnedIs
  <2>3. \A q \in DOMAIN o : r[q] = o[q]
    BY <1>0, <1>6 DEF OwnedIs
  <2> QED
    BY <1>0, <1>4, <2>1, <2>2, <2>3 DEF OwnedIs
<1> QED
  BY <1>3, <1>4, <1>5, <1>7 DEF Abstract!Malloc, o, r

\* A free is a Free step: merging moves no header of another taken block.
LEMMA DeallocateRefines ==
  ASSUME HeapInv, HeapInv', NEW p \in 0..HeapSize, Deallocate(p)
  PROVE  Abstract!Free(p)
<1> DEFINE b == p - BLOCK_SIZE
           o == Owned(heap)
           r == Owned(heap')
<1>0. OwnedIs(heap, o) /\ OwnedIs(heap', r)
  BY OwnedBlocks DEF HeapInv, Sound
<1> HIDE DEF o, r
<1>1. b \in DOMAIN heap /\ ~heap[b].isF /\ heap' = FreeAndMerge(heap, b)
  BY DEF Deallocate
<1>2. b + BLOCK_SIZE = p
  OBVIOUS
<1> HIDE DEF b
<1>3. /\ TakenBlocks(heap') = TakenBlocks(heap) \ {b}
      /\ \A c \in TakenBlocks(heap') : heap'[c] = heap[c]
  BY <1>1, FreeRemovesOne DEF HeapInv, TakenBlocks
<1>4. \A c \in TakenBlocks(heap) : c + BLOCK_SIZE = p <=> c = b
  <2>1. \A c \in TakenBlocks(heap) : c \in Nat
    BY HeaderTypes DEF HeapInv, Sound, TakenBlocks
  <2>2. b \in Nat
    BY <1>1, HeaderTypes DEF HeapInv, Sound
  <2> QED
    BY <1>2, <2>1, <2>2
<1>5. p \in DOMAIN o
  BY <1>0, <1>1, <1>2 DEF OwnedIs, TakenBlocks
<1>6. DOMAIN r = DOMAIN o \ {p}
  BY <1>0, <1>3, <1>4 DEF OwnedIs
<1>7. \A q \in DOMAIN r : r[q] = o[q]
  BY <1>0, <1>3 DEF OwnedIs
<1>8. r = [q \in DOMAIN o \ {p} |-> o[q]]
  BY <1>0, <1>6, <1>7 DEF OwnedIs
<1> QED
  BY <1>5, <1>8 DEF Abstract!Free, o, r

\* The library heap implements the abstract allocator: what myallocate returns
\* overlaps no live allocation, and mydeallocate gives back just the one it names.
THEOREM HeapImplementsAllocator == Spec => ImplementsAllocator
<1>1. Init => Abstract!AInit
  <2> SUFFICES ASSUME Init PROVE Owned(heap) = [p \in {} |-> 0]
    BY DEF Abstract!AInit
  <2>1. {c \in DOMAIN heap : ~heap[c].isF} = {}
    BY DEF Init
  <2> QED
    BY <2>1 DEF Owned
<1>2. HeapInv /\ HeapInv' /\ [Next]_heap => [Abstract!ANext]_(Owned(heap))
  <2> SUFFICES ASSUME HeapInv, HeapInv', [Next]_heap
               PROVE  Abstract!ANext \/ UNCHANGED Owned(heap)
    OBVIOUS
  <2>1. ASSUME NEW n \in Sizes, Allocate(n) PROVE Abstract!ANext
    BY <2>1, AllocateRefines DEF Abstract!ANext
  <2>2. ASSUME NEW p \in 0..HeapSize, Deallocate(p) PROVE Abstract!ANext
    BY <2>2, DeallocateRefines DEF Abstract!ANext
  <2>3. CASE UNCHANGED heap
    BY <2>3
  <2> QED
    BY <2>1, <2>2, <2>3 DEF Next, AllocateFails, DeallocateRejected
<1> QED
  BY <1>1, <1>2, HeapInvariant, PTL DEF Spec, ImplementsAllocator, Abstract!ASpec
=============================================================================
