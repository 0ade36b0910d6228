-------------------------- MODULE PageTableProofs --------------------------
(***************************************************************************)
(* Proofs about the page table, and about the heaps of the threads as they *)
(* use it, for any number of threads, frames and slots and any sizes, and  *)
(* for clients that are Careful: they have their page 0 in place when they *)
(* call malloc or free, and do not ask for pages past the memory.          *)
(***************************************************************************)
EXTENDS ThreadHeap, WordsProofs, FiniteSetTheorems, TLAPS

\* What the proofs use of the constants.
LEMMA Constants ==
  /\ MaxThread \in Nat /\ MaxThread >= 1
  /\ NFrames \in Nat /\ NFrames >= 1
  /\ NSlots \in Nat
BY PageTableAssumption

\* The places are a finite set, so free places can be counted.
LEMMA PlaceFinite ==
  /\ Frames \subseteq Place
  /\ \A S \in SUBSET Place : IsFiniteSet(S) /\ Cardinality(S) \in Nat
<1>1. IsFiniteSet(Place)
  BY FS_Interval, Constants DEF Place
<1>2. Frames \subseteq Place
  BY Constants DEF Frames, Place
<1> QED
  BY <1>1, <1>2, FS_Subset, FS_CardinalityType

\* The tables that myallocate fills on its first call satisfy the invariant.
LEMMA InitInv == Init => PageInv
<1> SUFFICES ASSUME Init PROVE PageInv
  OBVIOUS
<1> USE Constants DEF Init
<1>1. TypeOK
  <2>1. table \in [Place -> Entry]
    BY DEF Entry
  <2>2. bytes \in [Place -> Page]
    BY DEF Page
  <2>3. pageNum \in [Thread -> 0..NFrames] /\ current \in Thread
    BY DEF Thread
  <2> QED
    BY <2>1, <2>2, <2>3 DEF TypeOK, PC
<1>2. TableInv
  BY DEF TableInv, OnePlace, NoPageLost, BytesFollowTable, FreeIsNobodys, UsedIsCounted,
         Thread, Place
<1>3. Isolation
  BY PlaceFinite DEF Isolation
<1> QED
  BY <1>1, <1>2, <1>3
  DEF PageInv, NoAlarmInside, GatherHasRoom, CurrentLives, GatherStaysInside, AlignedIsFirst

\* A rearrangement of the places that takes the bytes along keeps the table
\* sound: pageSwap, swapToMemFromDisk and alignPages.
LEMMA Rearranged ==
  ASSUME TypeOK, TableInv, NEW pi \in [Place -> Place],
         \A p, q \in Place : pi[p] = pi[q] => p = q,
         \A q \in Place : \E p \in Place : pi[p] = q,
         table' = [p \in Place |-> table[pi[p]]],
         bytes' = [p \in Place |-> bytes[pi[p]]],
         pageNum' = pageNum, dead' = dead, clobbered' = clobbered
  PROVE  TableInv' /\ table' \in [Place -> Entry] /\ bytes' \in [Place -> Page]
<1>1. \A p \in Place : table'[p] = table[pi[p]] /\ bytes'[p] = bytes[pi[p]]
  OBVIOUS
<1>2. table' \in [Place -> Entry] /\ bytes' \in [Place -> Page]
  BY DEF TypeOK
<1>3. OnePlace'
  BY <1>1 DEF TableInv, OnePlace
<1>4. NoPageLost'
  <2> SUFFICES ASSUME NEW t \in Thread \ dead, NEW n \in 0..pageNum[t] - 1
               PROVE  \E p \in Place : ~table'[p].free /\ table'[p].th = t /\ table'[p].pg = n
    BY DEF NoPageLost
  <2>1. PICK q \in Place : ~table[q].free /\ table[q].th = t /\ table[q].pg = n
    BY DEF TableInv, NoPageLost
  <2>2. PICK p \in Place : pi[p] = q
    OBVIOUS
  <2> QED
    BY <1>1, <2>1, <2>2
<1>5. BytesFollowTable'
  BY <1>1 DEF TableInv, BytesFollowTable
<1>6. FreeIsNobodys'
  BY <1>1 DEF TableInv, FreeIsNobodys
<1>7. UsedIsCounted'
  BY <1>1 DEF TableInv, UsedIsCounted
<1> QED
  BY <1>2, <1>3, <1>4, <1>5, <1>6, <1>7 DEF TableInv

\* exit() leaves everything as it was.
LEMMA ExitsInv ==
  ASSUME PageInv, Exits, need' \in 0..NFrames
  PROVE  PageInv'
<1>1. TypeOK'
  BY DEF PageInv, Exits, TypeOK, PC
<1>2. TableInv'
  BY DEF PageInv, Exits, TableInv, OnePlace, NoPageLost, BytesFollowTable, FreeIsNobodys,
         UsedIsCounted
<1> QED
  BY <1>1, <1>2
  DEF PageInv, Exits, Isolation, NoAlarmInside, GatherHasRoom, CurrentLives,
      GatherStaysInside, AlignedIsFirst

\* The handler of a fault in frame n: if the running thread has a page n, it is
\* found and swapped in, and nothing becomes accessible that was not.
LEMMA HandlerInv ==
  ASSUME PageInv, NEW n \in Frames, SigHandler(n),
         pc \in {"user", "walk"} \/ (pc = "gather" /\ need = 0)
  PROVE  PageInv'
<1> USE PlaceFinite
<1>1. SUFFICES ASSUME Holding(table, current, n) # {} PROVE PageInv'
  BY ExitsInv DEF SigHandler, FirstOf, PageInv, TypeOK
<1>3. PICK p \in FirstOf(Holding(table, current, n)) :
        /\ table' = Swapped(table, n, p)
        /\ bytes' = Swapped(bytes, n, p)
        /\ prot' = (prot \cup ({p} \cap Frames)) \ {n}
        /\ IF p \in Frames THEN PauseUnpause ELSE saved' = FALSE /\ armed' = FALSE
        /\ UNCHANGED <<pageNum, current, dead, pc, need, clobbered>>
  BY <1>1 DEF SigHandler
<1>4. /\ p \in Place /\ n \in Place
      /\ table[p].th = current /\ table[p].pg = n
      /\ ~table[p].free
  BY <1>3 DEF FirstOf, Holding, PageInv, TableInv, FreeIsNobodys, CurrentLives, TypeOK
<1> DEFINE pi == [q \in Place |-> IF q = n THEN p ELSE IF q = p THEN n ELSE q]
<1>5. /\ pi \in [Place -> Place]
      /\ \A q, r \in Place : pi[q] = pi[r] => q = r
      /\ \A r \in Place : \E q \in Place : pi[q] = r
  <2>1. \A r \in Place : pi[pi[r]] = r /\ pi[r] \in Place
    BY <1>4
  <2> QED
    BY <2>1, <1>4
<1>6. /\ table' = [q \in Place |-> table[pi[q]]]
      /\ bytes' = [q \in Place |-> bytes[pi[q]]]
  BY <1>3, <1>4, Zenon DEF Swapped, PageInv, TypeOK
<1> HIDE DEF pi
<1>7. TableInv' /\ table' \in [Place -> Entry] /\ bytes' \in [Place -> Page]
  BY <1>3, <1>5, <1>6, Rearranged DEF PageInv
<1>8. TypeOK'
  <2>1. armed' \in BOOLEAN /\ saved' \in BOOLEAN
    BY <1>3, Zenon DEF PageInv, TypeOK, PauseUnpause
  <2> QED
    BY <1>3, <1>7, <2>1 DEF PageInv, TypeOK
<1>9. Isolation'
  <2> SUFFICES ASSUME NEW i \in Frames \ prot', ~table'[i].free
               PROVE  table'[i].th = current /\ table'[i].pg = i
    BY <1>3 DEF Isolation
  <2>1. CASE i = n
    BY <2>1, <1>3, <1>4 DEF Swapped, PageInv, TypeOK
  <2>2. CASE i # n
    <3>1. i # p /\ i \notin prot
      BY <2>2, <1>3
    <3>2. table'[i] = table[i]
      BY <3>1, <2>2, <1>3, <1>4 DEF Swapped, PageInv, TypeOK
    <3> QED
      BY <3>1, <3>2 DEF PageInv, Isolation
  <2> QED
    BY <2>1, <2>2
<1>10. GatherHasRoom'
  <2>1. FreePlaces' \in SUBSET Place
    BY DEF FreePlaces
  <2>2. Cardinality(FreePlaces') \in Nat
    BY <2>1
  <2> QED
    BY <1>3, <2>2 DEF GatherHasRoom
<1>11. NoAlarmInside'
  BY <1>3 DEF PageInv, NoAlarmInside, PauseUnpause
<1> QED
  BY <1>3, <1>7, <1>8, <1>9, <1>10, <1>11
  DEF PageInv, CurrentLives, GatherStaysInside, AlignedIsFirst

\* alignPages swaps each slot of SlotsInPlace with the frame of its number, and
\* makes accessible only pages of the running thread that are in their frames.
LEMMA MallocEnterInv ==
  ASSUME Careful, PageInv, MallocEnter
  PROVE  PageInv'
<1> USE PlaceFinite
<1> DEFINE A == SlotsInPlace
           pi == [p \in Place |-> IF p \in A THEN NFrames + p
                                  ELSE IF p - NFrames \in A THEN p - NFrames ELSE p]
<1>1. /\ A \subseteq Frames
      /\ \A i \in A : NFrames + i \in Place
  BY DEF SlotsInPlace
<1>2. \A p \in Place : pi[p] \in Place /\ pi[pi[p]] = p
  BY <1>1, Constants DEF Place, Frames
<1>3. /\ pi \in [Place -> Place]
      /\ \A q, r \in Place : pi[q] = pi[r] => q = r
      /\ \A r \in Place : \E q \in Place : pi[q] = r
  <2>1. pi \in [Place -> Place]
    BY <1>2, Zenon
  <2> HIDE DEF pi
  <2> QED
    BY <2>1, <1>2
<1>4. /\ table' = [p \in Place |-> table[pi[p]]]
      /\ bytes' = [p \in Place |-> bytes[pi[p]]]
  BY DEF MallocEnter, AlignPages
<1>5. TableInv' /\ table' \in [Place -> Entry] /\ bytes' \in [Place -> Page]
  <2> HIDE DEF pi
  <2> QED
    BY <1>3, <1>4, Rearranged DEF PageInv, MallocEnter
<1>6. TypeOK'
  BY <1>5, Zenon DEF PageInv, TypeOK, MallocEnter, AlignPages, PC
<1>7. Isolation'
  <2> SUFFICES ASSUME NEW i \in Frames \ prot', ~table'[i].free
               PROVE  table'[i].th = current /\ table'[i].pg = i
    BY DEF Isolation, MallocEnter
  <2>1. CASE i \in A
    <3>1. table'[i] = table[NFrames + i]
      BY <2>1 DEF MallocEnter, AlignPages
    <3> QED
      BY <2>1, <3>1 DEF SlotsInPlace
  <2>2. CASE i \notin A
    <3>1. i - NFrames \notin A
      BY <1>1, Constants DEF Frames
    <3>2. table'[i] = table[i]
      BY <2>2, <3>1 DEF MallocEnter, AlignPages
    <3>3. CASE i \in prot
      BY <3>2, <3>3, <2>2 DEF MallocEnter, AlignPages, Own
    <3>4. CASE i \notin prot
      BY <3>2, <3>4 DEF PageInv, Isolation
    <3> QED
      BY <3>3, <3>4
  <2> QED
    BY <2>1, <2>2
<1>8. AlignedIsFirst'
  <2> SUFFICES ASSUME pageNum[current] > 0 PROVE table'[0].th = current
    BY DEF AlignedIsFirst, MallocEnter
  <2>1. table[0].th = current /\ 0 \in Frames
    BY Constants DEF MallocEnter, FirstInPlace, Frames
  <2>2. 0 - NFrames \notin A
    BY <1>1, Constants DEF Frames
  <2>3. CASE 0 \in A
    BY <2>1, <2>3 DEF MallocEnter, AlignPages, SlotsInPlace
  <2>4. CASE 0 \notin A
    BY <2>1, <2>2, <2>4 DEF MallocEnter, AlignPages
  <2> QED
    BY <2>3, <2>4
<1> QED
  BY <1>5, <1>6, <1>7, <1>8
  DEF PageInv, MallocEnter, NoAlarmInside, GatherHasRoom, CurrentLives, GatherStaysInside

\* What initializePage and the moves before it promise together.
PageAdded ==
  /\ TableInv' /\ Isolation'
  /\ table' \in [Place -> Entry] /\ bytes' \in [Place -> Page]
  /\ prot' \subseteq Frames
  /\ pageNum' = [pageNum EXCEPT ![current] = @ + 1]
  /\ Cardinality(FreePlaces') = Cardinality(FreePlaces) - 1
  /\ current' = current /\ dead' = dead
  /\ armed' = FALSE /\ saved' \in BOOLEAN
  /\ clobbered' \subseteq Page

\* There is a new page in frame i, and every other place is filled from a place
\* of its own, src[q], the free place p excepted.
Filled(i, p, src) ==
  /\ i = pageNum[current]
  /\ table[p].free
  /\ src \in [Place \ {i} -> Place \ {p}]
  /\ \A q, r \in Place \ {i} : src[q] = src[r] => q = r
  /\ \A r \in Place \ {p} : \E q \in Place \ {i} : src[q] = r
  /\ table'[i] = NewEntry
  /\ \A q \in Place \ {i} : table'[q] = table[src[q]]
  /\ pageNum' = [pageNum EXCEPT ![current] = @ + 1]
  /\ dead' = dead

\* Then nothing is lost or doubled, and one free place is used up.
LEMMA NewPageTable ==
  ASSUME PageInv, NEW i \in Frames, NEW p \in Place, NEW src, Filled(i, p, src)
  PROVE  /\ OnePlace' /\ NoPageLost' /\ FreeIsNobodys' /\ UsedIsCounted'
         /\ Cardinality(FreePlaces') = Cardinality(FreePlaces) - 1
<1> USE PlaceFinite DEF Filled
<1>1. /\ i \in Place /\ i \in Nat
      /\ current \in Thread /\ current \notin dead
  BY Constants DEF PageInv, TypeOK, Frames, CurrentLives
<1>4. NewEntry.th = current /\ NewEntry.pg = i /\ ~NewEntry.free
  BY DEF NewEntry
<1>7. /\ pageNum' \in [Thread -> Nat]
      /\ pageNum'[current] = i + 1
      /\ \A t \in Thread \ {current} : pageNum'[t] = pageNum[t]
  BY <1>1 DEF PageInv, TypeOK
<1>8. \A q \in Place : ~table[q].free => ~(table[q].th = current /\ table[q].pg = i)
  BY DEF PageInv, TableInv, UsedIsCounted, TypeOK
<1>9. OnePlace'
  <2> SUFFICES ASSUME NEW q \in Place, NEW r \in Place,
                      ~table'[q].free, ~table'[r].free,
                      table'[q].th = table'[r].th, table'[q].pg = table'[r].pg
               PROVE  q = r
    BY DEF OnePlace
  <2>1. CASE q = i
    <3>1. ASSUME r # i PROVE FALSE
      BY <2>1, <3>1, <1>4, <1>8
    <3> QED
      BY <2>1, <3>1
  <2>2. CASE r = i
    <3>1. ASSUME q # i PROVE FALSE
      BY <2>2, <3>1, <1>4, <1>8
    <3> QED
      BY <2>2, <3>1
  <2>3. CASE q # i /\ r # i
    <3>1. src[q] = src[r]
      BY <2>3 DEF PageInv, TableInv, OnePlace
    <3> QED
      BY <2>3, <3>1
  <2> QED
    BY <2>1, <2>2, <2>3
<1>10. NoPageLost'
  <2> SUFFICES ASSUME NEW t \in Thread \ dead, NEW n \in 0..pageNum'[t] - 1
               PROVE  \E q \in Place : ~table'[q].free /\ table'[q].th = t /\ table'[q].pg = n
    BY DEF NoPageLost
  <2>1. CASE t = current /\ n = i
    BY <2>1, <1>1, <1>4
  <2>2. CASE ~(t = current /\ n = i)
    <3>1. n \in 0..pageNum[t] - 1
      BY <2>2, <1>1, <1>7 DEF PageInv, TypeOK
    <3>2. PICK r \in Place : ~table[r].free /\ table[r].th = t /\ table[r].pg = n
      BY <3>1 DEF PageInv, TableInv, NoPageLost
    <3>3. PICK q \in Place \ {i} : src[q] = r
      BY <3>2
    <3> QED
      BY <3>2, <3>3
  <2> QED
    BY <2>1, <2>2
<1>12. FreeIsNobodys'
  BY <1>4 DEF PageInv, TableInv, FreeIsNobodys
<1>13. UsedIsCounted'
  <2> SUFFICES ASSUME NEW q \in Place, ~table'[q].free
               PROVE  table'[q].th \in Thread /\ table'[q].pg < pageNum'[table'[q].th]
    BY DEF UsedIsCounted
  <2>1. CASE q = i
    BY <2>1, <1>1, <1>4, <1>7
  <2>2. CASE q # i
    <3>1. PICK r \in Place : table'[q] = table[r] /\ ~table[r].free
      BY <2>2
    <3>2. table[r].th \in Thread /\ table[r].pg < pageNum[table[r].th]
      BY <3>1 DEF PageInv, TableInv, UsedIsCounted
    <3>3. table[r].pg \in Nat
      BY Constants DEF PageInv, TypeOK, Entry
    <3>4. pageNum'[table[r].th] >= pageNum[table[r].th]
      <4>1. CASE table[r].th = current
        BY <4>1, <1>1, <1>7
      <4>2. CASE table[r].th # current
        BY <4>2, <3>2, <1>7 DEF PageInv, TypeOK
      <4> QED
        BY <4>1, <4>2
    <3>5. pageNum[table[r].th] \in Nat /\ pageNum'[table[r].th] \in Nat
      BY <3>2, <1>7 DEF PageInv, TypeOK
    <3>6. table[r].pg < pageNum'[table[r].th]
      BY <3>2, <3>3, <3>4, <3>5
    <3> QED
      BY <3>1, <3>2, <3>6
  <2> QED
    BY <2>1, <2>2
<1>15. Cardinality(FreePlaces') = Cardinality(FreePlaces) - 1
  <2> DEFINE f == [q \in FreePlaces' |-> src[q]]
  <2>1. FreePlaces \in SUBSET Place /\ p \in FreePlaces /\ FreePlaces' \in SUBSET Place
    BY DEF FreePlaces
  <2>2. \A q \in Place : q \in FreePlaces' <=> q # i /\ src[q] \in FreePlaces
    BY <1>4 DEF FreePlaces
  <2>3. f \in [FreePlaces' -> FreePlaces \ {p}]
    BY <2>1, <2>2
  <2>4. \A q, r \in FreePlaces' : f[q] = f[r] => q = r
    BY <2>1, <2>2
  <2>5. \A r \in FreePlaces \ {p} : \E q \in FreePlaces' : f[q] = r
    BY <2>1, <2>2
  <2>6. f \in Bijection(FreePlaces', FreePlaces \ {p})
    <3> HIDE DEF f
    <3> QED
      BY <2>3, <2>4, <2>5 DEF Bijection, Injection, IsInjective, Surjection
  <2>7. Cardinality(FreePlaces') = Cardinality(FreePlaces \ {p})
    BY <2>1, <2>6, FS_Bijection DEF ExistsBijection
  <2> QED
    BY <2>1, <2>7, FS_RemoveElement
<1> QED
  BY <1>9, <1>10, <1>12, <1>13, <1>15

\* What moveToFreeSpace and moveToDiskSpace do when no fault gets in the way, or
\* one that does no harm.
LEMMA MovesInv ==
  ASSUME PageInv, NEW i \in Frames, i = pageNum[current], ~armed,
         NEW p \in Place, table[p].free, NEW to, Moves(i, p, table[i], to)
  PROVE  PageAdded
<1> USE PlaceFinite
<1>1. /\ i \in Place /\ i \in 0..NFrames
      /\ current \in Thread /\ current \in 0..MaxThread
  BY Constants DEF PageInv, TypeOK, Frames, Thread
<1>2. NewEntry \in Entry /\ <<current, i>> \in Page
  BY <1>1 DEF NewEntry, Entry, Page
<1>3. /\ table' = [table EXCEPT ![p] = table[i], ![i] = NewEntry]
      /\ bytes' = [bytes EXCEPT ![p] = bytes[i], ![i] = <<current, i>>]
      /\ prot' = IF p = i THEN (IF pageNum[current] = 0 THEN prot \ {i} ELSE prot)
                 ELSE (prot \cup ({p} \cap Frames)) \ {i}
      /\ pageNum' = [pageNum EXCEPT ![current] = @ + 1]
      /\ UNCHANGED <<current, dead, clobbered>>
  BY DEF Moves, Stored, BytesOf
<1>4. table' \in [Place -> Entry] /\ bytes' \in [Place -> Page]
  BY <1>1, <1>2, <1>3 DEF PageInv, TypeOK
<1>5. /\ table'[i] = NewEntry /\ bytes'[i] = <<current, i>>
      /\ p # i => table'[p] = table[i] /\ bytes'[p] = bytes[i]
      /\ \A q \in Place \ {p, i} : table'[q] = table[q] /\ bytes'[q] = bytes[q]
  BY <1>1, <1>3 DEF PageInv, TypeOK
<1> DEFINE src == [q \in Place \ {i} |-> IF q = p THEN i ELSE q]
<1>6. /\ src \in [Place \ {i} -> Place \ {p}]
      /\ \A q, r \in Place \ {i} : src[q] = src[r] => q = r
      /\ \A r \in Place \ {p} : \E q \in Place \ {i} : src[q] = r
  <2>1. \A r \in Place \ {p} : \E q \in Place \ {i} : src[q] = r
    <3> SUFFICES ASSUME NEW r \in Place \ {p} PROVE \E q \in Place \ {i} : src[q] = r
      OBVIOUS
    <3>1. CASE r = i
      <4>1. p \in Place \ {i} /\ src[p] = r
        BY <3>1
      <4> QED
        BY <4>1
    <3>2. CASE r # i
      <4>1. r \in Place \ {i} /\ src[r] = r
        BY <3>2
      <4> QED
        BY <4>1
    <3> QED
      BY <3>1, <3>2
  <2> QED
    BY <2>1, <1>1
<1>7. \A q \in Place \ {i} : table'[q] = table[src[q]] /\ bytes'[q] = bytes[src[q]]
  BY <1>5
<1> HIDE DEF src
<1>8. /\ OnePlace' /\ NoPageLost' /\ FreeIsNobodys' /\ UsedIsCounted'
      /\ Cardinality(FreePlaces') = Cardinality(FreePlaces) - 1
  <2>1. Filled(i, p, src)
    BY <1>3, <1>5, <1>6, <1>7, Zenon DEF Filled
  <2> QED
    BY <2>1, NewPageTable
<1>9. BytesFollowTable'
  <2> SUFFICES ASSUME NEW q \in Place, ~table'[q].free,
                      <<table'[q].th, table'[q].pg>> \notin clobbered
               PROVE  bytes'[q] = <<table'[q].th, table'[q].pg>>
    BY <1>3, Zenon DEF BytesFollowTable
  <2>1. CASE q = i
    BY <2>1, <1>5 DEF NewEntry
  <2>2. CASE q # i
    <3>1. src[q] \in Place /\ table'[q] = table[src[q]] /\ bytes'[q] = bytes[src[q]]
      BY <2>2, <1>6, <1>7
    <3> QED
      BY <3>1 DEF PageInv, TableInv, BytesFollowTable
  <2> QED
    BY <2>1, <2>2
<1>10. Isolation'
  <2> SUFFICES ASSUME NEW j \in Frames \ prot', ~table'[j].free
               PROVE  table'[j].th = current /\ table'[j].pg = j
    BY <1>3, Zenon DEF Isolation
  <2>1. CASE j = i
    BY <2>1, <1>5 DEF NewEntry
  <2>2. CASE j # i
    <3>1. j # p /\ j \notin prot
      <4>1. CASE p = i
        BY <4>1, <2>2, <1>3
      <4>2. CASE p # i
        BY <4>2, <2>2, <1>3
      <4> QED
        BY <4>1, <4>2
    <3>2. table'[j] = table[j]
      BY <3>1, <2>2, <1>5
    <3> QED
      BY <3>1, <3>2 DEF PageInv, Isolation
  <2> QED
    BY <2>1, <2>2
<1>11. prot' \subseteq Frames /\ clobbered' \subseteq Page
  BY <1>3, Zenon DEF PageInv, TypeOK
<1>12. armed' = FALSE /\ saved' \in BOOLEAN
  BY DEF Moves, PageInv, TypeOK, PauseUnpause
<1> QED
  BY <1>3, <1>4, <1>8, <1>9, <1>10, <1>11, <1>12 DEF PageAdded, TableInv

\* When sigHandler changes the table in the middle of a move, pages still are
\* neither lost nor doubled nor exposed; the two whose bytes are wrong are noted.
LEMMA MovesOverInv ==
  ASSUME PageInv, NEW i \in Frames, i = pageNum[current], ~armed,
         NEW p \in Frames, table[p].free, p # i,
         NEW q \in Place, q # i, q # p, table[q].th = current, table[q].pg = p,
         NEW to, MovesOver(i, p, table[i], q, to)
  PROVE  PageAdded
<1> USE PlaceFinite
<1>1. /\ i \in Place /\ p \in Place /\ i \in 0..NFrames /\ p \in 0..NFrames
      /\ current \in Thread /\ current \in 0..MaxThread
  BY Constants DEF PageInv, TypeOK, Frames, Thread
<1>2. NewEntry \in Entry /\ <<current, i>> \in Page /\ <<current, p>> \in Page
  BY <1>1 DEF NewEntry, Entry, Page
<1>3. /\ table' = [table EXCEPT ![p] = table[q], ![q] = table[i], ![i] = NewEntry]
      /\ bytes' = [bytes EXCEPT ![p] = bytes[i], ![q] = bytes[p], ![i] = <<current, i>>]
      /\ prot' = (prot \cup ({p, q} \cap Frames)) \ {i}
      /\ pageNum' = [pageNum EXCEPT ![current] = @ + 1]
      /\ saved' = FALSE /\ armed' = FALSE
      /\ clobbered' = clobbered \cup {<<current, p>>}
           \cup (IF table[i].free THEN {} ELSE {<<table[i].th, table[i].pg>>})
      /\ UNCHANGED <<current, dead>>
  BY DEF MovesOver, Stored, BytesOf
<1>4. table' \in [Place -> Entry] /\ bytes' \in [Place -> Page]
  BY <1>1, <1>2, <1>3 DEF PageInv, TypeOK
<1>5. /\ table'[i] = NewEntry /\ bytes'[i] = <<current, i>>
      /\ table'[p] = table[q]
      /\ table'[q] = table[i]
      /\ \A r \in Place \ {p, q, i} : table'[r] = table[r] /\ bytes'[r] = bytes[r]
  BY <1>1, <1>3 DEF PageInv, TypeOK
<1> DEFINE src == [r \in Place \ {i} |-> IF r = p THEN q ELSE IF r = q THEN i ELSE r]
<1>6. /\ src \in [Place \ {i} -> Place \ {p}]
      /\ \A r, s \in Place \ {i} : src[r] = src[s] => r = s
      /\ \A s \in Place \ {p} : \E r \in Place \ {i} : src[r] = s
  <2>1. \A s \in Place \ {p} : \E r \in Place \ {i} : src[r] = s
    <3> SUFFICES ASSUME NEW s \in Place \ {p} PROVE \E r \in Place \ {i} : src[r] = s
      OBVIOUS
    <3>1. CASE s = i
      <4>1. q \in Place \ {i} /\ src[q] = s
        BY <3>1
      <4> QED
        BY <4>1
    <3>2. CASE s = q
      <4>1. p \in Place \ {i} /\ src[p] = s
        BY <3>2, <1>1
      <4> QED
        BY <4>1
    <3>3. CASE s # i /\ s # q
      <4>1. s \in Place \ {i} /\ src[s] = s
        BY <3>3
      <4> QED
        BY <4>1
    <3> QED
      BY <3>1, <3>2, <3>3
  <2> QED
    BY <2>1, <1>1
<1>7. \A r \in Place \ {i} : table'[r] = table[src[r]]
  BY <1>5
<1> HIDE DEF src
<1>8. /\ OnePlace' /\ NoPageLost' /\ FreeIsNobodys' /\ UsedIsCounted'
      /\ Cardinality(FreePlaces') = Cardinality(FreePlaces) - 1
  <2>1. Filled(i, p, src)
    BY <1>3, <1>5, <1>6, <1>7, Zenon DEF Filled
  <2> QED
    BY <1>1, <2>1, NewPageTable
<1>9. BytesFollowTable'
  <2> SUFFICES ASSUME NEW r \in Place, ~table'[r].free,
                      <<table'[r].th, table'[r].pg>> \notin clobbered'
               PROVE  bytes'[r] = <<table'[r].th, table'[r].pg>>
    BY DEF BytesFollowTable
  <2>1. CASE r = i
    BY <2>1, <1>5 DEF NewEntry
  <2>2. CASE r = p
    <3>1. <<table'[r].th, table'[r].pg>> = <<current, p>>
      BY <2>2, <1>5
    <3> QED
      BY <3>1, <1>3
  <2>3. CASE r = q
    <3>1. table'[r] = table[i]
      BY <2>3, <1>5
    <3>2. <<table[i].th, table[i].pg>> \in clobbered'
      BY <3>1, <1>3
    <3> QED
      BY <3>1, <3>2
  <2>4. CASE r \notin {i, p, q}
    <3>1. table'[r] = table[r] /\ bytes'[r] = bytes[r]
      BY <2>4, <1>5
    <3>2. <<table[r].th, table[r].pg>> \notin clobbered
      BY <3>1, <1>3
    <3> QED
      BY <3>1, <3>2 DEF PageInv, TableInv, BytesFollowTable
  <2> QED
    BY <2>1, <2>2, <2>3, <2>4
<1>10. Isolation'
  <2> SUFFICES ASSUME NEW j \in Frames \ prot', ~table'[j].free
               PROVE  table'[j].th = current /\ table'[j].pg = j
    BY <1>3, Zenon DEF Isolation
  <2>1. CASE j = i
    BY <2>1, <1>5 DEF NewEntry
  <2>2. CASE j # i
    <3>1. j # p /\ j # q /\ j \notin prot
      BY <2>2, <1>3
    <3>2. table'[j] = table[j]
      BY <3>1, <2>2, <1>5
    <3> QED
      BY <3>1, <3>2 DEF PageInv, Isolation
  <2> QED
    BY <2>1, <2>2
<1>11. prot' \subseteq Frames
  BY <1>3, Zenon DEF PageInv, TypeOK
<1>12. clobbered' \subseteq Page
  <2>1. table[i] \in Entry
    BY <1>1 DEF PageInv, TypeOK
  <2>2. <<table[i].th, table[i].pg>> \in Page
    BY <2>1 DEF Entry, Page
  <2> QED
    BY <1>2, <1>3, <2>2 DEF PageInv, TypeOK
<1> QED
  BY <1>3, <1>4, <1>8, <1>9, <1>10, <1>11, <1>12, Zenon DEF PageAdded, TableInv

\* A new page for the running thread, in the frame of its number: what was there
\* is kept in the first free place, or the process ends.
LEMMA NewPageInv ==
  ASSUME PageInv, pageNum[current] < NFrames, ~armed,
         NEW to, NewPage(pageNum[current], to)
  PROVE  (Exits) \/ (PageAdded /\ pc' = to)
<1> USE PlaceFinite
<1> DEFINE i == pageNum[current]
<1>1. i \in Frames
  BY Constants DEF PageInv, TypeOK, Frames
<1> HIDE DEF i
<1>2. PICK p \in FirstOf(FreePlaces) :
        LET found == FirstOf(Holding([table EXCEPT ![p] = table[i]], current, p))
        IN  IF p = i \/ p \notin prot \/ found = {p}
            THEN Moves(i, p, table[i], to)
            ELSE IF found \subseteq {i}
            THEN Exits
            ELSE \E q \in found : MovesOver(i, p, table[i], q, to)
  BY <1>1, Zenon DEF NewPage, i
<1>3. p \in Place /\ table[p].free
  BY <1>2 DEF FirstOf, FreePlaces
<1> DEFINE found == FirstOf(Holding([table EXCEPT ![p] = table[i]], current, p))
<1>4. CASE p = i \/ p \notin prot \/ found = {p}
  <2>1. Moves(i, p, table[i], to)
    BY <1>2, <1>4, Zenon
  <2> QED
    BY <2>1, <1>1, <1>3, MovesInv, Zenon DEF Moves, i
<1>5. CASE ~(p = i \/ p \notin prot \/ found = {p}) /\ found \subseteq {i}
  BY <1>2, <1>5
<1>6. CASE ~(p = i \/ p \notin prot \/ found = {p}) /\ ~(found \subseteq {i})
  <2>1. PICK q \in found : MovesOver(i, p, table[i], q, to)
    BY <1>2, <1>6, Zenon
  <2>2. ASSUME NEW r \in found PROVE r = q
    <3>1. r <= q /\ q <= r
      BY <2>1, Zenon DEF FirstOf
    <3>2. r \in Int /\ q \in Int
      BY <2>1, Constants DEF FirstOf, Holding, Place
    <3> QED
      BY <3>1, <3>2
  <2>3. q # i /\ q # p
    BY <1>6, <2>1, <2>2, Zenon
  <2>4. q \in Place /\ table[q].th = current /\ table[q].pg = p
    BY <2>1, <2>3, <1>3 DEF FirstOf, Holding, PageInv, TypeOK
  <2>5. p \in Frames
    BY <1>6 DEF PageInv, TypeOK
  <2>6. p # i
    BY <1>6
  <2> QED
    BY <2>1, <2>3, <2>4, <2>5, <2>6, <1>1, <1>3, MovesOverInv, Zenon DEF MovesOver, i
<1> QED
  BY <1>4, <1>5, <1>6, Zenon

\* The first page of a thread (initializePage) keeps PageInv.
LEMMA FirstPageInv == PageInv /\ FirstPage => PageInv'
<1> SUFFICES ASSUME PageInv, FirstPage PROVE PageInv'
  OBVIOUS
<1>1. /\ pageNum[current] = 0 /\ NewPage(pageNum[current], "walk")
      /\ ~armed /\ current \in Thread /\ need' = need
  BY Constants DEF FirstPage, PageInv, AlignedIsFirst, NoAlarmInside, TypeOK
<1>2. pageNum[current] < NFrames
  BY <1>1, Constants
<1>3. SUFFICES ASSUME PageAdded, pc' = "walk" PROVE PageInv'
  BY <1>1, <1>2, NewPageInv, ExitsInv DEF PageInv, TypeOK
<1>4. pageNum' \in [Thread -> 0..NFrames]
  BY <1>1, <1>3, Constants DEF PageInv, TypeOK, PageAdded
<1> QED
  BY <1>1, <1>3, <1>4, Zenon
  DEF PageInv, PageAdded, TypeOK, PC, NoAlarmInside, GatherHasRoom, CurrentLives,
      GatherStaysInside, AlignedIsFirst

\* One page moved into place by gatherPages keeps PageInv.
LEMMA GatherPageInv == PageInv /\ GatherPage => PageInv'
<1> SUFFICES ASSUME PageInv, GatherPage PROVE PageInv'
  OBVIOUS
<1>1. /\ NewPage(pageNum[current], "gather") /\ ~armed /\ current \in Thread
      /\ need' = need - 1 /\ need > 0 /\ pc = "gather"
      /\ need \in 0..NFrames
      /\ pageNum[current] \in 0..NFrames
      /\ pageNum[current] + need <= NFrames
  BY DEF GatherPage, PageInv, NoAlarmInside, TypeOK, GatherStaysInside
<1>2. pageNum[current] < NFrames
  BY <1>1, Constants
<1> SUFFICES ASSUME PageAdded, pc' = "gather" PROVE PageInv'
  <2>1. need' \in 0..NFrames
    BY <1>1, Constants
  <2> QED
    BY <1>1, <1>2, <2>1, NewPageInv, ExitsInv
<1>3. /\ pageNum' \in [Thread -> 0..NFrames]
      /\ pageNum'[current] + need' <= NFrames
      /\ need' \in 0..NFrames
  BY <1>1, <1>2, Constants DEF PageInv, TypeOK, PageAdded
<1>4. Cardinality(FreePlaces') >= need'
  <2>1. Cardinality(FreePlaces) \in Nat /\ Cardinality(FreePlaces) >= need
    BY <1>1, PlaceFinite DEF PageInv, GatherHasRoom, FreePlaces
  <2>2. Cardinality(FreePlaces') = Cardinality(FreePlaces) - 1
    BY DEF PageAdded
  <2> QED
    BY <2>1, <2>2, <1>1
<1> QED
  BY <1>1, <1>3, <1>4, Zenon
  DEF PageInv, PageAdded, TypeOK, PC, NoAlarmInside, GatherHasRoom, CurrentLives,
      GatherStaysInside, AlignedIsFirst

\* schedule() takes the CPU from a thread: all its frames become inaccessible.
LEMMA SwitchInv == ASSUME PageInv, NEW u \in Thread, Switch(u) PROVE PageInv'
<1>1. TypeOK'
  BY DEF Switch, PageInv, TypeOK, Own
<1>2. TableInv'
  BY DEF Switch, PageInv, TableInv, OnePlace, NoPageLost, BytesFollowTable, FreeIsNobodys,
         UsedIsCounted
<1>3. Isolation'
  BY DEF Switch, PageInv, Isolation, Own
<1> QED
  BY <1>1, <1>2, <1>3
  DEF Switch, PageInv, NoAlarmInside, GatherHasRoom, CurrentLives, GatherStaysInside,
      AlignedIsFirst

\* A thread ends: its frames become free, and nobody else's.
LEMMA ExitInv == ASSUME PageInv, NEW u \in Thread, Exit(u) PROVE PageInv'
<1> USE PlaceFinite
<1>1. \A p \in Place : /\ table'[p].th = table[p].th
                       /\ table'[p].pg = table[p].pg
                       /\ table'[p].free = (table[p].free \/ p \in Own(current))
                       /\ table'[p] \in Entry
  <2> SUFFICES ASSUME NEW p \in Place
               PROVE  /\ table'[p].th = table[p].th
                      /\ table'[p].pg = table[p].pg
                      /\ table'[p].free = (table[p].free \/ p \in Own(current))
                      /\ table'[p] \in Entry
    OBVIOUS
  <2>1. table[p] \in Entry
    BY DEF PageInv, TypeOK
  <2>2. CASE p \in Own(current)
    <3>1. table'[p] = [table[p] EXCEPT !.free = TRUE]
      BY <2>2 DEF Exit
    <3> QED
      BY <2>1, <2>2, <3>1, Zenon DEF Entry
  <2>3. CASE p \notin Own(current)
    <3>1. table'[p] = table[p]
      BY <2>3 DEF Exit
    <3> QED
      BY <2>1, <2>3, <3>1 DEF Entry
  <2> QED
    BY <2>2, <2>3
<1>2. TypeOK'
  <2>1. table' \in [Place -> Entry]
    BY <1>1, Zenon DEF Exit
  <2> QED
    BY <2>1 DEF Exit, PageInv, TypeOK, Own
<1>3. OnePlace'
  BY <1>1, Zenon DEF PageInv, TableInv, OnePlace
<1>4. NoPageLost'
  <2> SUFFICES ASSUME NEW t \in Thread \ dead', NEW n \in 0..pageNum[t] - 1
               PROVE  \E p \in Place : ~table'[p].free /\ table'[p].th = t /\ table'[p].pg = n
    BY DEF NoPageLost, Exit
  <2>1. t \notin dead /\ t # current
    BY DEF Exit
  <2>2. PICK p \in Place : ~table[p].free /\ table[p].th = t /\ table[p].pg = n
    BY <2>1 DEF PageInv, TableInv, NoPageLost
  <2>3. p \notin Own(current)
    BY <2>1, <2>2 DEF Own
  <2> QED
    BY <1>1, <2>2, <2>3, Zenon
<1>5. BytesFollowTable'
  BY <1>1 DEF PageInv, TableInv, BytesFollowTable, Exit
<1>6. FreeIsNobodys'
  BY <1>1 DEF PageInv, TableInv, FreeIsNobodys, Exit, Own
<1>7. UsedIsCounted'
  BY <1>1 DEF PageInv, TableInv, UsedIsCounted, Exit
<1>8. Isolation'
  BY <1>1 DEF PageInv, Isolation, Exit, Own
<1> QED
  BY <1>2, <1>3, <1>4, <1>5, <1>6, <1>7, <1>8
  DEF Exit, PageInv, TableInv, NoAlarmInside, GatherHasRoom, CurrentLives, GatherStaysInside,
      AlignedIsFirst

\* Every step of the page table keeps PageInv.
LEMMA StepInv ==
  ASSUME Careful, PageInv, [Next]_vars
  PROVE  PageInv'
<1> USE DEF PageInv, NoAlarmInside, CurrentLives, GatherStaysInside, AlignedIsFirst
<1>1. ASSUME NEW n \in Frames, Access(n) PROVE PageInv'
  BY <1>1, HandlerInv, Zenon DEF Access
<1>2. CASE MallocEnter
  BY <1>2, MallocEnterInv
<1>3. CASE FirstPage
  BY <1>3, FirstPageInv
<1>4. ASSUME UNCHANGED <<table, bytes, prot, pageNum, current, dead, need, clobbered>>,
             armed' \in BOOLEAN, saved' \in BOOLEAN,
             pc' \in PC, pc' \notin {"gather", "aligned"} \/ UNCHANGED pc,
             pc' \notin {"user", "exited"} => ~armed'
      PROVE  PageInv'
  <2>1. TypeOK'
    BY <1>4 DEF TypeOK
  <2>2. TableInv'
    BY <1>4 DEF TableInv, OnePlace, NoPageLost, BytesFollowTable, FreeIsNobodys, UsedIsCounted
  <2>3. Isolation' /\ GatherHasRoom'
    BY <1>4 DEF Isolation, GatherHasRoom, FreePlaces
  <2> QED
    BY <2>1, <2>2, <2>3, <1>4
<1>5. CASE NoFirstPage
  BY <1>5, <1>4 DEF NoFirstPage, PauseUnpause, TypeOK, PC
<1>6. CASE WalkCrashes
  BY <1>6, ExitsInv DEF WalkCrashes, TypeOK
<1>7. CASE HasFirstPage
  BY <1>7, <1>4 DEF HasFirstPage, TypeOK, PC
<1>8. ASSUME NEW k \in 1..NFrames + NSlots, Grow(k) PROVE PageInv'
  <2>1. TypeOK'
    BY <1>8, Constants DEF Grow, TypeOK, PC
  <2>2. TableInv'
    BY <1>8 DEF Grow, TableInv, OnePlace, NoPageLost, BytesFollowTable, FreeIsNobodys,
                UsedIsCounted
  <2>3. Isolation' /\ GatherHasRoom'
    BY <1>8 DEF Grow, Isolation, GatherHasRoom, FreePlaces
  <2> QED
    BY <2>1, <2>2, <2>3, <1>8 DEF Grow
<1>9. CASE GatherPage
  BY <1>9, GatherPageInv
<1>10. CASE FreeEnter
  BY <1>10, <1>4, Zenon DEF FreeEnter, pause_timer, TypeOK, PC
<1>11. CASE Return
  BY <1>11, <1>4 DEF Return, unpause_timer, TypeOK, PC
<1>12. ASSUME NEW u \in Thread, Switch(u) PROVE PageInv'
  BY <1>12, SwitchInv
<1>13. ASSUME NEW u \in Thread, Exit(u) PROVE PageInv'
  BY <1>13, ExitInv
<1>14. CASE UNCHANGED vars
  BY <1>14, <1>4 DEF vars, TypeOK, PC
<1> QED
  BY <1>1, <1>2, <1>3, <1>5, <1>6, <1>7, <1>8, <1>9, <1>10, <1>11, <1>12, <1>13, <1>14, Zenon
  DEF Next

\* The page table is sound in every reachable state, however the threads of a
\* careful client are scheduled: it never loses or duplicates a page, its entries
\* tell the truth about the bytes that no faulting copy has hit, what is
\* accessible is the running thread's own, no alarm interrupts the library and
\* gatherPages has the room isEnoughPages promised.
THEOREM PageTableInvariant == ASSUME Careful PROVE Spec => []PageInv
<1>1. Init => PageInv
  BY InitInv
<1>2. PageInv /\ [Next]_vars => PageInv'
  BY StepInv
<1> QED
  BY <1>1, <1>2, PTL DEF Spec

\* Every step of a thread's heap is a step of the page table, or leaves it alone.
LEMMA HeapStepIsPageStep == HeapNext => [Next]_vars
<1> SUFFICES ASSUME HeapNext PROVE [Next]_vars
  OBVIOUS
<1>1. CASE \E n \in Sizes : Malloc(n)
  BY <1>1 DEF Malloc, Next
<1>2. CASE MallocFirst
  BY <1>2 DEF MallocFirst, Next
<1>3. CASE MallocAgain \/ MallocNoFirst
  BY <1>3 DEF MallocAgain, MallocNoFirst, Next
<1>4. CASE WalkFaults \/ GrowFaults \/ UserFaults
  BY <1>4 DEF WalkFaults, GrowFaults, UserFaults, Next
<1>5. CASE MallocFits \/ MallocFails \/ MallocGrown \/ FreeRejected \/ FreeMerges
  BY <1>5 DEF MallocFits, MallocFails, MallocGrown, FreeRejected, FreeMerges, Done, Next
<1>6. CASE MallocGrows
  BY <1>6 DEF MallocGrows, Next
<1>7. CASE MallocGathers
  BY <1>7 DEF MallocGathers, Next
<1>9. CASE \E b \in DOMAIN mine : Free(b)
  BY <1>9 DEF Free, Next
<1>10. CASE FreeStarts
  BY <1>10, Zenon DEF FreeStarts, Done, Next
<1>11. CASE \E u \in Thread : HeapSwitch(u)
  BY <1>11 DEF HeapSwitch, Next
<1>12. CASE \E u \in Thread : HeapExit(u)
  BY <1>12 DEF HeapExit, Next
<1> QED
  BY <1>1, <1>2, <1>3, <1>4, <1>5, <1>6, <1>7, <1>9, <1>10, <1>11, <1>12 DEF HeapNext

\* The heaps of the threads implement the page table's specification: whatever
\* is proved of the page table holds while threads allocate and free.
THEOREM HeapImplementsPageTable == HeapSpec => Spec
<1>1. HeapInit => Init
  BY DEF HeapInit
<1>2. [HeapNext]_allVars => [Next]_vars
  BY HeapStepIsPageStep DEF allVars, vars
<1> QED
  BY <1>1, <1>2, PTL DEF HeapSpec, Spec

\* While threads allocate, free, are preempted and end, what a thread can touch
\* without a fault is its own page in its own place.
THEOREM ThreadsAreIsolated ==
  ASSUME Careful
  PROVE  HeapSpec => []Isolation
<1>1. PageInv => Isolation
  BY DEF PageInv
<1> QED
  BY <1>1, HeapImplementsPageTable, PageTableInvariant, PTL

\* While threads allocate, free, are preempted and end, no page of a living
\* thread drops out of the table or is there twice, and its bytes go with it.
THEOREM PagesAreKept ==
  ASSUME Careful
  PROVE  HeapSpec => [](NoPageLost /\ OnePlace /\ BytesFollowTable)
<1>1. PageInv => NoPageLost /\ OnePlace /\ BytesFollowTable
  BY DEF PageInv, TableInv
<1> QED
  BY <1>1, HeapImplementsPageTable, PageTableInvariant, PTL

\* No alarm interrupts the allocator, and gatherPages never runs out of places.
THEOREM AllocatorUndisturbed ==
  ASSUME Careful
  PROVE  HeapSpec => [](NoAlarmInside /\ GatherHasRoom)
<1>1. PageInv => NoAlarmInside /\ GatherHasRoom
  BY DEF PageInv
<1> QED
  BY <1>1, HeapImplementsPageTable, PageTableInvariant, PTL

\* Thread ids and page numbers never outgrow the 8 and 16 bits of their fields.
THEOREM EntriesFitWords ==
  ASSUME Careful
  PROVE  HeapSpec => []WordsKeepEntries
<1>1. ASSUME PageInv PROVE WordsKeepEntries
  <2>1. ASSUME NEW p \in Place
        PROVE  /\ table[p] \in [th : Nat, pg : Nat, free : BOOLEAN]
               /\ table[p].pg < 2^16 /\ table[p].th < 256
    <3>1. table[p] \in Entry
      BY <1>1 DEF PageInv, TypeOK
    <3>2. MaxThread < 256 /\ NFrames < 65536
      BY PageTableAssumption, Powers
    <3> QED
      BY <3>1, <3>2, Constants, Powers DEF Entry
  <2>2. ASSUME NEW p \in Place, NEW q \in Place
        PROVE  UnpackPage(PackPage(PackPage(0, table[q]), table[p])) = table[p]
    <3>1. PackPage(0, table[q]) \in Nat
      BY <2>1, PageWordsFaithful
    <3> QED
      BY <2>1, <3>1, PageWordsFaithful
  <2> QED
    BY <2>2 DEF WordsKeepEntries
<1> QED
  BY <1>1, HeapImplementsPageTable, PageTableInvariant, PTL
=============================================================================
