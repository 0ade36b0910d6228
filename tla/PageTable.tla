----------------------------- MODULE PageTable -----------------------------
(***************************************************************************)
(* The memory of the threads in my_pthread.c.  Every thread sees its pages *)
(* at the same addresses, userSpace + n * PAGESIZE.  The page table says   *)
(* which thread's page is in which frame of memory or slot of the swap     *)
(* file; frames that hold the page of another thread are protected, and    *)
(* sigHandler brings the right page in when a thread runs into one.        *)
(*                                                                         *)
(* The arrays pages and diskPages are one function, table: place i is      *)
(* frame i for i < NFrames, and place NFrames + j is slot j.  The code     *)
(* searches the frames before the slots, so its first match is the         *)
(* smallest place.  What a place contains is abstracted to whose bytes     *)
(* they are, <<thread, page>>.                                             *)
(*                                                                         *)
(* All of this is meant to run with the timer paused.  pause_timer leaves  *)
(* the time that was left in *scd->timer, for unpause_timer to start with; *)
(* a pause inside a pause leaves zero there.  The loops of myallocate are  *)
(* cut into steps, which pc strings together; only with pc = "user" can    *)
(* another thread get the CPU.  The scheduler's choice is left open.       *)
(*                                                                         *)
(* Two things the code does not get right are modelled as it does them.    *)
(* myallocate takes a thread whose page 0 is elsewhere for a new one; a    *)
(* Careful client touches its page 0 first.  And moveToFreeSpace may copy  *)
(* onto a protected frame, so that sigHandler works on the table half-way  *)
(* through the move; the pages whose bytes are lost in this way are noted  *)
(* in clobbered.                                                           *)
(***************************************************************************)
EXTENDS Integers, FiniteSets, Words

CONSTANTS
  MaxThread,   \* thread ids are 1..MaxThread
  NFrames,     \* MAX_MEMORY / PAGESIZE - LIBPAGES, 1848
  NSlots,      \* DISK_MEMORY / PAGESIZE, 4096
  Careful      \* TRUE: the client keeps to the conditions stated here

\* setPageThID keeps a thread id in 8 bits and setPagePgID a page in 16.
ASSUME PageTableAssumption ==
  /\ MaxThread \in 1..255
  /\ NFrames \in 1..2^16 - 1
  /\ NSlots \in Nat
  /\ Careful \in BOOLEAN

Thread == 1..MaxThread
Frames == 0..NFrames - 1
Place == 0..NFrames + NSlots - 1
Entry == [th : 0..MaxThread, pg : 0..NFrames, free : BOOLEAN]
Page == (0..MaxThread) \X (0..NFrames)

(***************************************************************************)
(* Where the running thread is: "user", its own code; "aligned", in        *)
(* myallocate after alignPages; "walk", in myallocate or mydeallocate,     *)
(* following the chain of blocks; "gather", in gatherPages; "exited", the  *)
(* process has been ended, by sigHandler or by a stray access.             *)
(***************************************************************************)
PC == {"user", "aligned", "walk", "gather", "exited"}

VARIABLES
  table,     \* pages and diskPages
  bytes,     \* memory and swpFile: whose bytes a place contains
  prot,      \* the frames that are PROT_NONE
  pageNum,   \* threadID->pageNum: how many pages the thread has
  current,   \* scd->current
  dead,      \* the threads that have exited
  pc,
  need,      \* pagesNeeded in gatherPages
  armed,     \* ITIMER_REAL runs
  saved,     \* *scd->timer is not zero: unpause_timer starts the timer
  clobbered  \* history: the pages whose bytes a faulting copy has destroyed

vars == <<table, bytes, prot, pageNum, current, dead, pc, need, armed, saved, clobbered>>

\* The tables as myallocate fills them on its first call: every word is 1.
Init ==
  /\ table = [p \in Place |-> [th |-> 0, pg |-> 0, free |-> TRUE]]
  /\ bytes = [p \in Place |-> <<0, 0>>]
  /\ prot = {}
  /\ pageNum = [t \in Thread |-> 0]
  /\ current = 1
  /\ dead = {}
  /\ pc = "user"
  /\ need = 0
  /\ armed = TRUE
  /\ saved = TRUE
  /\ clobbered = {}

-----------------------------------------------------------------------------
Swapped(f, p, q) == [f EXCEPT ![p] = f[q], ![q] = f[p]]
FirstOf(S) == {p \in S : \A q \in S : p <= q}
FreePlaces == {p \in Place : table[p].free}
Own(t) == {i \in Frames : table[i].th = t}

\* The places of table f that sigHandler accepts for page n: it looks at the
\* free flag of a slot only.
Holding(f, t, n) ==
  {p \in Place : /\ f[p].th = t
                 /\ f[p].pg = n
                 /\ p \in Frames \/ ~f[p].free}

Exits ==
  /\ pc' = "exited"
  /\ UNCHANGED <<table, bytes, prot, pageNum, current, dead, armed, saved, clobbered>>

\* What a thread can touch without running into sigHandler is its own: a used
\* frame that is not protected holds the page of the running thread that
\* belongs at this address.  For "this handler is called when a thread attempts
\* to access data that does not belong to it" (my_pthread.c:1201).
Isolation ==
  \A i \in Frames \ prot :
    ~table[i].free => table[i].th = current /\ table[i].pg = i

\* The model follows the program as long as the threads are kept apart and none
\* has a page past the end of the memory.
Followed == Isolation /\ pageNum[current] <= NFrames

pause_timer == saved' = armed /\ armed' = FALSE
unpause_timer == armed' = saved /\ UNCHANGED saved

\* pause_timer and unpause_timer around something, in one step.
PauseUnpause == saved' = armed /\ UNCHANGED armed

\* Mutants: the contents are copied one way; all other frames are protected;
\* the timer is started again.
SigHandler_CopiesOneWay(n) ==
  \E p \in FirstOf(Holding(table, current, n)) :
    /\ table' = Swapped(table, n, p)
    /\ bytes' = [bytes EXCEPT ![n] = bytes[p]]
    /\ prot' = (prot \cup ({p} \cap Frames)) \ {n}
    /\ PauseUnpause
    /\ UNCHANGED <<pageNum, current, dead, pc, need, clobbered>>

SigHandler_ProtectsOthers(n) ==
  \E p \in FirstOf(Holding(table, current, n)) :
    /\ table' = Swapped(table, n, p)
    /\ bytes' = Swapped(bytes, n, p)
    /\ prot' = Frames \ {n}
    /\ PauseUnpause
    /\ UNCHANGED <<pageNum, current, dead, pc, need, clobbered>>

SigHandler_RestartsTimer(n) ==
  \E p \in FirstOf(Holding(table, current, n)) :
    /\ table' = Swapped(table, n, p)
    /\ bytes' = Swapped(bytes, n, p)
    /\ prot' = (prot \cup ({p} \cap Frames)) \ {n}
    /\ armed' = TRUE
    /\ UNCHANGED <<pageNum, current, dead, pc, need, saved, clobbered>>

\* sigHandler for an address in page n: pageSwap or swapToMemFromDisk, then the
\* frame is unprotected.  swapToMemFromDisk pauses the timer a second time, so
\* that it stays off.  With no such page the process exits.
SigHandler(n) ==
  \/ \E p \in FirstOf(Holding(table, current, n)) :
       /\ table' = Swapped(table, n, p)
       /\ bytes' = Swapped(bytes, n, p)
       /\ prot' = (prot \cup ({p} \cap Frames)) \ {n}
       /\ IF p \in Frames THEN PauseUnpause ELSE saved' = FALSE /\ armed' = FALSE
       /\ UNCHANGED <<pageNum, current, dead, pc, need, clobbered>>
  \/ /\ Holding(table, current, n) = {}
     /\ Exits
     /\ UNCHANGED need

\* The running thread, or the library for it, reads or writes the protected
\* frame n.
Access(n) ==
  /\ Followed
  /\ pc \in {"user", "walk"} \/ (pc = "gather" /\ need = 0)
  /\ n \in prot
  /\ SigHandler(n)

-----------------------------------------------------------------------------
(* myallocate                                                              *)

\* The slots of alignPages: slot i holds page i of the running thread.
SlotsInPlace ==
  {i \in Frames : /\ NFrames + i \in Place
                  /\ ~table[NFrames + i].free
                  /\ table[NFrames + i].th = current
                  /\ table[NFrames + i].pg = i}

\* alignPages: a page that is in its frame already is unprotected; one that is
\* in the slot of the same number is swapped into its frame.
AlignPages ==
  /\ table' = [p \in Place |-> IF p \in SlotsInPlace THEN table[NFrames + p]
                               ELSE IF p - NFrames \in SlotsInPlace THEN table[p - NFrames]
                               ELSE table[p]]
  /\ bytes' = [p \in Place |-> IF p \in SlotsInPlace THEN bytes[NFrames + p]
                               ELSE IF p - NFrames \in SlotsInPlace THEN bytes[p - NFrames]
                               ELSE bytes[p]]
  /\ prot' = prot \ ({i \in Own(current) : table[i].pg = i} \cup SlotsInPlace)

\* What a careful client sees to before it calls malloc or free: if it has pages
\* then page 0 is in its frame, where the first access after a switch puts it.
FirstInPlace ==
  pageNum[current] > 0 => table[0].th = current /\ table[0].pg = 0

\* myallocate(.., THREADREQ) up to the test of pages[0].  swapToMemFromDisk
\* pauses the timer a second time.
MallocEnter ==
  /\ Followed
  /\ pc = "user"
  /\ Careful => FirstInPlace
  /\ AlignPages
  /\ armed' = FALSE
  /\ saved' = (armed /\ SlotsInPlace = {})
  /\ pc' = "aligned"
  /\ UNCHANGED <<pageNum, current, dead, need, clobbered>>

NewEntry == [th |-> current, pg |-> pageNum[current], free |-> FALSE]

\* Mutants: the page in the way is not moved; every new page is numbered 0.
NewPage_Overwrites(i, to) ==
  /\ table' = [table EXCEPT ![i] = NewEntry]
  /\ bytes' = [bytes EXCEPT ![i] = <<current, pageNum[current]>>]
  /\ prot' = prot \ {i}
  /\ pageNum' = [pageNum EXCEPT ![current] = @ + 1]
  /\ pc' = to
  /\ UNCHANGED <<current, dead, armed, saved, clobbered>>

NewPage_SameNumber(i, to) ==
  \E p \in FirstOf(FreePlaces) :
    /\ table' = [table EXCEPT ![p] = table[i], ![i] = [NewEntry EXCEPT !.pg = 0]]
    /\ bytes' = [bytes EXCEPT ![p] = bytes[i], ![i] = <<current, 0>>]
    /\ prot' = (prot \cup ({p} \cap Frames)) \ {i}
    /\ pageNum' = [pageNum EXCEPT ![current] = @ + 1]
    /\ pc' = to
    /\ UNCHANGED <<current, dead, armed, saved, clobbered>>

\* Frame i of f, if there is one; and its bytes, which are nobody's past the end
\* of the memory.
Stored(f, i, e) == IF i \in Frames THEN [f EXCEPT ![i] = e] ELSE f
BytesOf(i) == IF i \in Frames THEN bytes[i] ELSE <<0, 0>>

\* What frame i holds, entry g, goes to the first free place p, which is then
\* protected if it is a frame; initializePage(i) unprotects only the frame of
\* page 0.
Moves(i, p, g, to) ==
  /\ table' = Stored([table EXCEPT ![p] = g], i, NewEntry)
  /\ bytes' = Stored([bytes EXCEPT ![p] = BytesOf(i)], i, <<current, pageNum[current]>>)
  /\ prot' = IF p = i THEN (IF pageNum[current] = 0 THEN prot \ {i} ELSE prot)
             ELSE (prot \cup ({p} \cap Frames)) \ {i}
  /\ pageNum' = [pageNum EXCEPT ![current] = @ + 1]
  /\ IF p \in Frames /\ (p = i \/ p \notin prot) THEN UNCHANGED <<armed, saved>> ELSE PauseUnpause
  /\ pc' = to
  /\ UNCHANGED <<current, dead, clobbered>>

\* memcpy runs into frame p, which is protected.  sigHandler takes this for an
\* access to page p of the thread, and brings that page in from q; the copy goes
\* over it, and the page that was to be moved is left with what frame p held.
MovesOver(i, p, g, q, to) ==
  /\ table' = Stored([table EXCEPT ![p] = table[q], ![q] = g], i, NewEntry)
  /\ bytes' = Stored([bytes EXCEPT ![p] = BytesOf(i), ![q] = bytes[p]],
                     i, <<current, pageNum[current]>>)
  /\ prot' = (prot \cup ({p, q} \cap Frames)) \ {i}
  /\ pageNum' = [pageNum EXCEPT ![current] = @ + 1]
  /\ saved' = FALSE /\ armed' = FALSE
  /\ pc' = to
  /\ clobbered' = clobbered \cup {<<current, p>>}
                            \cup (IF g.free THEN {} ELSE {<<g.th, g.pg>>})
  /\ UNCHANGED <<current, dead>>

\* moveToFreeSpace(i) or else moveToDiskSpace(i), then initializePage(i).  The
\* entry is stored before the bytes are copied, so that it is among those that
\* sigHandler searches.  If it finds the entry in frame p itself, nothing is
\* lost; if it finds none, or the one in frame i, which it then protects, the
\* process exits.  The word past the end of pages may contain anything.
NewPage(i, to) ==
  \E p \in FirstOf(FreePlaces), g \in (IF i \in Frames THEN {table[i]} ELSE Entry) :
    LET found == FirstOf(Holding([table EXCEPT ![p] = g], current, p))
    IN  IF p = i \/ p \notin prot \/ found = {p}
        THEN Moves(i, p, g, to)
        ELSE IF found \subseteq {i}
        THEN Exits
        ELSE \E q \in found : MovesOver(i, p, g, q, to)

\* "this is the first allocation for this thread" (my_pthread.c:1553), or page 0
\* of the thread is not in frame 0: then it gets its next page there, with the
\* headers of another thread's blocks in it.
FirstPage ==
  /\ Followed
  /\ pc = "aligned"
  /\ table[0].th # current
  /\ FreePlaces # {}
  /\ NewPage(0, "walk")
  /\ UNCHANGED need

\* "could not allocate."  unpause_timer is not called.
NoFirstPage ==
  /\ Followed
  /\ pc = "aligned"
  /\ table[0].th # current
  /\ FreePlaces = {}
  /\ pc' = "user"
  /\ PauseUnpause
  /\ UNCHANGED <<table, bytes, prot, pageNum, current, dead, need, clobbered>>

HasFirstPage ==
  /\ Followed
  /\ pc = "aligned"
  /\ table[0].th = current
  /\ pc' = "walk"
  /\ UNCHANGED <<table, bytes, prot, pageNum, current, dead, need, armed, saved, clobbered>>

\* Mutant: the free places are miscounted.
Grow_CountsOneMore(k) ==
  /\ Followed
  /\ pc = "walk"
  /\ Careful => pageNum[current] + k <= NFrames
  /\ Cardinality(FreePlaces) + 1 >= k
  /\ need' = k
  /\ pc' = "gather"
  /\ UNCHANGED <<table, bytes, prot, pageNum, current, dead, armed, saved, clobbered>>

\* isEnoughPages: no block of the chain fits, and k more pages are wanted.  A
\* careful client does not ask for more than the memory has (see ThreadHeap).
Grow(k) ==
  /\ Followed
  /\ pc = "walk"
  /\ Careful => pageNum[current] + k <= NFrames
  /\ Cardinality(FreePlaces) >= k
  /\ need' = k
  /\ pc' = "gather"
  /\ UNCHANGED <<table, bytes, prot, pageNum, current, dead, armed, saved, clobbered>>

\* One round of gatherPages.
GatherPage ==
  /\ Followed
  /\ pc = "gather"
  /\ need > 0
  /\ need' = need - 1
  /\ NewPage(pageNum[current], "gather")

\* mydeallocate(.., THREADREQ) has no pages to align.
FreeEnter ==
  /\ Followed
  /\ pc = "user"
  /\ pageNum[current] > 0
  /\ Careful => FirstInPlace
  /\ pc' = "walk"
  /\ pause_timer
  /\ UNCHANGED <<table, bytes, prot, pageNum, current, dead, need, clobbered>>

\* myallocate and mydeallocate return.
Return ==
  /\ Followed
  /\ pc = "walk" \/ (pc = "gather" /\ need = 0)
  /\ pc' = "user"
  /\ unpause_timer
  /\ UNCHANGED <<table, bytes, prot, pageNum, current, dead, need, clobbered>>

\* freeAndMerge, started in the wrong place, runs out of the memory (see
\* ThreadHeap).
WalkCrashes ==
  /\ Followed
  /\ pc = "walk"
  /\ Exits
  /\ UNCHANGED need

-----------------------------------------------------------------------------
(* schedule()                                                              *)

\* Mutant: protectAllPages is called for the thread that comes.
Switch_ProtectsNext(u) ==
  /\ Followed
  /\ pc = "user"
  /\ u # current
  /\ u \notin dead
  /\ prot' = prot \cup Own(u)
  /\ current' = u
  /\ armed' = TRUE
  /\ saved' = TRUE
  /\ UNCHANGED <<table, bytes, pageNum, dead, pc, need, clobbered>>

\* The timer is set, protectAllPages(justRun) and swapcontext are called.
Switch(u) ==
  /\ Followed
  /\ pc = "user"
  /\ u # current
  /\ u \notin dead
  /\ prot' = prot \cup Own(current)
  /\ current' = u
  /\ armed' = TRUE
  /\ saved' = TRUE
  /\ UNCHANGED <<table, bytes, pageNum, dead, pc, need, clobbered>>

\* The EXITING branch: freePages unprotects the frames of the thread and marks
\* them free, and protectAllPages(justRun) protects them again.
Exit(u) ==
  /\ Followed
  /\ pc = "user"
  /\ u # current
  /\ u \notin dead
  /\ table' = [p \in Place |-> IF p \in Own(current)
                                 THEN [table[p] EXCEPT !.free = TRUE] ELSE table[p]]
  /\ prot' = prot \cup Own(current)
  /\ dead' = dead \cup {current}
  /\ current' = u
  /\ armed' = TRUE
  /\ saved' = TRUE
  /\ UNCHANGED <<bytes, pageNum, pc, need, clobbered>>

Next ==
  \/ \E n \in Frames : Access(n)
  \/ MallocEnter
  \/ FirstPage
  \/ NoFirstPage
  \/ HasFirstPage
  \/ \E k \in 1..NFrames + NSlots : Grow(k)
  \/ GatherPage
  \/ FreeEnter
  \/ Return
  \/ WalkCrashes
  \/ \E u \in Thread : Switch(u)
  \/ \E u \in Thread : Exit(u)

Spec == Init /\ [][Next]_vars

-----------------------------------------------------------------------------
TypeOK ==
  /\ table \in [Place -> Entry]
  /\ bytes \in [Place -> Page]
  /\ prot \subseteq Frames
  /\ pageNum \in [Thread -> 0..NFrames]
  /\ current \in Thread
  /\ dead \subseteq Thread
  /\ pc \in PC
  /\ need \in 0..NFrames
  /\ armed \in BOOLEAN /\ saved \in BOOLEAN
  /\ clobbered \subseteq Page

\* However often pages are moved, swapped out and swapped in, a page is in one
\* place only: sigHandler's search has at most one answer.
OnePlace ==
  \A p, q \in Place :
    /\ ~table[p].free /\ ~table[q].free
    /\ table[p].th = table[q].th
    /\ table[p].pg = table[q].pg
    => p = q

\* "The handler will find the correct data and swap it" (my_pthread.c:1201): no
\* page of a living thread ever drops out of the table.
NoPageLost ==
  \A t \in Thread \ dead : \A n \in 0..pageNum[t] - 1 :
    \E p \in Place : ~table[p].free /\ table[p].th = t /\ table[p].pg = n

\* The table never says anything of a place that its contents do not bear out:
\* memcpy, fread and fwrite move the bytes along with the entries, unless the
\* memcpy of moveToFreeSpace was caught by the protection.
BytesFollowTable ==
  \A p \in Place :
    ~table[p].free /\ <<table[p].th, table[p].pg>> \notin clobbered
      => bytes[p] = <<table[p].th, table[p].pg>>

\* The pairs of pause_timer and unpause_timer nest: one inside myallocate or
\* mydeallocate, in sigHandler or around the swap file, does not start the timer
\* before the outer pair ends, so no alarm interrupts the library half-way.
NoAlarmInside == pc \notin {"user", "exited"} => ~armed

\* isEnoughPages counts right: gatherPages never runs out of room half-way.
GatherHasRoom ==
  pc = "gather" => Cardinality(FreePlaces) >= need

\* Words are as good as the records kept here: when an entry is stored over any
\* other, field by field, setPageThID and its kin leave nothing of the old page,
\* thread or flag behind.
WordsKeepEntries ==
  \A p, q \in Place : UnpackPage(PackPage(PackPage(0, table[q]), table[p])) = table[p]

(***************************************************************************)
(* What makes these invariants inductive: what is free belongs to nobody   *)
(* who still runs, what is used is numbered below its thread's pageNum     *)
(* (so a new page is new), gatherPages stays inside the memory, and what   *)
(* myallocate takes for a first allocation is one.  The last two rest on   *)
(* the client.                                                             *)
(***************************************************************************)
CurrentLives == current \notin dead
FreeIsNobodys == \A p \in Place : table[p].free => table[p].th \notin Thread \ dead
UsedIsCounted ==
  \A p \in Place : ~table[p].free => /\ table[p].th \in Thread
                                    /\ table[p].pg < pageNum[table[p].th]
GatherStaysInside == pc = "gather" => pageNum[current] + need <= NFrames
AlignedIsFirst == pc = "aligned" /\ pageNum[current] > 0 => table[0].th = current

TableInv == OnePlace /\ NoPageLost /\ BytesFollowTable /\ FreeIsNobodys /\ UsedIsCounted

PageInv ==
  /\ TypeOK
  /\ TableInv
  /\ Isolation
  /\ NoAlarmInside
  /\ GatherHasRoom
  /\ CurrentLives
  /\ GatherStaysInside
  /\ AlignedIsFirst
=============================================================================
