# Formal models of OS2017

TLA+ models of the programs in this repository: the user-level thread library
(`src/my_pthread`), the allocator it grew out of (`src/MallocStuff`) and the
FUSE file system (`src/assignment3`).  TLC checks the models on small
instances; TLAPS proves theorems about five of them for every instance.

## The system

**Thread library** (`my_pthread.c`).  One kernel thread runs all user threads.
`schedule()` switches between them; it is called by the SIGALRM handler and at
the end of `my_pthread_yield`, `_exit` and `_join`.  Threads wait in a run queue
of five levels, or on `joinList`.  Every hundred calls `maintenance()` moves
threads up.  A library function that must not be interrupted stops the interval
timer (`pause_timer`) and starts it again.  The mutexes do not: they are
spinlocks, and share one list that is searched by id.  `myallocate` and
`mydeallocate` serve the library (LIBRARYREQ) from one chain of blocks, and
threads (THREADREQ) from pages that are protected, moved and swapped to a file
when another thread runs.

**Allocator** (`mymalloc.c`).  First fit on a linked list of blocks, with
16-bit sizes.

**File system** (`sfs.c`, `block.c`).  A flat directory on a disk file: an inode
bitmap, a block bitmap, 128 inodes with 1024 block numbers each, and data blocks
of 16384 bytes.

| part | modules | state |
|---|---|---|
| thread scheduler | `Scheduler`, `MCScheduler` | modelled |
| mutexes | `Mutex`, `MCMutex`, `MutexProofs` | modelled, proved |
| library heap | `LibHeap`, `Allocator`, `MCLibHeap`, `LibHeapProofs` | modelled, proved |
| stand-alone allocator | `MyMalloc`, `MCMyMalloc` | modelled |
| context switching | `ContextSwitch`, `MCContextSwitch`, `ContextSwitchProofs` | modelled, proved |
| page table, swapping, SIGSEGV handler | `PageTable`, `PageTableProofs` | modelled, proved |
| thread heap | `ThreadHeap`, `MCThreadHeap`, `PageTableProofs` | modelled, proved in part |
| header and page words | `Words`, `WordsProofs` | modelled, proved |
| formatting and remount | `SFS`, `MCSFS` | modelled |
| file system handlers | `SFS`, `FileStore`, `MCSFS` | in part: no write beyond the end of a file |
| disk blocks | in `SFS` | in part: writes are atomic and do not fail |
| timer discipline | in `Scheduler`, `PageTable`, `ContextSwitch` | in part: `pause_timer` works |
| concurrent file system handlers | | not modelled |
| DISKREQ branch of `myallocate` | | dead code: no caller, root never set |
| logging, `fuse.h`, `config.h` | | output only, vendored, generated |

`PROJECT.json` has the line ranges each definition translates (`map`), the
places where the code is easy to get wrong (`hazards`), and the runs.

## The models

### Scheduler

Threads are their ids: main is 1, and later threads have larger ids.  `runQ`,
`joinList`, `status`, `priority`, `joinee`, `cycles` are the fields of the same
names; `armed` says that the interval timer is running.  `pc` says where a thread
goes on when it gets the CPU.

The only concurrency is the alarm.  Between `pause_timer` and `unpause_timer`
a call cannot be interrupted and is one action.  The calls unpause the timer
*before* they call `schedule()`, so each has a window, `yieldWin`, `exitWin` or
`joinWin`, in which `Tick` may come first and `schedule()` then runs twice.

| action | code |
|---|---|
| `Initialize`, `Create`, `CreateFails` | `initialize`, `my_pthread_create` |
| `Yield`, `Exit`, `ThreadReturns`, `JoinLive` | the calls up to `unpause_timer` |
| `CallSchedule` | the `schedule()` that ends them |
| `JoinDead`, `JoinReturns` | the two ways out of `my_pthread_join` |
| `Tick` | `timerHandler` |
| `ProcessExits` | return from `main`, or from `my_pthread_exit` with nothing to run |

`Schedule` is the whole of `schedule()`: `Maintenance`, then `Requeued` for the
four branches on `status`, then `Dispatch` (`getNextNode`).  `WakeFrom` is the
loop over `joinList` after a death, `removeFromList` included.

A *client* says how the library is used: whether its threads are preempted,
which joins it makes, and whether main stays out of join and exit.  Each run
names the clients it is about.

What the model leaves out or takes for granted:

- `pause_timer` stops the timer.  In the code, fields of the value it passes
  are uninitialised.
- Nested pauses are modelled: the allocations inside `my_pthread_create`
  pause again and save a zero, so that the timer stays off afterwards.
- `schedule()` is one step.  It starts the timer shortly before `swapcontext`;
  what an alarm does there is in `ContextSwitch`.
- A node has a single `next`.  When a node of `joinList` is linked in somewhere
  else the list is cut there (`CutAt`), and when it is inserted again the list
  runs in a circle.  The model takes the step, so that `NoNodeQueuedTwice` and
  `NoThreadLost` see it, and goes no further (`Intact`).
- `clock()` advances between two creations, so ids order threads by age.
- A thread does nothing after `my_pthread_exit`.

### Mutex

Nothing here pauses the timer, so every access to shared memory is an action:
the test, allocation and clearing of the list in `initMutexList`, the load and
the store of `++currMutexID`, the two halves of `insertToMutexList`, the
test-and-set, the **two** stores of `my_pthread_mutex_unlock`, the unlinking and
the clearing in `my_pthread_mutex_destroy`.  Searches of the list are one step.

The client keeps to POSIX: it unlocks what it holds, does not lock twice, and
initialises and destroys only what nobody uses.  With `UseAny` it also locks
mutexes that are not initialised, which the code lets pass.  With `SetupAlone`
any thread may call init and destroy, but one at a time; without, TLC finds an
initialised mutex that is not in the list, and a list that does not end.  The
alarm may fall anywhere, between the two stores of unlock too.  `torn` is a
history variable: the mutexes that the second store has opened under a holder
since their init.  The memory of a new list object holds anything until its head
is stored (`AllocList`).  The `-1` of `lock` changes nothing and is no action.

### LibHeap and Allocator

`heap` maps the addresses of the headers in the chain to size, isNext and isF.
A walk visits headers in address order, so first fit is the lowest fit.  Both
functions run with the timer paused and are one action each.  The header that a
merge unlinks leaves the domain; its word stays in memory but no walk reaches
it.  A rejected free changes nothing (`DeallocateRejected`).  Headers are records;
`WordsKeepHeaders` says that the words of `Words` carry them.

`Allocator` is what callers may rely on: pointers handed out and their sizes,
pairwise disjoint, each ended only by its own free.

### MyMalloc

The same algorithm with `next` pointers and sizes modulo 2^16 (`Word`).  The
refinement mapping to `LibHeap` reads `isNext` as `next # NULL`.  A free before
the first malloc follows a null root and is left out.

### ContextSwitch

What `schedule()` hides from `Scheduler`: where each thread's registers are.
`saved` is `node->ut`, `exec` the stack the CPU is on, `blocked` the mask of
SIGALRM.  `schedule()` is cut at the points where an alarm matters.  `Dispatch`
goes from the requeueing to the start of the timer, `Swapcontext` is the call,
`ReturnFromSchedule` the end of `schedule()` and, if it was the caller, of
`timerHandler`.  `Requeues`, `Waits` and `Dies` are the branches on `status`; an
alarm may take any of them, because `status` can be left over from a join.  The
next node is any node of the run queues: which one, `Scheduler` says.
`FunctionReturns` follows `uc_link` to the one stack of `terminationHandler`.

Two things destroy contexts that the code does not prevent: an alarm between
`setitimer` and `swapcontext` that picks a third thread (`Dispatch` with
`pc = "switch"`), and a thread function that returns while another thread waits
in `terminationHandler` (`FunctionReturns`).  The model takes these steps and
notes the threads hit in the history variable `lost`; the properties are about
all other threads.  It follows the program until a thread that is hit gets the
CPU (`Derailed`).

### PageTable and ThreadHeap

`table` is `pages` followed by `diskPages`, `bytes` says whose bytes a frame or
slot contains, `prot` are the frames that are `PROT_NONE`.  The loops of
`myallocate` for THREADREQ are cut into steps where a fault can come:

| action | code |
|---|---|
| `MallocEnter` | `myallocate` to `alignPages` |
| `FirstPage`, `NoFirstPage`, `HasFirstPage` | the test of `pages[0]` and the first page |
| `Grow`, `GatherPage` | `isEnoughPages`; one round of `gatherPages` with `moveToFreeSpace`, `moveToDiskSpace`, `initializePage` |
| `FreeEnter`, `Return` | `mydeallocate`; both returns with `unpause_timer` |
| `Access` | a load or store that faults, and `sigHandler` |
| `Switch`, `Exit` | `protectAllPages`, `freePages` in `schedule()` |

`ThreadHeap` adds the chain of blocks of each thread, with the operators of
`LibHeap`, and the walk along it: `todo` are the pages it has yet to touch, and
each may fault.  Every action of `ThreadHeap` is an action of `PageTable` with
what it does to the chain (`HeapImplementsPageTable`).

What the code gets wrong is done as the code does it:

- `myallocate` takes a thread whose page 0 is not in frame 0 for a new one
  (1551) and puts its next page there (`FirstPage`).
- `freePages` frees the frames of a dead thread and `protectAllPages` protects
  them again.  The `memcpy` of a later `moveToFreeSpace` into one faults;
  `sigHandler` exits, or swaps a page in that the copy then destroys
  (`MovesOver`).  The history variable `clobbered` names the pages whose bytes
  are lost in this way, and a thread that has one is not followed into malloc
  and free (`Wrecked`).
- The size of a taken last block is subtracted from the bytes wanted, so
  `isEnoughPages` may ask for too few pages; the rest then gets a size below zero
  in 24 bits (`TakenAnyway`).  The test of `bytesLeft` lets the last page lie
  past the memory (`BytesOf`, `Stored`).
- `freeAndMerge` starts at the first frame of the thread, with the index scaled
  once more by the pointer type if it is not 0 (`FreeStarts`).

The model goes no further once `Isolation` is lost or a thread has a page past
the memory (`Followed`), or the process has exited.  A *careful* client
(`Careful`) avoids the first, third and fourth: when it calls malloc or free,
page 0 is in its frame (`FirstInPlace`; the first access after a switch puts it
there), and a request that needs more pages is one for which their number is
right (`PagesAreRight`).  It cannot avoid the second.

Swap slots of dead threads are never freed.  Nested pauses leave the timer off
after the call, a fault that is served from the swap file leaves it off too, and
`NoFirstPage` returns without unpausing; all are in the model.  Requests before
the first `my_pthread_create` go to the library heap.

### Words

The setters and getters as arithmetic: a shift is a product or quotient, an `|`
of disjoint fields a sum.  `PackBlock` and `PackPage` store the fields one after
the other over an arbitrary word, as the code does.

### SFS and FileStore

`fs` is the disk: the magic number, the used inodes and blocks, the inode table,
the data blocks.  It starts empty; `mount` goes through the block writes of
`sfs_init` (`SetFileInit`, `FormatImap`, `FormatBmap`, `MarkRoot`, `WriteRoot`),
or straight to "on" if the magic number is there (`Remount`).  A handler is one
action.  `sfs_write` is translated loop by loop: `WriteByte` is a round of the
loop over bytes, `Extend` the allocation when the size reaches a block boundary,
`NextBlock` the change of block.  Return paths that do not write the inode back
leave it as it was, and blocks they marked stay marked.  The word behind
`data[]` is `hardlinks`, as the compiler lays it out.

A crash stops `sfs_init`, `sfs_create` or `sfs_write` after any of its block
writes, and the next mount finds what was written: `past` in `Write` holds all
disks on the way.  A block write is atomic.

Clients create paths that do not exist, write no further than the end of the
file and never past the largest size, and remove a file only while the loop of
unlink stays inside `data[]`.  There are three: one that crashes and removes
nothing; one that removes a file when it is the only one; and, for the run that
fails, one that removes files at any time.

`FileStore` is a function from paths to bytes.  `ImplementsFileStore` says that
a failed or interrupted write is a shorter write, and that crashes and remounts
change no file.

## What TLC checks

| run | shows |
|---|---|
| `sched_preempt` | Main stays, two threads join the same one, and alarms come wherever the timer runs: no thread is lost (`NoThreadLost`) or queued twice (`NoNodeQueuedTwice`), a thread waits at its own level (`LevelMatchesQueue`), the dead do not run (`DeadNeverScheduled`), a death wakes all its joiners (`DeathWakesAllJoiners`), each level is a FIFO (`FifoWithinLevel`). |
| `sched_turns` | A client without alarms: join waits exactly for the death (`WaitersOfTheLiving`, `JoinWaitsForDeath`), returns after it (`JoinReturnsAfterDeath`), and the lists stay apart (`NoNodeQueuedTwice`), although everybody joins and exits.  And one of threads that only compute: none starves (`ReadyRuns`). |
| `heap` | The chain tiles the arena (`ChainTilesHeap`), free neighbours are merged (`NoFreeNeighbours`), nothing leaks (`FreedHeapIsRoot`, `FreeUndoesAllocate`), headers fit their words (`WordsKeepHeaders`), and the heap is an `Allocator` (`ImplementsAllocator`). |
| `mymalloc` | The linked list takes the steps of `LibHeap`, also for sizes that overflow 16 bits (`ImplementsLibHeap`). |
| `mutex_calls` | Two threads hold a mutex at once only if the second store of an unlock has opened it (`ExclusiveUnlessTorn`); the list holds the initialised mutexes and ends (`ListTracksInitialised`, `ListEnds`); destroy spares what is held (`DestroySparesHeld`). |
| `sfs` | From an empty disk, through formatting, growth, a full disk, removal, crash and remount: files share no block (`BlocksOwnedOnce`); reads and writes are exact across blocks (`ReadIsExact`, `WriteIsExact`); what succeeds leaks no block, on disks with leaks too (`SuccessLeaksNothing`); every file is listed (`ReaddirListsFiles`); the disk is a `FileStore` (`ImplementsFileStore`). |
| `thread_memory` | For careful clients, whatever is moved, swapped and faulted in: a page is in one place and never lost (`OnePlace`, `NoPageLost`), with its bytes unless a faulting copy took them (`BytesFollowTable`); a thread can touch only its own pages (`Isolation`); `gatherPages` has room (`GatherHasRoom`); no alarm comes inside (`NoAlarmInside`); table entries fit their words (`WordsKeepEntries`); the blocks of a thread tile its pages (`ChainTilesPages`); and a walk keeps the pages it has reached (`WalkStaysInPlace`). |
| `context_switch` | But for the threads whose context was destroyed: the running thread is `scd->current` (`CurrentRuns`); who waits finds its own stack again (`ContextsKept`); nobody runs with SIGALRM blocked (`UserMaskOpen`). |

`TypeOK` (`HeapTypeOK` in `ThreadHeap`) documents the types of a module's state.
No run lists it: for `LibHeap`, `Mutex`, `PageTable` and `ContextSwitch` it is
part of what is proved, elsewhere it is documentation.

Four runs show where code and comments disagree; each ends in a
counterexample.

| run | counterexample |
|---|---|
| `sched_lostjoin` | `my_pthread_join` returns with status JOINING; the next alarm puts the thread back on `joinList`, waiting for a thread that is dead. |
| `mutex_unlock` | An alarm between the two stores of unlock: another thread locks, and the second store unlocks it again. |
| `sfs_unlink` | `sfs_unlink` frees one block number too many, and it may belong to another file. |
| `thread_memory_first` | Thread 1 allocates, thread 2 allocates and displaces page 0 of thread 1, thread 1 allocates again without having touched its memory: frame 0 holds page 1 of thread 1, unprotected, and its page 0 is in frame 1. |

Other differences seen in the source while modelling, which no run is about: an
alarm in the window of `my_pthread_yield` demotes the thread (793 promises its
level); `maintenance()` moves the youngest up, not the oldest (500, 527);
`lock` accepts uninitialised mutexes (884); two threads in
`my_pthread_mutex_init` at once lose list entries or share ids (409, 868); a
joiner can be linked into `joinList` twice when nothing else is runnable (625);
an alarm between `setitimer` and `swapcontext` (645) and a second return onto the
termination stack (713) destroy contexts; a copy into the frame of a dead thread
faults (1133); the number of pages can be too small (1633) or too large for the
memory (1618), and a free can start in the wrong place (1306);
`sfs_read` reads past the end (522, 563); `sfs_create` returns 0 when all inodes
are used (423).  The models contain these behaviours.  After a crash in
`sfs_init` the disk has the magic number and is never formatted: all blocks may
be marked used for good, or inode 0 is free and a file in it is not listed; hence
the condition in `ReaddirListsFiles`.  Not in the models: the loop of `sfs_write`
that fills a gap starts one block late, and the size counts bytes written instead
of the position (619).

### Bounds

- `sched_preempt`: four threads, three levels, maintenance every third call.
  One thread can have two joiners, with another thread still runnable; two nodes
  per level are the least that maintenance can divide.  Levels and cycles in the
  code are 5 and 100; no branch depends on those numbers otherwise.
- `sched_turns`: three threads on two levels, so that there is one level to
  starve on and threads to starve behind, a joiner of each, and joins in a row.
- `heap`: eight words.  Request sizes include 0, an exact fit, sizes one below
  and above a word, and the whole arena.
- `mymalloc`: a 6-bit short instead of 16 bits, with sizes on both sides of it.
- `mutex_calls`: two threads, three mutexes (first, middle and last of the
  list), four initialisations so that ids pass through destroy and init again.
  Mutexes are symmetric, and so are threads.
- `sfs`, `sfs_unlink`: two-byte blocks, three block numbers per inode, four data
  blocks, three inodes with the root's; writes of up to three bytes cross a
  boundary, a file reaches its largest size, and two files fill the disk.  Each
  file has bytes of its own, so that a shared block shows.
- `thread_memory`, `thread_memory_first`: three threads, three frames, one swap
  slot, pages of three words.  A thread can own every frame, together they need
  more than there is, the first page of a third can be refused, and a copy can run
  into the frame of a dead thread.  Requests of 1 and 5 words: a page with room
  for a split, and more than a page.  The proofs have no such bounds.
- `context_switch`: four threads, so that one can be preempted in
  `terminationHandler`, one return, one wait and one run.  All but main are
  symmetric.

Deadlock is not checked for the scheduler and the context switch (the process
exits), the thread memory (it may exit too) and the mutexes (clients may lock two
mutexes in opposite orders and wait for ever, which the library does not
prevent); it is checked for the allocators and the file system.
Where a model goes no further it simply has no step, and its properties are about
all states up to there, that one included.

### Fairness

`LiveSpec` assumes that an armed timer expires, that library code between two
statements goes on, and that the running thread of a client that is never
preempted eventually yields; of threads that are preempted it assumes nothing.
`ReadyRuns` holds when the timer is not left off for good, which nested pauses
can do, and yields come to an end.  Without the second condition it fails: a
thread that yields for ever keeps level 0 busy, and each `maintenance()` moves
the youngest thread of level 1 up and leaves the oldest there, which then never
runs.  No liveness of `my_pthread_mutex_lock` is claimed: a spinning thread may
lose every race.

## What is proved

`LibHeapProofs`, for every arena size, header size and set of request sizes
(`LibHeapAssumption`).  That the chain tiles the arena is inductive together
with the types, but that free neighbours never occur is not on its own: to
merge correctly, `freeAndMerge` needs the tiling to know that what it finds at
the computed address is a header, and that one block at most lies in front.  So
the invariant is `HeapInv`: `Sound` (types and `Tiled`) and `Coalesced`.  Two
lemmas carry the work: `SplitKeepsSound` for the split of `Taken` and
`MergeKeepsSound` for one merge; `TakenKeepsInvariant` and
`FreeKeepsInvariant` put them together.

- `TypeCorrect`, `ChainAlwaysTilesHeap`, `NeverFreeNeighbours` follow from it.
- `NothingLeaks`: a heap of free blocks only has one block.
- `FreeAlwaysUndoesAllocate`: the free undoes the split, since the block behind
  the split one cannot be free.
- `HeapImplementsAllocator`: each call maps to a step of `Allocator` or to none.
- `HeadersFitWords`: a block lies inside the arena, so its size fits 24 bits, and `BlockWordsFaithful` applies.

`MutexProofs`, for any number of threads and mutexes and an alarm at any access,
with init and destroy called one at a time (`SetupAlone`).  `CallInv` says that a
mutex in init or destroy is used by nobody else; `IdInv` that ids come from a
counter that nobody else changes; `LockInv` that what is held is locked, unless
it is torn.  `CallInv` needs `IdInv`: only with distinct ids does destroy find
the mutex it was given.

- `TypeCorrect`.
- `LockExcludes`: `ExclusiveUnlessTorn`.  The run `mutex_unlock` shows that torn
  mutexes occur.
- `ListAlwaysTracks`, `ListAlwaysEnds`, from `ListInvariant`.  What the walk of
  the list returns cannot be had by induction here, so `ListInv` says that some
  finite sequence without repetition lists the tracked mutexes along `next`
  (`Linked`); lemmas show what an insertion at the head, an unlinking and a store
  to a mutex outside do to it, and `ChainIsList` that the walk follows it.

`WordsProofs`: `BlockWordsFaithful` and `PageWordsFaithful`, for every word and
every record whose fields fit.  Each setter is a sum of fields (`BlockWord`,
`PageWord`), and division with rest takes the sum apart.

`PageTableProofs`, for up to 255 threads, up to 65535 frames and any number of
slots (`PageTableAssumption`), and careful clients.  That no page is lost is not
inductive: a new page replaces what was free, so nothing free may belong to a
living thread (`FreeIsNobodys`); and a new page must be new, so used entries are
numbered below `pageNum` (`UsedIsCounted`).  `GatherHasRoom` needs `gatherPages`
to stay inside the memory, and `Isolation` that what is taken for a first
allocation is one (`AlignedIsFirst`).  These together are `PageInv`
(`PageTableInvariant`).  `NewPageInv` treats the three ways a page is added: the
plain move, the copy that runs into a protected frame, and the exit.

- `HeapImplementsPageTable`, for any client: each step of `ThreadHeap` is one of
  `PageTable`, or leaves it alone, so all that follows holds while threads
  allocate and free.
- `ThreadsAreIsolated`, `PagesAreKept`, `AllocatorUndisturbed`.
- `EntriesFitWords`, from `PageWordsFaithful`.

`ContextSwitchProofs`, for any number of threads: `SwitchingIsSound`.  The
invariant `ContextInv` adds to the properties that the CPU is on the stack its
frame says and has the frame's mask (`ExecFollows`), that only a thread that is
lost can come back into the middle of a switch (`NestedLost`), that who runs does
not wait (`QueuesApart`), that the termination stack has one user
(`TermStackFree`), and that masks are saved as the frames say (`MasksSaved`).

Only model-checked: everything about `Scheduler`, `SFS` and `MyMalloc`; the
thread's chain of blocks; `DestroySparesHeld`; liveness.

## Not modelled

- `pause_timer` with its uninitialised fields.  If it does not stop the timer,
  nothing in the library is protected from the alarm and no property is left.
- Concurrent handlers of the file system.  They hold no lock; two that
  interleave lose updates of the bitmaps at once.  A crash inside `sfs_unlink`,
  or in `sfs_create` on the inode of a removed file, is left out for the same
  reason: `BlocksOwnedOnce` fails in one step, and no code is there to prevent
  it.
- Writes with a gap (above), torn block writes and I/O errors.
- `Scheduler` and `Mutex` together, a spinning thread of high priority against a
  holder of low priority: not pursued, as the liveness check of the product is
  far larger than that of `sched_turns`.
- `createNode` with no memory left, which follows a null pointer.
- DISKREQ is dead code.  Logging is output only.  `fuse.h` and `config.h` have
  no code of this repository.  `main` and `test` in `my_pthread.c` are a demo.
