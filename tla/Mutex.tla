------------------------------- MODULE Mutex -------------------------------
(***************************************************************************)
(* The mutexes of my_pthread.c: my_pthread_mutex_init, _lock, _unlock and  *)
(* _destroy, and the list mutexList they share.  None of them pauses the   *)
(* timer, so a thread can lose the CPU between any two of their memory     *)
(* accesses: every access to shared state is a step of its own.            *)
(*                                                                         *)
(* The client is disciplined in the POSIX way: it unlocks only what it     *)
(* holds, does not lock twice, and initialises and destroys only mutexes   *)
(* that no thread is using.  If SetupAlone it also lets one thread at a    *)
(* time into init and destroy, whichever thread that is.                   *)
(***************************************************************************)
EXTENDS Integers, FiniteSets

CONSTANTS
  Threads,
  Mutexes,
  NULL,
  SetupAlone,     \* does the client keep its calls of init and destroy apart?
  MaxInits,       \* bound: calls of my_pthread_mutex_init
  UseAny          \* does the client also lock mutexes that are not initialised?

ASSUME MutexAssumption ==
  /\ NULL \notin Mutexes
  /\ IsFiniteSet(Mutexes)
  /\ SetupAlone \in BOOLEAN
  /\ MaxInits \in Nat
  /\ UseAny \in BOOLEAN

VARIABLES
  mutexList,    \* mutexList # NULL: the list has been allocated
  head,         \* mutexList->head
  next,         \* m->next
  mutexID,      \* m->mutexID
  isInit,       \* m->isInit = 1
  isLocked,     \* m->isLocked = 1
  currMutexID,
  pc,           \* the next access of the call a thread is in
  arg,          \* the mutex of that call
  newID,        \* the incremented currMutexID, in a register
  prev,         \* prev of removeFromMutexList
  holds,        \* the mutexes a thread has locked and not unlocked
  torn          \* history: since its init, the mutex has been opened under its
                \* holder by the second store of another thread's unlock

vars == <<mutexList, head, next, mutexID, isInit, isLocked, currMutexID,
          pc, arg, newID, prev, holds, torn>>

Pointer == Mutexes \cup {NULL}

PC == {"idle", "initList", "allocList", "clearList", "loadID", "storeID",
       "readHead", "linkHead", "spin", "storeUnlocked", "unlink", "clear"}

\* In init or destroy, from the call to the last store.
Setup == PC \ {"idle", "spin", "storeUnlocked"}

Init ==
  /\ mutexList = FALSE
  /\ head = NULL
  /\ next = [m \in Mutexes |-> NULL]
  /\ mutexID = [m \in Mutexes |-> 0]
  /\ isInit = [m \in Mutexes |-> FALSE]
  /\ isLocked = [m \in Mutexes |-> FALSE]
  /\ currMutexID = 0
  /\ pc = [t \in Threads |-> "idle"]
  /\ arg = [t \in Threads |-> NULL]
  /\ newID = [t \in Threads |-> 0]
  /\ prev = [t \in Threads |-> NULL]
  /\ holds = [t \in Threads |-> {}]
  /\ torn = {}

InUse(m) == \E t \in Threads : m \in holds[t] \/ (pc[t] # "idle" /\ arg[t] = m)

\* The nodes of the list from its head on, NULL past the end.
Chain[k \in Nat] ==
  IF k = 0 THEN head ELSE IF Chain[k - 1] = NULL THEN NULL ELSE next[Chain[k - 1]]

Places == 0..Cardinality(Mutexes)
Listed == {Chain[k] : k \in Places} \ {NULL}

\* existsInMutexList
ExistsInMutexList(id) == \E m \in Listed : mutexID[m] = id

\* An access of t, at which the alarm may have switched to it from any other
\* thread.
Step(t, from, to) == pc[t] = from /\ pc' = [pc EXCEPT ![t] = to]

Enter(t, m, to) == Step(t, "idle", to) /\ arg' = [arg EXCEPT ![t] = m]

\* The last access of a call; its locals are gone.
Leave(t, from) == Step(t, from, "idle") /\ arg' = [arg EXCEPT ![t] = NULL]

MaySetUp == SetupAlone => \A t \in Threads : pc[t] \notin Setup

-----------------------------------------------------------------------------
(* my_pthread_mutex_init                                                   *)

CallInit(t, m) ==
  /\ MaySetUp
  /\ currMutexID < MaxInits
  /\ ~isInit[m] /\ ~InUse(m)
  /\ Enter(t, m, "initList")
  /\ UNCHANGED <<mutexList, head, next, mutexID, isInit, isLocked, currMutexID,
                 newID, prev, holds, torn>>

\* initMutexList: the test, the allocation, the store to the new list's head.
InitList(t) ==
  /\ Step(t, "initList", IF mutexList THEN "loadID" ELSE "allocList")
  /\ UNCHANGED <<mutexList, head, next, mutexID, isInit, isLocked, currMutexID,
                 arg, newID, prev, holds, torn>>

\* A second list object would replace the first; what its memory holds is not
\* known until the store to its head.
AllocList(t) ==
  /\ Step(t, "allocList", "clearList")
  /\ mutexList' = TRUE
  /\ head' \in Pointer
  /\ UNCHANGED <<next, mutexID, isInit, isLocked, currMutexID, arg, newID, prev,
                 holds, torn>>

ClearList(t) ==
  /\ Step(t, "clearList", "loadID")
  /\ head' = NULL
  /\ UNCHANGED <<mutexList, next, mutexID, isInit, isLocked, currMutexID, arg,
                 newID, prev, holds, torn>>

\* ++currMutexID: load and increment, then store.
LoadID(t) ==
  /\ Step(t, "loadID", "storeID")
  /\ newID' = [newID EXCEPT ![t] = currMutexID + 1]
  /\ UNCHANGED <<mutexList, head, next, mutexID, isInit, isLocked, currMutexID,
                 arg, prev, holds, torn>>

\* Mutant: the counter is not stored back.
StoreID_NotStored(t) ==
  /\ Step(t, "storeID", "readHead")
  /\ mutexID' = [mutexID EXCEPT ![arg[t]] = newID[t]]
  /\ isInit' = [isInit EXCEPT ![arg[t]] = TRUE]
  /\ next' = [next EXCEPT ![arg[t]] = NULL]
  /\ isLocked' = [isLocked EXCEPT ![arg[t]] = FALSE]
  /\ torn' = torn \ {arg[t]}
  /\ newID' = [newID EXCEPT ![t] = 0]
  /\ UNCHANGED <<mutexList, head, currMutexID, arg, prev, holds>>

\* The store, and the fields of the mutex, which no other thread uses yet.
StoreID(t) ==
  /\ Step(t, "storeID", "readHead")
  /\ currMutexID' = newID[t]
  /\ mutexID' = [mutexID EXCEPT ![arg[t]] = newID[t]]
  /\ isInit' = [isInit EXCEPT ![arg[t]] = TRUE]
  /\ next' = [next EXCEPT ![arg[t]] = NULL]
  /\ isLocked' = [isLocked EXCEPT ![arg[t]] = FALSE]
  /\ torn' = torn \ {arg[t]}
  /\ newID' = [newID EXCEPT ![t] = 0]
  /\ UNCHANGED <<mutexList, head, arg, prev, holds>>

\* insertToMutexList: newMutex->next = head, then head = newMutex.
ReadHead(t) ==
  /\ Step(t, "readHead", "linkHead")
  /\ next' = [next EXCEPT ![arg[t]] = head]
  /\ UNCHANGED <<mutexList, head, mutexID, isInit, isLocked, currMutexID, arg,
                 newID, prev, holds, torn>>

LinkHead(t) ==
  /\ Leave(t, "linkHead")
  /\ head' = arg[t]
  /\ UNCHANGED <<mutexList, next, mutexID, isInit, isLocked, currMutexID,
                 newID, prev, holds, torn>>

-----------------------------------------------------------------------------
(* my_pthread_mutex_lock and _unlock                                       *)

\* The test of lock, which returns -1 only for a mutex that is not initialised
\* and whose id is in the list; to look that up the list must exist.
CallLock(t, m) ==
  /\ m \notin holds[t]
  /\ isInit[m] \/ (UseAny /\ mutexList /\ ~ExistsInMutexList(mutexID[m]))
  /\ \A u \in Threads : arg[u] = m => pc[u] \notin Setup
  /\ Enter(t, m, "spin")
  /\ UNCHANGED <<mutexList, head, next, mutexID, isInit, isLocked, currMutexID,
                 newID, prev, holds, torn>>

\* Mutant: the old value is not tested.
TestAndSet_NoTest(t) ==
  /\ Leave(t, "spin")
  /\ isLocked' = [isLocked EXCEPT ![arg[t]] = TRUE]
  /\ holds' = [holds EXCEPT ![t] = @ \cup {arg[t]}]
  /\ UNCHANGED <<mutexList, head, next, mutexID, isInit, currMutexID, newID, prev, torn>>

\* __sync_lock_test_and_set that finds 0; one that finds 1 changes nothing.
TestAndSet(t) ==
  /\ Leave(t, "spin")
  /\ ~isLocked[arg[t]]
  /\ isLocked' = [isLocked EXCEPT ![arg[t]] = TRUE]
  /\ holds' = [holds EXCEPT ![t] = @ \cup {arg[t]}]
  /\ UNCHANGED <<mutexList, head, next, mutexID, isInit, currMutexID, newID, prev, torn>>

\* __sync_lock_release stores 0 ...
Release(t, m) ==
  /\ m \in holds[t]
  /\ Enter(t, m, "storeUnlocked")
  /\ isLocked' = [isLocked EXCEPT ![m] = FALSE]
  /\ holds' = [holds EXCEPT ![t] = @ \ {m}]
  /\ UNCHANGED <<mutexList, head, next, mutexID, isInit, currMutexID, newID, prev, torn>>

\* ... and the next statement stores it once more.
StoreUnlocked(t) ==
  /\ Leave(t, "storeUnlocked")
  /\ isLocked' = [isLocked EXCEPT ![arg[t]] = FALSE]
  /\ torn' = torn \cup {m \in {arg[t]} : \E u \in Threads : m \in holds[u]}
  /\ UNCHANGED <<mutexList, head, next, mutexID, isInit, currMutexID,
                 newID, prev, holds>>

-----------------------------------------------------------------------------
(* my_pthread_mutex_destroy                                                *)

\* removeFromMutexList, the search: f is the first node with the id, p its prev.
Found(id, f, p) ==
  \E k \in Places :
    /\ Chain[k] = f
    /\ mutexID[f] = id
    /\ \A j \in 0..k - 1 : mutexID[Chain[j]] # id
    /\ p = IF k = 0 THEN NULL ELSE Chain[k - 1]

\* A search that finds nothing makes destroy return -1 and changes nothing.
CallDestroy(t, m) ==
  /\ MaySetUp
  /\ isInit[m] /\ ~InUse(m)
  /\ \E f \in Mutexes, p \in Pointer :
       /\ Found(mutexID[m], f, p)
       /\ Enter(t, f, "unlink")
       /\ prev' = [prev EXCEPT ![t] = p]
  /\ UNCHANGED <<mutexList, head, next, mutexID, isInit, isLocked, currMutexID,
                 newID, holds, torn>>

\* Mutant: the head is not treated apart.
Unlink_HeadKept(t) ==
  /\ Step(t, "unlink", "clear")
  /\ next' = IF prev[t] = NULL THEN next ELSE [next EXCEPT ![prev[t]] = next[arg[t]]]
  /\ prev' = [prev EXCEPT ![t] = NULL]
  /\ UNCHANGED <<mutexList, head, mutexID, isInit, isLocked, currMutexID, arg,
                 newID, holds, torn>>

Unlink(t) ==
  /\ Step(t, "unlink", "clear")
  /\ \/ /\ prev[t] = NULL
        /\ head' = next[arg[t]]
        /\ UNCHANGED next
     \/ /\ prev[t] # NULL
        /\ next' = [next EXCEPT ![prev[t]] = next[arg[t]]]
        /\ UNCHANGED head
  /\ prev' = [prev EXCEPT ![t] = NULL]
  /\ UNCHANGED <<mutexList, mutexID, isInit, isLocked, currMutexID, arg, newID, holds, torn>>

Clear(t) ==
  /\ Leave(t, "clear")
  /\ isLocked' = [isLocked EXCEPT ![arg[t]] = FALSE]
  /\ next' = [next EXCEPT ![arg[t]] = NULL]
  /\ mutexID' = [mutexID EXCEPT ![arg[t]] = -1]
  /\ isInit' = [isInit EXCEPT ![arg[t]] = FALSE]
  /\ UNCHANGED <<mutexList, head, currMutexID, newID, prev, holds, torn>>

Next ==
  \E t \in Threads :
    \/ \E m \in Mutexes :
         CallInit(t, m) \/ CallLock(t, m) \/ Release(t, m) \/ CallDestroy(t, m)
    \/ InitList(t) \/ AllocList(t) \/ ClearList(t)
    \/ LoadID(t) \/ StoreID(t) \/ ReadHead(t) \/ LinkHead(t)
    \/ TestAndSet(t) \/ StoreUnlocked(t)
    \/ Unlink(t) \/ Clear(t)

Spec == Init /\ [][Next]_vars

-----------------------------------------------------------------------------
TypeOK ==
  /\ mutexList \in BOOLEAN
  /\ head \in Pointer
  /\ next \in [Mutexes -> Pointer]
  /\ mutexID \in [Mutexes -> Nat \cup {-1}]
  /\ isInit \in [Mutexes -> BOOLEAN]
  /\ isLocked \in [Mutexes -> BOOLEAN]
  /\ currMutexID \in Nat
  /\ pc \in [Threads -> PC]
  /\ arg \in [Threads -> Pointer]
  /\ newID \in [Threads -> Nat]
  /\ prev \in [Threads -> Pointer]
  /\ holds \in [Threads -> SUBSET Mutexes]
  /\ torn \subseteq Mutexes

\* A mutex is held by one thread at a time: from the return of
\* my_pthread_mutex_lock to the call of my_pthread_mutex_unlock.
MutualExclusion ==
  \A t, u \in Threads : holds[t] \cap holds[u] # {} => t = u

\* The second store of unlock is the only way to lose exclusion: two threads
\* hold a mutex at once only if that store, of an earlier unlock, comes after the
\* next holder's test_and_set.  No other interleaving of lock, unlock, init and
\* destroy, no alarm anywhere in them and no use of a mutex that was never
\* initialised does it.
ExclusiveUnlessTorn ==
  \A t, u \in Threads : t # u => holds[t] \cap holds[u] \subseteq torn

\* "the list of tracked mutexes" (my_pthread.c:899): whenever no thread is
\* inside init or destroy, the list holds exactly the initialised mutexes.
ListTracksInitialised ==
  (\A t \in Threads : pc[t] \notin Setup) => Listed = {m \in Mutexes : isInit[m]}

\* The list is a chain that ends, from the store to its head on: a walk of lock
\* or destroy never goes round in circles, whatever init or destroy is doing.
ListEnds ==
  (\A t \in Threads : pc[t] # "clearList") => Chain[Cardinality(Mutexes)] = NULL

\* my_pthread_mutex_destroy, which goes by the id, never tears down a mutex that
\* some thread holds: it clears the one it was given, which nobody uses.
DestroySparesHeld ==
  [][\A m \in Mutexes :
       isInit[m] /\ ~isInit'[m] => \A t \in Threads : m \notin holds[t]]_vars
=============================================================================
