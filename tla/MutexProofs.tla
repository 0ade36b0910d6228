---------------------------- MODULE MutexProofs ----------------------------
(***************************************************************************)
(* What the calls on mutexes keep, for any number of threads and mutexes   *)
(* and with an alarm between any two of their accesses: exclusion, but for *)
(* the second store of unlock, and the shape of the list that lock and     *)
(* destroy search.  The client keeps its calls of init and destroy apart.  *)
(***************************************************************************)
EXTENDS Mutex, WellFoundedInduction, FiniteSetTheorems, TLAPS

\* Whoever is in a call has a mutex; what is being set up or torn down is used
\* by nobody else, and one thread at most is doing that.
CallInv ==
  \A t \in Threads :
    /\ pc[t] # "idle" => arg[t] \in Mutexes
    /\ pc[t] \in Setup =>
         /\ \A u \in Threads : pc[u] \in Setup => u = t
         /\ \A u \in Threads : arg[t] \notin holds[u]
         /\ \A u \in Threads : u # t /\ arg[u] = arg[t] => pc[u] = "idle"

\* removeFromMutexList searches by id: no two initialised mutexes share one.
IdsDistinct ==
  \A m, n \in Mutexes : isInit[m] /\ isInit[n] /\ mutexID[m] = mutexID[n] => m = n

\* Ids come from a counter: the live ones are positive, distinct and not above
\* it, and the one in a register of init is the next.
IdInv ==
  /\ \A m \in Mutexes : mutexID[m] <= currMutexID
  /\ \A m \in Mutexes : isInit[m] <=> mutexID[m] >= 1
  /\ IdsDistinct
  /\ \A t \in Threads : pc[t] = "storeID" => newID[t] = currMutexID + 1

\* What is held, and has not been opened under its holder, is locked, and locked
\* for one thread.
LockInv ==
  /\ \A t \in Threads : \A m \in holds[t] \ torn : isLocked[m]
  /\ ExclusiveUnlessTorn

\* Before the first call nothing is initialised, held or on the list.
LEMMA InitType == Init => TypeOK
<1> SUFFICES ASSUME Init PROVE TypeOK
  BY Zenon
<1>1. mutexList \in BOOLEAN
  BY Zenon DEF Init
<1>2. head \in Pointer /\ next \in [Mutexes -> Pointer]
  BY Zenon DEF Init, Pointer
<1>3. isInit \in [Mutexes -> BOOLEAN] /\ isLocked \in [Mutexes -> BOOLEAN]
  BY Zenon DEF Init
<1>4. mutexID \in [Mutexes -> Nat \cup {-1}] /\ currMutexID \in Nat
  BY Zenon DEF Init
<1>5. /\ pc \in [Threads -> PC] /\ arg \in [Threads -> Pointer]
      /\ newID \in [Threads -> Nat] /\ prev \in [Threads -> Pointer]
      /\ holds \in [Threads -> SUBSET Mutexes] /\ torn \subseteq Mutexes
  BY Zenon DEF Init, PC, Pointer
<1>6. QED
  BY <1>1, <1>2, <1>3, <1>4, <1>5, Zenon DEF TypeOK

\* Nor is any call of init or destroy under way.
LEMMA InitCalls == Init => CallInv
  BY Zenon DEF Init, CallInv, Setup, PC

\* Nor has any id been given.
LEMMA InitIds == Init => IdInv
  BY DEF Init, IdInv, IdsDistinct

\* Nor is any mutex locked.
LEMMA InitLocks == Init => LockInv
  BY Zenon DEF Init, LockInv, ExclusiveUnlessTorn

\* Every step keeps the types; the pointers of a call are used where CallInv
\* says they are mutexes.
LEMMA StepType ==
  ASSUME TypeOK, CallInv, [Next]_vars
  PROVE  TypeOK'
<1> USE MutexAssumption DEF TypeOK, Pointer, PC, Step, Enter, Leave
<1>1. ASSUME NEW t \in Threads, NEW m \in Mutexes, CallInit(t, m) PROVE TypeOK'
  BY <1>1, Zenon DEF CallInit
<1>2. ASSUME NEW t \in Threads, NEW m \in Mutexes, CallLock(t, m) PROVE TypeOK'
  BY <1>2, Zenon DEF CallLock
<1>3. ASSUME NEW t \in Threads, NEW m \in Mutexes, Release(t, m) PROVE TypeOK'
  BY <1>3, Zenon DEF Release
<1>4. ASSUME NEW t \in Threads, NEW m \in Mutexes, CallDestroy(t, m) PROVE TypeOK'
  BY <1>4 DEF CallDestroy
<1>5. ASSUME NEW t \in Threads, InitList(t) PROVE TypeOK'
  BY <1>5, Zenon DEF InitList
<1>6. ASSUME NEW t \in Threads, AllocList(t) PROVE TypeOK'
  BY <1>6, Zenon DEF AllocList
<1>7. ASSUME NEW t \in Threads, ClearList(t) PROVE TypeOK'
  BY <1>7, Zenon DEF ClearList
<1>8. ASSUME NEW t \in Threads, LoadID(t) PROVE TypeOK'
  BY <1>8 DEF LoadID
<1>9. ASSUME NEW t \in Threads, StoreID(t) PROVE TypeOK'
  BY <1>9, Zenon DEF StoreID
<1>10. ASSUME NEW t \in Threads, ReadHead(t) PROVE TypeOK'
  BY <1>10, Zenon DEF ReadHead
<1>11. ASSUME NEW t \in Threads, LinkHead(t) PROVE TypeOK'
  BY <1>11, Zenon DEF LinkHead
<1>12. ASSUME NEW t \in Threads, TestAndSet(t) PROVE TypeOK'
  <2>1. arg[t] \in Mutexes
    BY <1>12, Zenon DEF TestAndSet, CallInv
  <2>2. QED
    BY <1>12, <2>1, Zenon DEF TestAndSet
<1>13. ASSUME NEW t \in Threads, StoreUnlocked(t) PROVE TypeOK'
  BY <1>13, Zenon DEF StoreUnlocked
<1>14. ASSUME NEW t \in Threads, Unlink(t) PROVE TypeOK'
  <2>1. arg[t] \in Mutexes
    BY <1>14, Zenon DEF Unlink, CallInv
  <2>2. QED
    BY <1>14, <2>1 DEF Unlink
<1>15. ASSUME NEW t \in Threads, Clear(t) PROVE TypeOK'
  BY <1>15, Zenon DEF Clear
<1>16. CASE UNCHANGED vars
  BY <1>16, Zenon DEF vars
<1>17. QED
  BY <1>1, <1>2, <1>3, <1>4, <1>5, <1>6, <1>7, <1>8, <1>9, <1>10, <1>11,
     <1>12, <1>13, <1>14, <1>15, <1>16, Zenon DEF Next

\* removeFromMutexList: a node with the id of an initialised mutex is that mutex.
LEMMA SearchFindsIt ==
  ASSUME TypeOK, IdInv, NEW m \in Mutexes, isInit[m],
         NEW f \in Mutexes, NEW p, Found(mutexID[m], f, p)
  PROVE  f = m
<1>1. mutexID[f] = mutexID[m]
  BY Zenon DEF Found
<1>2. isInit[f]
  BY <1>1, Zenon DEF IdInv, TypeOK
<1>3. QED
  BY <1>1, <1>2, Zenon DEF IdInv, IdsDistinct

\* Calls stay apart: nobody locks what is being set up, nobody sets up what is
\* in use.
LEMMA StepCalls ==
  ASSUME TypeOK, CallInv, IdInv, [Next]_vars, SetupAlone
  PROVE  CallInv'
<1> USE MutexAssumption DEF TypeOK, CallInv, Setup, PC, Step, Enter, Leave, MaySetUp
<1>1. ASSUME NEW t \in Threads, NEW m \in Mutexes, CallInit(t, m) PROVE CallInv'
  BY <1>1 DEF CallInit, InUse
<1>2. ASSUME NEW t \in Threads, NEW m \in Mutexes, CallLock(t, m) PROVE CallInv'
  BY <1>2 DEF CallLock
<1>3. ASSUME NEW t \in Threads, NEW m \in Mutexes, Release(t, m) PROVE CallInv'
  BY <1>3 DEF Release
<1>4. ASSUME NEW t \in Threads, NEW m \in Mutexes, CallDestroy(t, m) PROVE CallInv'
  <2>1. PICK f \in Mutexes, p \in Pointer :
          /\ Found(mutexID[m], f, p)
          /\ Enter(t, f, "unlink")
    BY <1>4, Zenon DEF CallDestroy
  <2>2. f = m
    BY <1>4, <2>1, SearchFindsIt, Zenon DEF CallDestroy
  <2>3. QED
    BY <1>4, <2>1, <2>2 DEF CallDestroy, InUse
<1>5. ASSUME NEW t \in Threads, InitList(t) PROVE CallInv'
  BY <1>5 DEF InitList
<1>6. ASSUME NEW t \in Threads, AllocList(t) PROVE CallInv'
  BY <1>6 DEF AllocList
<1>7. ASSUME NEW t \in Threads, ClearList(t) PROVE CallInv'
  BY <1>7 DEF ClearList
<1>8. ASSUME NEW t \in Threads, LoadID(t) PROVE CallInv'
  BY <1>8 DEF LoadID
<1>9. ASSUME NEW t \in Threads, StoreID(t) PROVE CallInv'
  BY <1>9 DEF StoreID
<1>10. ASSUME NEW t \in Threads, ReadHead(t) PROVE CallInv'
  BY <1>10 DEF ReadHead
<1>11. ASSUME NEW t \in Threads, LinkHead(t) PROVE CallInv'
  BY <1>11 DEF LinkHead
<1>12. ASSUME NEW t \in Threads, TestAndSet(t) PROVE CallInv'
  BY <1>12 DEF TestAndSet
<1>13. ASSUME NEW t \in Threads, StoreUnlocked(t) PROVE CallInv'
  BY <1>13 DEF StoreUnlocked
<1>14. ASSUME NEW t \in Threads, Unlink(t) PROVE CallInv'
  BY <1>14 DEF Unlink
<1>15. ASSUME NEW t \in Threads, Clear(t) PROVE CallInv'
  BY <1>15 DEF Clear
<1>16. CASE UNCHANGED vars
  BY <1>16, Zenon DEF vars
<1>17. QED
  BY <1>1, <1>2, <1>3, <1>4, <1>5, <1>6, <1>7, <1>8, <1>9, <1>10, <1>11,
     <1>12, <1>13, <1>14, <1>15, <1>16, Zenon DEF Next

\* With one thread at a time in init the counter is not stored twice with the
\* same value.
LEMMA StepIds ==
  ASSUME TypeOK, CallInv, IdInv, [Next]_vars
  PROVE  IdInv'
<1> USE MutexAssumption DEF TypeOK, CallInv, IdInv, IdsDistinct, Setup, PC, Step, Enter, Leave
<1>1. ASSUME NEW t \in Threads, NEW m \in Mutexes, CallInit(t, m) PROVE IdInv'
  BY <1>1, Zenon DEF CallInit
<1>2. ASSUME NEW t \in Threads, NEW m \in Mutexes, CallLock(t, m) PROVE IdInv'
  BY <1>2, Zenon DEF CallLock
<1>3. ASSUME NEW t \in Threads, NEW m \in Mutexes, Release(t, m) PROVE IdInv'
  BY <1>3 DEF Release
<1>4. ASSUME NEW t \in Threads, NEW m \in Mutexes, CallDestroy(t, m) PROVE IdInv'
  BY <1>4 DEF CallDestroy
<1>5. ASSUME NEW t \in Threads, InitList(t) PROVE IdInv'
  BY <1>5 DEF InitList
<1>6. ASSUME NEW t \in Threads, AllocList(t) PROVE IdInv'
  BY <1>6 DEF AllocList
<1>7. ASSUME NEW t \in Threads, ClearList(t) PROVE IdInv'
  BY <1>7 DEF ClearList
<1>8. ASSUME NEW t \in Threads, LoadID(t) PROVE IdInv'
  BY <1>8 DEF LoadID
<1>9. ASSUME NEW t \in Threads, StoreID(t) PROVE IdInv'
  BY <1>9 DEF StoreID
<1>10. ASSUME NEW t \in Threads, ReadHead(t) PROVE IdInv'
  BY <1>10 DEF ReadHead
<1>11. ASSUME NEW t \in Threads, LinkHead(t) PROVE IdInv'
  BY <1>11 DEF LinkHead
<1>12. ASSUME NEW t \in Threads, TestAndSet(t) PROVE IdInv'
  BY <1>12 DEF TestAndSet
<1>13. ASSUME NEW t \in Threads, StoreUnlocked(t) PROVE IdInv'
  BY <1>13 DEF StoreUnlocked
<1>14. ASSUME NEW t \in Threads, Unlink(t) PROVE IdInv'
  BY <1>14 DEF Unlink
<1>15. ASSUME NEW t \in Threads, Clear(t) PROVE IdInv'
  BY <1>15 DEF Clear
<1>16. CASE UNCHANGED vars
  BY <1>16, Zenon DEF vars
<1>17. QED
  BY <1>1, <1>2, <1>3, <1>4, <1>5, <1>6, <1>7, <1>8, <1>9, <1>10, <1>11,
     <1>12, <1>13, <1>14, <1>15, <1>16, Zenon DEF Next

\* test_and_set succeeds only on what nobody holds, and of the other threads'
\* steps only the second store of unlock clears the flag of a held mutex.
LEMMA StepLocks ==
  ASSUME TypeOK, CallInv, LockInv, [Next]_vars
  PROVE  LockInv'
<1> USE MutexAssumption DEF TypeOK, CallInv, LockInv, ExclusiveUnlessTorn, Setup, PC, Step, Enter, Leave
<1>1. ASSUME NEW t \in Threads, NEW m \in Mutexes, CallInit(t, m) PROVE LockInv'
  BY <1>1, Zenon DEF CallInit
<1>2. ASSUME NEW t \in Threads, NEW m \in Mutexes, CallLock(t, m) PROVE LockInv'
  BY <1>2 DEF CallLock
<1>3. ASSUME NEW t \in Threads, NEW m \in Mutexes, Release(t, m) PROVE LockInv'
  BY <1>3 DEF Release
<1>4. ASSUME NEW t \in Threads, NEW m \in Mutexes, CallDestroy(t, m) PROVE LockInv'
  BY <1>4, Zenon DEF CallDestroy
<1>5. ASSUME NEW t \in Threads, InitList(t) PROVE LockInv'
  BY <1>5 DEF InitList
<1>6. ASSUME NEW t \in Threads, AllocList(t) PROVE LockInv'
  BY <1>6 DEF AllocList
<1>7. ASSUME NEW t \in Threads, ClearList(t) PROVE LockInv'
  BY <1>7 DEF ClearList
<1>8. ASSUME NEW t \in Threads, LoadID(t) PROVE LockInv'
  BY <1>8 DEF LoadID
<1>9. ASSUME NEW t \in Threads, StoreID(t) PROVE LockInv'
  BY <1>9 DEF StoreID
<1>10. ASSUME NEW t \in Threads, ReadHead(t) PROVE LockInv'
  BY <1>10 DEF ReadHead
<1>11. ASSUME NEW t \in Threads, LinkHead(t) PROVE LockInv'
  BY <1>11 DEF LinkHead
<1>12. ASSUME NEW t \in Threads, TestAndSet(t) PROVE LockInv'
  BY <1>12 DEF TestAndSet
<1>13. ASSUME NEW t \in Threads, StoreUnlocked(t) PROVE LockInv'
  BY <1>13 DEF StoreUnlocked
<1>14. ASSUME NEW t \in Threads, Unlink(t) PROVE LockInv'
  BY <1>14 DEF Unlink
<1>15. ASSUME NEW t \in Threads, Clear(t) PROVE LockInv'
  BY <1>15 DEF Clear
<1>16. CASE UNCHANGED vars
  BY <1>16, Zenon DEF vars
<1>17. QED
  BY <1>1, <1>2, <1>3, <1>4, <1>5, <1>6, <1>7, <1>8, <1>9, <1>10, <1>11,
     <1>12, <1>13, <1>14, <1>15, <1>16, Zenon DEF Next

\* Types (see TypeOK): the pointers that a call of init, lock, unlock or destroy
\* follows are mutexes.
THEOREM TypeCorrect ==
  ASSUME SetupAlone
  PROVE  Spec => []TypeOK
<1>1. Init => TypeOK /\ CallInv /\ IdInv
  BY InitType, InitCalls, InitIds, Zenon
<1>2. TypeOK /\ CallInv /\ IdInv /\ [Next]_vars => (TypeOK /\ CallInv /\ IdInv)'
  BY StepType, StepCalls, StepIds, Zenon
<1>3. QED
  BY <1>1, <1>2, PTL DEF Spec

\* Exclusion (see ExclusiveUnlessTorn), with the alarm free to come anywhere in
\* lock, unlock, init and destroy: two threads hold a mutex at once only if the
\* second store of my_pthread_mutex_unlock has opened it under its holder.
THEOREM LockExcludes ==
  ASSUME SetupAlone
  PROVE  Spec => []ExclusiveUnlessTorn
<1> DEFINE IInv == TypeOK /\ CallInv /\ IdInv /\ LockInv
<1>1. Init => IInv
  BY InitType, InitCalls, InitIds, InitLocks, Zenon
<1>2. IInv /\ [Next]_vars => IInv'
  BY StepType, StepCalls, StepIds, StepLocks, Zenon
<1>3. IInv => ExclusiveUnlessTorn
  BY Zenon DEF LockInv
<1>4. QED
  BY <1>1, <1>2, <1>3, PTL DEF Spec

-----------------------------------------------------------------------------
(* The list of mutexes.                                                    *)

\* s is the list from h on along nx, up to NULL at place n; its nodes are M.
Lists(s, n, h, nx, M) ==
  /\ s \in [0..n -> Pointer]
  /\ s[0] = h /\ s[n] = NULL
  /\ \A k \in 0..n - 1 : s[k] \in M /\ nx[s[k]] = s[k + 1]
  /\ \A j, k \in 0..n - 1 : s[j] = s[k] => j = k
  /\ \A m \in M : \E k \in 0..n - 1 : s[k] = m

\* The pointers from h lead through each mutex of M once, and end.
Linked(h, nx, M) == M \subseteq Mutexes /\ \E n \in Nat : \E s : Lists(s, n, h, nx, M)

\* A non-empty set of natural numbers has a least element.
LEMMA LeastNat == ASSUME NEW T, T \subseteq Nat, T # {} PROVE \E x \in T : \A y \in T : x <= y
<1>1. IsWellFoundedOn(OpToRel(<, Nat), Nat)
  BY NatLessThanWellFounded, Zenon
<1> DEFINE R == {ss \in Nat \X Nat : ss[1] < ss[2]}
<1>2. IsWellFoundedOn(R, Nat)
  BY <1>1, Zenon DEF OpToRel
<1> HIDE DEF R
<1>3. PICK x \in T : \A y \in T : ~(<<y, x>> \in R)
  BY <1>2, WFMin, Zenon
<1>4. ASSUME NEW y \in T, y < x PROVE FALSE
  <2>1. <<y, x>> \in Nat \X Nat
    BY Zenon
  <2>2. <<y, x>> \in R
    BY <2>1, <1>4, Zenon DEF R
  <2> QED BY <1>3, <2>2, Zenon
<1> QED BY <1>4

\* A walk from the head passes the nodes of the list, then stays at NULL.
LEMMA ChainIsList ==
  ASSUME TypeOK, NEW n \in Nat, NEW s, NEW M \in SUBSET Mutexes, Lists(s, n, head, next, M)
  PROVE  /\ \A k \in 0..n : Chain[k] = s[k]
         /\ \A k \in Nat : k >= n => Chain[k] = NULL
         /\ n <= Cardinality(Mutexes)
<1> DEFINE After(x) == IF x = NULL THEN NULL ELSE next[x]
           Eq(f) == f = [k \in Nat |-> IF k = 0 THEN head ELSE IF f[k - 1] = NULL THEN NULL ELSE next[f[k - 1]]]
           e == [k \in Nat |-> IF k <= n THEN s[k] ELSE NULL]
<1>1. /\ s[0] = head /\ s[n] = NULL
      /\ \A k \in 0..n - 1 : s[k] \in Mutexes /\ next[s[k]] = s[k + 1]
      /\ \A j, k \in 0..n - 1 : s[j] = s[k] => j = k
  BY Zenon DEF Lists
<1>2. e[0] = head /\ \A k \in Nat : e[k + 1] = After(e[k])
  <2>1. e[0] = head
    BY <1>1
  <2>2. ASSUME NEW k \in Nat PROVE e[k + 1] = After(e[k])
    <3>1. CASE k < n
      <4>1. k \in 0..n - 1 /\ e[k] = s[k] /\ e[k + 1] = s[k + 1]
        BY <3>1
      <4>2. s[k] # NULL /\ next[s[k]] = s[k + 1]
        BY <1>1, <4>1, MutexAssumption, Zenon
      <4> QED BY <4>1, <4>2, Zenon
    <3>2. CASE k >= n
      <4>1. e[k] = NULL /\ e[k + 1] = NULL
        BY <1>1, <3>2
      <4> QED BY <4>1, Zenon
    <3> QED BY <3>1, <3>2
  <2> QED BY <2>1, <2>2, Zenon
<1>3. Eq(e)
  <2>1. ASSUME NEW k \in Nat, k # 0 PROVE e[k] = After(e[k - 1])
    <3>1. k - 1 \in Nat /\ (k - 1) + 1 = k
      BY <2>1
    <3> HIDE DEF e, After
    <3>2. e[(k - 1) + 1] = After(e[k - 1])
      BY <1>2, <3>1, Zenon
    <3> QED BY <3>1, <3>2, Zenon
  <2>2. e = [k \in Nat |-> e[k]]
    BY Zenon
  <2> HIDE DEF e
  <2> QED BY <1>2, <2>1, <2>2, Zenon
<1>4. Eq(Chain)
  <2>1. Chain = CHOOSE f : Eq(f)
    BY Zenon DEF Chain
  <2> HIDE DEF Eq, e
  <2> QED BY <1>3, <2>1, Zenon
<1>5. Chain[0] = head /\ \A k \in Nat : k # 0 => Chain[k] = After(Chain[k - 1])
  BY <1>4, Zenon
<1>6. \A k \in Nat : Chain[k] = e[k]
  <2> DEFINE T == {k \in Nat : Chain[k] # e[k]}
  <2> HIDE DEF e, Eq, After
  <2> SUFFICES ASSUME T # {} PROVE FALSE
    BY Zenon
  <2>1. T \subseteq Nat
    BY Zenon
  <2> HIDE DEF T
  <2>2. PICK k \in T : \A j \in T : k <= j
    BY <2>1, LeastNat, Zenon
  <2>3. k \in Nat /\ Chain[k] # e[k]
    BY <2>2, Zenon DEF T
  <2>4. k # 0
    BY <1>2, <1>5, <2>3, Zenon
  <2>5. k - 1 \in Nat /\ (k - 1) + 1 = k /\ k - 1 \notin T
    BY <2>2, <2>3, <2>4
  <2>6. Chain[k - 1] = e[k - 1]
    BY <2>5, Zenon DEF T
  <2>7. e[(k - 1) + 1] = After(e[k - 1])
    BY <1>2, <2>5, Zenon
  <2> QED BY <1>5, <2>3, <2>4, <2>5, <2>6, <2>7, Zenon
<1>7. /\ \A k \in 0..n : Chain[k] = s[k]
      /\ \A k \in Nat : k >= n => Chain[k] = NULL
  BY <1>1, <1>6
<1>8. n <= Cardinality(Mutexes)
  <2> DEFINE f == [k \in 0..n - 1 |-> s[k]]
  <2>1. f \in Injection(0..n - 1, Mutexes)
    BY <1>1, Zenon DEF Injection, IsInjective
  <2>2. Cardinality(0..n - 1) <= Cardinality(Mutexes)
    <3> HIDE DEF f
    <3> QED BY <2>1, FS_Injection, MutexAssumption, Zenon
  <2>3. Cardinality(0..n - 1) = n
    <3>1. 0 \in Int /\ n - 1 \in Int
      OBVIOUS
    <3>2. Cardinality(0..n - 1) = IF 0 > n - 1 THEN 0 ELSE (n - 1) - 0 + 1
      BY <3>1, FS_Interval, Zenon
    <3> QED BY <3>2
  <2> QED BY <2>2, <2>3, Zenon
<1> QED BY <1>7, <1>8, Zenon

\* So the model's view of the list is the one of the pointers.
LEMMA LinkedMeans ==
  ASSUME TypeOK, NEW M, Linked(head, next, M)
  PROVE  ListEnds /\ Listed = M
<1>1. PICK n \in Nat : \E s : Lists(s, n, head, next, M)
  BY Zenon DEF Linked
<1>2. PICK s : Lists(s, n, head, next, M)
  BY <1>1, Zenon
<1>3. M \in SUBSET Mutexes
  BY Zenon DEF Linked
<1>4. /\ \A k \in 0..n : Chain[k] = s[k]
      /\ \A k \in Nat : k >= n => Chain[k] = NULL
      /\ n <= Cardinality(Mutexes)
  BY <1>2, <1>3, ChainIsList, Zenon
<1>5. Cardinality(Mutexes) \in Nat
  BY FS_CardinalityType, MutexAssumption, Zenon
<1>6. ListEnds
  BY <1>4, <1>5, Zenon DEF ListEnds
<1>7. ASSUME NEW m \in Listed PROVE m \in M
  <2>1. PICK k \in Places : m = Chain[k] /\ m # NULL
    BY <1>7, Zenon DEF Listed
  <2>2. k \in Nat /\ k < n
    BY <1>4, <1>5, <2>1 DEF Places
  <2> QED BY <1>2, <1>4, <2>1, <2>2 DEF Lists
<1>8. ASSUME NEW m \in M PROVE m \in Listed
  <2>1. PICK k \in 0..n - 1 : s[k] = m
    BY <1>2, <1>8, Zenon DEF Lists
  <2>2. k \in Places /\ Chain[k] = m
    BY <1>4, <1>5, <2>1 DEF Places
  <2>3. m # NULL
    BY <1>3, MutexAssumption, Zenon
  <2> QED BY <2>2, <2>3, Zenon DEF Listed
<1> QED BY <1>6, <1>7, <1>8, Zenon

\* insertToMutexList: a node that points to the head becomes the head.
LEMMA LinkedInsert ==
  ASSUME NEW h, NEW nx, NEW M, Linked(h, nx, M), NEW m \in Mutexes, m \notin M, nx[m] = h
  PROVE  Linked(m, nx, M \cup {m})
<1>1. PICK n \in Nat : \E s : Lists(s, n, h, nx, M)
  BY Zenon DEF Linked
<1>2. PICK s : Lists(s, n, h, nx, M)
  BY <1>1, Zenon
<1>3. /\ s \in [0..n -> Pointer] /\ s[0] = h /\ s[n] = NULL
      /\ \A k \in 0..n - 1 : s[k] \in M /\ nx[s[k]] = s[k + 1]
      /\ \A j, k \in 0..n - 1 : s[j] = s[k] => j = k
      /\ \A x \in M : \E k \in 0..n - 1 : s[k] = x
  BY <1>2, Zenon DEF Lists
<1> DEFINE r == [k \in 0..n + 1 |-> IF k = 0 THEN m ELSE s[k - 1]]
<1>4. \A k \in 0..n : r[k + 1] = s[k]
  OBVIOUS
<1>5. r[0] = m /\ r \in [0..n + 1 -> Pointer]
  BY <1>3 DEF Pointer
<1> HIDE DEF r
<1>6. r[n + 1] = NULL
  BY <1>3, <1>4
<1>7. ASSUME NEW k \in 0..(n + 1) - 1 PROVE r[k] \in M \cup {m} /\ nx[r[k]] = r[k + 1]
  <2>1. CASE k = 0
    BY <1>3, <1>4, <1>5, <2>1
  <2>2. CASE k # 0
    <3>1. k - 1 \in 0..n - 1 /\ (k - 1) + 1 = k /\ k \in 0..n
      BY <2>2
    <3>2. r[k] = s[k - 1] /\ r[k + 1] = s[k]
      BY <1>4, <3>1
    <3> QED BY <1>3, <3>1, <3>2
  <2> QED BY <2>1, <2>2, Zenon
<1>8. ASSUME NEW j \in 0..(n + 1) - 1, NEW k \in 0..(n + 1) - 1, r[j] = r[k] PROVE j = k
  <2>1. \A i \in 0..(n + 1) - 1 : i # 0 => i - 1 \in 0..n - 1 /\ r[i] = s[i - 1] /\ r[i] \in M
    <3> SUFFICES ASSUME NEW i \in 0..(n + 1) - 1, i # 0
                 PROVE  i - 1 \in 0..n - 1 /\ r[i] = s[i - 1] /\ r[i] \in M
      BY Zenon
    <3>1. i - 1 \in 0..n - 1 /\ i - 1 \in 0..n /\ (i - 1) + 1 = i
      OBVIOUS
    <3> QED BY <1>3, <1>4, <3>1
  <2>2. j = 0 <=> k = 0
    BY <1>5, <1>8, <2>1, Zenon
  <2>3. CASE j # 0 /\ k # 0
    <3>1. j - 1 \in 0..n - 1 /\ k - 1 \in 0..n - 1 /\ s[j - 1] = s[k - 1]
      BY <1>8, <2>1, <2>3, Zenon
    <3>2. j - 1 = k - 1
      BY <1>3, <3>1, Zenon
    <3> QED BY <3>2
  <2> QED BY <2>2, <2>3, Zenon
<1>9. ASSUME NEW x \in M \cup {m} PROVE \E k \in 0..(n + 1) - 1 : r[k] = x
  <2>1. CASE x = m
    BY <1>5, <2>1
  <2>2. CASE x \in M
    <3>1. PICK k \in 0..n - 1 : s[k] = x
      BY <1>3, <2>2, Zenon
    <3>2. k + 1 \in 0..(n + 1) - 1 /\ r[k + 1] = x
      BY <1>4, <3>1
    <3> QED BY <3>2, Zenon
  <2> QED BY <2>1, <2>2, Zenon
<1>10. Lists(r, n + 1, m, nx, M \cup {m}) /\ n + 1 \in Nat /\ M \cup {m} \subseteq Mutexes
  BY <1>5, <1>6, <1>7, <1>8, <1>9 DEF Lists, Linked
<1> QED BY <1>10, Zenon DEF Linked

\* A store to the next of a node outside the list does not change the list.
LEMMA LinkedOutside ==
  ASSUME NEW h, NEW nx, nx \in [Mutexes -> Pointer], NEW M, Linked(h, nx, M),
         NEW m \in Mutexes, m \notin M, NEW v
  PROVE  Linked(h, [nx EXCEPT ![m] = v], M)
<1>1. PICK n \in Nat : \E s : Lists(s, n, h, nx, M)
  BY Zenon DEF Linked
<1>2. PICK s : Lists(s, n, h, nx, M)
  BY <1>1, Zenon
<1> DEFINE ny == [nx EXCEPT ![m] = v]
<1>3. \A x \in M : ny[x] = nx[x]
  BY Zenon DEF Linked
<1> HIDE DEF ny
<1>4. Lists(s, n, h, ny, M)
  BY <1>2, <1>3, Zenon DEF Lists
<1>5. Linked(h, ny, M)
  BY <1>4, Zenon DEF Linked
<1> QED BY <1>5, Zenon DEF ny

\* removeFromMutexList, at the head: the head moves to the next node.
LEMMA LinkedRemoveHead ==
  ASSUME NEW h, NEW nx, NEW M, Linked(h, nx, M), h \in M
  PROVE  Linked(nx[h], nx, M \ {h})
<1>1. PICK n \in Nat : \E s : Lists(s, n, h, nx, M)
  BY Zenon DEF Linked
<1>2. PICK s : Lists(s, n, h, nx, M)
  BY <1>1, Zenon
<1>3. /\ s \in [0..n -> Pointer] /\ s[0] = h /\ s[n] = NULL
      /\ \A k \in 0..n - 1 : s[k] \in M /\ nx[s[k]] = s[k + 1]
      /\ \A j, k \in 0..n - 1 : s[j] = s[k] => j = k
      /\ \A x \in M : \E k \in 0..n - 1 : s[k] = x
  BY <1>2, Zenon DEF Lists
<1>4. n >= 1
  BY <1>3
<1> DEFINE r == [k \in 0..n - 1 |-> s[k + 1]]
<1>5. r \in [0..n - 1 -> Pointer] /\ \A k \in 0..n - 1 : r[k] = s[k + 1]
  BY <1>3
<1> HIDE DEF r
<1>6. r[0] = nx[h] /\ r[n - 1] = NULL
  <2>1. 0 \in 0..n - 1 /\ n - 1 \in 0..n - 1 /\ (n - 1) + 1 = n /\ 0 + 1 = 1
    BY <1>4
  <2> QED BY <1>3, <1>5, <2>1, Zenon
<1>7. ASSUME NEW k \in 0..(n - 1) - 1 PROVE r[k] \in M \ {h} /\ nx[r[k]] = r[k + 1]
  <2>1. k \in 0..n - 1 /\ k + 1 \in 0..n - 1 /\ k + 1 # 0 /\ 0 \in 0..n - 1
    OBVIOUS
  <2>2. s[k + 1] \in M /\ nx[s[k + 1]] = s[(k + 1) + 1] /\ s[k + 1] # s[0]
    BY <1>3, <2>1, Zenon
  <2> QED BY <1>3, <1>5, <2>1, <2>2
<1>8. ASSUME NEW j \in 0..(n - 1) - 1, NEW k \in 0..(n - 1) - 1, r[j] = r[k] PROVE j = k
  <2>1. j \in 0..n - 1 /\ k \in 0..n - 1 /\ j + 1 \in 0..n - 1 /\ k + 1 \in 0..n - 1
    OBVIOUS
  <2>2. j + 1 = k + 1
    BY <1>3, <1>5, <1>8, <2>1
  <2> QED BY <2>2
<1>9. ASSUME NEW x \in M \ {h} PROVE \E k \in 0..(n - 1) - 1 : r[k] = x
  <2>1. PICK k \in 0..n - 1 : s[k] = x
    BY <1>3, Zenon
  <2>2. k # 0
    BY <1>3, <2>1, Zenon
  <2>3. k - 1 \in 0..(n - 1) - 1 /\ k - 1 \in 0..n - 1 /\ (k - 1) + 1 = k
    BY <2>2
  <2>4. r[k - 1] = x
    BY <1>5, <2>1, <2>3, Zenon
  <2> QED BY <2>3, <2>4, Zenon
<1>10. Lists(r, n - 1, nx[h], nx, M \ {h}) /\ n - 1 \in Nat /\ M \ {h} \subseteq Mutexes
  BY <1>4, <1>5, <1>6, <1>7, <1>8, <1>9 DEF Lists, Linked
<1> QED BY <1>10, Zenon DEF Linked

\* removeFromMutexList, further on: the previous node is led past m.
LEMMA LinkedRemove ==
  ASSUME NEW h, NEW nx, nx \in [Mutexes -> Pointer], NEW M, Linked(h, nx, M),
         NEW p \in M, NEW m \in M, nx[p] = m
  PROVE  Linked(h, [nx EXCEPT ![p] = nx[m]], M \ {m})
<1>1. PICK n \in Nat : \E s : Lists(s, n, h, nx, M)
  BY Zenon DEF Linked
<1>2. PICK s : Lists(s, n, h, nx, M)
  BY <1>1, Zenon
<1>3. /\ s \in [0..n -> Pointer] /\ s[0] = h /\ s[n] = NULL
      /\ \A k \in 0..n - 1 : s[k] \in M /\ nx[s[k]] = s[k + 1]
      /\ \A j, k \in 0..n - 1 : s[j] = s[k] => j = k
      /\ \A x \in M : \E k \in 0..n - 1 : s[k] = x
  BY <1>2, Zenon DEF Lists
<1>4. NULL \notin M /\ M \subseteq Mutexes
  BY MutexAssumption, Zenon DEF Linked
<1>5. PICK i \in 0..n - 1 : s[i] = p
  BY <1>3, Zenon
<1>6. s[i + 1] = m /\ i + 1 \in 0..n - 1
  <2>1. s[i + 1] = m /\ i + 1 \in 0..n
    BY <1>3, <1>5
  <2> QED BY <1>3, <1>4, <2>1
<1>7. nx[m] = s[i + 2] /\ i + 2 \in 0..n
  <2>1. (i + 1) + 1 = i + 2
    OBVIOUS
  <2> QED BY <1>3, <1>6, <2>1
<1> DEFINE ny == [nx EXCEPT ![p] = nx[m]]
           r == [k \in 0..n - 1 |-> IF k <= i THEN s[k] ELSE s[k + 1]]
<1>8. ny[p] = s[i + 2] /\ \A x \in M \ {p} : ny[x] = nx[x]
  BY <1>4, <1>7, Zenon
<1>9. /\ r \in [0..n - 1 -> Pointer]
      /\ \A k \in 0..n - 1 : r[k] = IF k <= i THEN s[k] ELSE s[k + 1]
  BY <1>3
<1> HIDE DEF ny, r
<1>10. r[0] = h /\ r[n - 1] = NULL
  <2>1. 0 \in 0..n - 1 /\ 0 <= i /\ n - 1 \in 0..n - 1 /\ ~(n - 1 <= i) /\ (n - 1) + 1 = n
    BY <1>6
  <2> QED BY <1>3, <1>9, <2>1, Zenon
<1>11. ASSUME NEW k \in 0..(n - 1) - 1 PROVE r[k] \in M \ {m} /\ ny[r[k]] = r[k + 1]
  <2>1. k \in 0..n - 1 /\ k + 1 \in 0..n - 1
    OBVIOUS
  <2>2. CASE k < i
    <3>1. r[k] = s[k] /\ r[k + 1] = s[k + 1] /\ k # i /\ k # i + 1
      BY <1>9, <2>1, <2>2
    <3>2. s[k] # p /\ s[k] # m
      BY <1>3, <1>5, <1>6, <2>1, <3>1, Zenon
    <3>3. s[k] \in M /\ nx[s[k]] = s[k + 1]
      BY <1>3, <2>1, Zenon
    <3> QED BY <1>8, <3>1, <3>2, <3>3, Zenon
  <2>3. CASE k = i
    <3>1. r[k] = p /\ ~(k + 1 <= i) /\ (k + 1) + 1 = i + 2
      BY <1>5, <1>9, <2>1, <2>3
    <3>2. r[k + 1] = s[i + 2]
      BY <1>9, <2>1, <3>1, Zenon
    <3>3. p # m
      BY <1>3, <1>5, <1>6
    <3> QED BY <1>8, <3>1, <3>2, <3>3, Zenon
  <2>4. CASE k > i
    <3>1. r[k] = s[k + 1] /\ r[k + 1] = s[(k + 1) + 1] /\ k + 1 # i /\ k + 1 # i + 1
      BY <1>9, <2>1, <2>4
    <3>2. s[k + 1] # p /\ s[k + 1] # m
      BY <1>3, <1>5, <1>6, <2>1, <3>1, Zenon
    <3>3. s[k + 1] \in M /\ nx[s[k + 1]] = s[(k + 1) + 1]
      BY <1>3, <2>1, Zenon
    <3> QED BY <1>8, <3>1, <3>2, <3>3, Zenon
  <2> QED BY <2>2, <2>3, <2>4
<1>12. ASSUME NEW j \in 0..(n - 1) - 1, NEW k \in 0..(n - 1) - 1, r[j] = r[k] PROVE j = k
  <2> DEFINE at(x) == IF x <= i THEN x ELSE x + 1
  <2>1. at(j) \in 0..n - 1 /\ at(k) \in 0..n - 1 /\ r[j] = s[at(j)] /\ r[k] = s[at(k)]
    BY <1>9
  <2>2. at(j) = at(k)
    <3> HIDE DEF at
    <3> QED BY <1>3, <1>12, <2>1, Zenon
  <2> QED BY <2>2
<1>13. ASSUME NEW x \in M \ {m} PROVE \E k \in 0..(n - 1) - 1 : r[k] = x
  <2>1. PICK k \in 0..n - 1 : s[k] = x
    BY <1>3, Zenon
  <2>2. k # i + 1
    BY <1>6, <2>1, Zenon
  <2>3. CASE k <= i
    <3>1. k \in 0..(n - 1) - 1 /\ k \in 0..n - 1
      BY <1>6, <2>3
    <3> QED BY <1>9, <2>1, <2>3, <3>1, Zenon
  <2>4. CASE k > i + 1
    <3>1. k - 1 \in 0..(n - 1) - 1 /\ k - 1 \in 0..n - 1 /\ ~(k - 1 <= i) /\ (k - 1) + 1 = k
      BY <2>4
    <3>2. r[k - 1] = x
      BY <1>9, <2>1, <3>1, Zenon
    <3> QED BY <3>1, <3>2, Zenon
  <2> QED BY <2>2, <2>3, <2>4
<1>14. Lists(r, n - 1, h, ny, M \ {m}) /\ n - 1 \in Nat
  BY <1>6, <1>9, <1>10, <1>11, <1>12, <1>13 DEF Lists
<1>15. Linked(h, ny, M \ {m})
  BY <1>4, <1>14, Zenon DEF Linked
<1> QED BY <1>15, Zenon DEF ny

\* The mutexes that must be on the list: the initialised ones, but for one that
\* init has yet to link, or that destroy has unlinked and not cleared yet.
OffList == {"readHead", "linkHead", "clear"}
Tracked == {m \in Mutexes : isInit[m] /\ \A t \in Threads : arg[t] = m => pc[t] \notin OffList}

\* Where the calls of init and destroy are, and what the list is then.
ListInv ==
  /\ (\A t \in Threads : pc[t] # "clearList") => Linked(head, next, Tracked)
  /\ ~mutexList => \A m \in Mutexes : ~isInit[m]
  /\ \A t \in Threads :
       /\ pc[t] \in {"initList", "allocList", "clearList", "loadID", "storeID"} => ~isInit[arg[t]]
       /\ pc[t] \in {"readHead", "linkHead", "unlink", "clear"} => isInit[arg[t]]
       /\ pc[t] = "allocList" => ~mutexList
       /\ pc[t] \in {"clearList", "loadID", "storeID"} => mutexList
       /\ pc[t] = "clearList" => \A m \in Mutexes : ~isInit[m]
       /\ pc[t] = "linkHead" => next[arg[t]] = head
       /\ pc[t] = "unlink" => \/ prev[t] = NULL /\ head = arg[t]
                              \/ prev[t] \in Tracked /\ next[prev[t]] = arg[t]

\* The list is empty at first, and when the list object is made.
LEMMA LinkedEmpty == ASSUME NEW nx PROVE Linked(NULL, nx, {})
<1> DEFINE s == [k \in 0..0 |-> NULL]
<1>1. s \in [0..0 -> Pointer] /\ s[0] = NULL
  BY DEF Pointer
<1> HIDE DEF s
<1>2. Lists(s, 0, NULL, nx, {})
  BY <1>1 DEF Lists
<1> QED BY <1>2, Zenon DEF Linked

\* What lock and unlock do, and the steps of init and destroy that touch neither
\* the list nor the flags.
LEMMA ListKept ==
  ASSUME TypeOK, ListInv, UNCHANGED <<mutexList, head, next, isInit>>, NEW t \in Threads,
         \A u \in Threads \ {t} : pc'[u] = pc[u] /\ arg'[u] = arg[u] /\ prev'[u] = prev[u],
         pc[t] \notin OffList, pc'[t] \notin OffList,
         pc[t] # "clearList", pc'[t] # "clearList",
         /\ pc'[t] \in {"initList", "allocList", "clearList", "loadID", "storeID"} => ~isInit[arg'[t]]
         /\ pc'[t] = "unlink" => /\ isInit[arg'[t]]
                                 /\ \/ prev'[t] = NULL /\ head = arg'[t]
                                    \/ prev'[t] \in Tracked /\ next[prev'[t]] = arg'[t]
         /\ pc'[t] = "allocList" => ~mutexList
         /\ pc'[t] \in {"loadID", "storeID"} => mutexList
  PROVE  ListInv'
<1>1. Tracked' = Tracked
  BY Zenon DEF Tracked
<1>2. (\A u \in Threads : pc'[u] # "clearList") => Linked(head', next', Tracked')
  <2>1. ASSUME \A u \in Threads : pc'[u] # "clearList" PROVE \A u \in Threads : pc[u] # "clearList"
    BY <2>1, Zenon
  <2> QED BY <1>1, <2>1, Zenon DEF ListInv
<1>3. ASSUME NEW u \in Threads
      PROVE /\ pc'[u] \in {"initList", "allocList", "clearList", "loadID", "storeID"} => ~isInit'[arg'[u]]
            /\ pc'[u] \in {"readHead", "linkHead", "unlink", "clear"} => isInit'[arg'[u]]
            /\ pc'[u] = "allocList" => ~mutexList'
            /\ pc'[u] \in {"clearList", "loadID", "storeID"} => mutexList'
            /\ pc'[u] = "clearList" => \A m \in Mutexes : ~isInit'[m]
            /\ pc'[u] = "linkHead" => next'[arg'[u]] = head'
            /\ pc'[u] = "unlink" => \/ prev'[u] = NULL /\ head' = arg'[u]
                                    \/ prev'[u] \in Tracked' /\ next'[prev'[u]] = arg'[u]
  <2>1. CASE u = t
    BY <1>1, <2>1, Zenon DEF OffList
  <2>2. CASE u # t
    BY <1>1, <2>2, Zenon DEF ListInv
  <2> QED BY <2>1, <2>2, Zenon
<1> QED BY <1>2, <1>3, Zenon DEF ListInv

\* The thread in init or destroy is the only one.
LEMMA OneInSetup ==
  ASSUME TypeOK, CallInv, NEW t \in Threads, pc[t] \in Setup
  PROVE  arg[t] \in Mutexes /\ \A u \in Threads : pc[u] \in Setup => u = t
BY Zenon DEF CallInv, Setup

\* The list with the last step of the search of destroy.
LEMMA FoundOnList ==
  ASSUME TypeOK, Linked(head, next, Tracked),
         NEW f \in Mutexes, NEW p \in Pointer, NEW id, Found(id, f, p)
  PROVE  \/ p = NULL /\ head = f
         \/ p \in Tracked /\ next[p] = f
<1>1. PICK n \in Nat : \E s : Lists(s, n, head, next, Tracked)
  BY Zenon DEF Linked
<1>2. PICK s : Lists(s, n, head, next, Tracked)
  BY <1>1, Zenon
<1>3. /\ \A k \in 0..n : Chain[k] = s[k]
      /\ \A k \in Nat : k >= n => Chain[k] = NULL
  <2>1. Tracked \in SUBSET Mutexes
    BY Zenon DEF Tracked
  <2> QED BY <1>2, <2>1, ChainIsList, Zenon
<1>4. PICK k \in Places : Chain[k] = f /\ p = IF k = 0 THEN NULL ELSE Chain[k - 1]
  BY Zenon DEF Found
<1>5. k \in Nat /\ k < n
  <2>1. k \in Nat
    BY <1>4, FS_CardinalityType, MutexAssumption DEF Places
  <2>2. f # NULL
    BY MutexAssumption, Zenon
  <2> QED BY <1>3, <1>4, <2>1, <2>2
<1>6. CASE k = 0
  <2>1. Chain[0] = s[0] /\ s[0] = head
    BY <1>2, <1>3, <1>5 DEF Lists
  <2> QED BY <1>4, <1>6, <2>1, Zenon
<1>7. CASE k # 0
  <2>1. k - 1 \in 0..n - 1 /\ k - 1 \in 0..n /\ (k - 1) + 1 = k /\ k \in 0..n
    BY <1>5, <1>7
  <2>2. Chain[k - 1] = s[k - 1] /\ Chain[k] = s[k]
    BY <1>3, <2>1, Zenon
  <2>3. s[k - 1] \in Tracked /\ next[s[k - 1]] = s[k]
    BY <1>2, <2>1, Zenon DEF Lists
  <2> QED BY <1>4, <1>7, <2>2, <2>3, Zenon
<1> QED BY <1>6, <1>7, Zenon

\* Every step keeps the list: no two calls change it at a time, and destroy
\* unlinks the node it has found.
LEMMA StepList ==
  ASSUME TypeOK, CallInv, IdInv, ListInv, [Next]_vars, SetupAlone
  PROVE  ListInv'
<1> USE DEF Step, Enter, Leave
<1>1. ASSUME NEW t \in Threads, NEW m \in Mutexes, CallInit(t, m) \/ CallLock(t, m) \/ Release(t, m)
      PROVE  ListInv'
  <2>1. /\ UNCHANGED <<mutexList, head, next, isInit, prev>> /\ pc[t] = "idle"
        /\ pc' = [pc EXCEPT ![t] = pc'[t]] /\ arg' = [arg EXCEPT ![t] = m]
        /\ pc'[t] \in {"initList", "spin", "storeUnlocked"}
        /\ pc'[t] = "initList" => ~isInit[m]
    BY <1>1, Zenon DEF CallInit, CallLock, Release, TypeOK
  <2>2. arg'[t] = m /\ \A u \in Threads \ {t} : pc'[u] = pc[u] /\ arg'[u] = arg[u] /\ prev'[u] = prev[u]
    BY <2>1, Zenon DEF TypeOK
  <2> QED BY <2>1, <2>2, ListKept, Zenon DEF OffList
<1>2. ASSUME NEW t \in Threads, NEW m \in Mutexes, CallDestroy(t, m) PROVE ListInv'
  <2>1. PICK f \in Mutexes, p \in Pointer :
          /\ Found(mutexID[m], f, p) /\ Enter(t, f, "unlink") /\ prev' = [prev EXCEPT ![t] = p]
    BY <1>2, Zenon DEF CallDestroy
  <2>2. f = m /\ isInit[m] /\ UNCHANGED <<mutexList, head, next, isInit>>
    BY <1>2, <2>1, SearchFindsIt, Zenon DEF CallDestroy
  <2>3. /\ pc[t] = "idle" /\ pc'[t] = "unlink" /\ arg'[t] = f /\ prev'[t] = p
        /\ \A u \in Threads \ {t} : pc'[u] = pc[u] /\ arg'[u] = arg[u] /\ prev'[u] = prev[u]
    BY <2>1, Zenon DEF TypeOK
  <2>4. \/ p = NULL /\ head = f
        \/ p \in Tracked /\ next[p] = f
    <3>1. \A u \in Threads : pc[u] \notin Setup
      BY <1>2, Zenon DEF CallDestroy, MaySetUp
    <3>2. Linked(head, next, Tracked)
      BY <3>1, Zenon DEF ListInv, Setup, PC
    <3> QED BY <2>1, <3>2, FoundOnList, Zenon
  <2> QED BY <2>2, <2>3, <2>4, ListKept, Zenon DEF OffList
<1>3. ASSUME NEW t \in Threads, InitList(t) \/ LoadID(t) \/ TestAndSet(t) \/ StoreUnlocked(t) PROVE ListInv'
  <2>1. /\ UNCHANGED <<mutexList, head, next, isInit, prev>>
        /\ arg' = [arg EXCEPT ![t] = arg'[t]] /\ (pc'[t] # "idle" => arg'[t] = arg[t])
        /\ pc[t] \in {"initList", "loadID", "spin", "storeUnlocked"}
        /\ pc' = [pc EXCEPT ![t] = pc'[t]]
        /\ pc'[t] \in {"loadID", "allocList", "storeID", "idle"}
        /\ pc'[t] \in {"loadID", "allocList", "storeID"} => pc[t] \in {"initList", "loadID"}
        /\ pc'[t] = "allocList" => ~mutexList
        /\ pc'[t] = "loadID" => mutexList
        /\ pc'[t] = "storeID" => pc[t] = "loadID"
    BY <1>3, Zenon DEF InitList, LoadID, TestAndSet, StoreUnlocked, TypeOK
  <2>2. \A u \in Threads \ {t} : pc'[u] = pc[u] /\ arg'[u] = arg[u] /\ prev'[u] = prev[u]
    BY <2>1, Zenon DEF TypeOK
  <2>3. /\ pc'[t] \in {"loadID", "allocList", "storeID"} => ~isInit[arg[t]]
        /\ pc'[t] = "storeID" => mutexList
    BY <2>1, Zenon DEF ListInv
  <2> QED BY <2>1, <2>2, <2>3, ListKept, Zenon DEF OffList
\* The other steps are those of init and destroy: no other thread is there.
<1>4. ASSUME NEW t \in Threads, pc[t] \in Setup, pc' = [pc EXCEPT ![t] = pc'[t]],
             arg' = [arg EXCEPT ![t] = arg'[t]], pc'[t] # "idle" => arg'[t] = arg[t]
      PROVE  /\ arg[t] \in Mutexes
             /\ pc[t] # "clearList" => Linked(head, next, Tracked)
             /\ \A u \in Threads \ {t} : pc'[u] = pc[u] /\ pc[u] \in {"idle", "spin", "storeUnlocked"}
             /\ isInit' = isInit =>
                  /\ pc[t] \notin OffList /\ pc'[t] \notin OffList => Tracked' = Tracked
                  /\ pc[t] \in OffList /\ pc'[t] \in OffList => Tracked' = Tracked
                  /\ pc[t] \in OffList /\ pc'[t] \notin OffList /\ isInit[arg[t]]
                       => Tracked' = Tracked \cup {arg[t]}
                  /\ pc[t] \notin OffList /\ pc'[t] \in OffList => Tracked' = Tracked \ {arg[t]}
  <2>1. arg[t] \in Mutexes /\ \A u \in Threads : pc[u] \in Setup => u = t
    BY <1>4, OneInSetup, Zenon
  <2>2. \A u \in Threads \ {t} : pc'[u] = pc[u] /\ pc[u] \in {"idle", "spin", "storeUnlocked"}
    BY <1>4, <2>1, Zenon DEF TypeOK, Setup
  <2>3. ASSUME isInit' = isInit
        PROVE  /\ Tracked = {m \in Mutexes : isInit[m] /\ (m = arg[t] => pc[t] \notin OffList)}
               /\ Tracked' = {m \in Mutexes : isInit[m] /\ (m = arg[t] => pc'[t] \notin OffList)}
    BY <1>4, <2>1, <2>2, <2>3, Zenon DEF Tracked, OffList
  <2>4. ASSUME pc[t] # "clearList" PROVE Linked(head, next, Tracked)
    <3>1. \A u \in Threads : pc[u] # "clearList"
      BY <2>2, <2>4, Zenon
    <3> QED BY <3>1, Zenon DEF ListInv
  <2> QED BY <2>1, <2>2, <2>3, <2>4, Zenon
\* So the invariant is about the thread t alone.
<1>5. ASSUME NEW t \in Threads, NEW M, Tracked' = M, pc'[t] # "clearList" => Linked(head', next', M),
             \A u \in Threads \ {t} : pc'[u] \in {"idle", "spin", "storeUnlocked"},
             ~mutexList' => \A m \in Mutexes : ~isInit'[m],
             pc'[t] \in {"clearList", "loadID", "storeID"} => ~isInit'[arg'[t]] /\ mutexList',
             pc'[t] \in {"readHead", "linkHead", "clear"} => isInit'[arg'[t]],
             pc'[t] = "clearList" => \A m \in Mutexes : ~isInit'[m],
             pc'[t] = "linkHead" => next'[arg'[t]] = head',
             pc'[t] \notin {"initList", "allocList", "unlink"}
      PROVE  ListInv'
  BY <1>5, Zenon DEF ListInv
<1>6. ASSUME NEW t \in Threads, AllocList(t) \/ ClearList(t) PROVE ListInv'
  <2>1. /\ pc[t] \in {"allocList", "clearList"} /\ pc' = [pc EXCEPT ![t] = pc'[t]]
        /\ UNCHANGED <<arg, isInit>> /\ pc[t] \in Setup
        /\ pc'[t] \in {"clearList", "loadID"}
        /\ pc'[t] = "loadID" => head' = NULL
        /\ pc[t] = "allocList" => mutexList' = TRUE
        /\ pc[t] = "clearList" => mutexList' = mutexList
    BY <1>6, Zenon DEF AllocList, ClearList, Setup, PC, TypeOK
  <2>2. \A m \in Mutexes : ~isInit[m]
    BY <2>1, Zenon DEF ListInv
  <2>3. Tracked' = {}
    BY <2>1, <2>2, Zenon DEF Tracked
  <2>4. mutexList'
    BY <2>1 DEF ListInv
  <2>5. arg' = [arg EXCEPT ![t] = arg'[t]] /\ arg'[t] = arg[t]
    BY <2>1, Zenon DEF TypeOK
  <2>6. arg[t] \in Mutexes /\ \A u \in Threads \ {t} : pc'[u] \in {"idle", "spin", "storeUnlocked"}
    BY <1>4, <2>1, <2>5, Zenon
  <2>7. pc'[t] # "clearList" => Linked(head', next', {})
    BY <2>1, LinkedEmpty, Zenon
  <2> QED BY <1>5, <2>1, <2>2, <2>3, <2>4, <2>6, <2>7, Zenon
<1>7. ASSUME NEW t \in Threads, pc[t] \in OffList, arg[t] \in Mutexes PROVE arg[t] \notin Tracked
  BY <1>7, Zenon DEF Tracked
<1>8. ASSUME NEW t \in Threads, StoreID(t) PROVE ListInv'
  <2>1. /\ pc[t] = "storeID" /\ pc' = [pc EXCEPT ![t] = pc'[t]] /\ pc'[t] = "readHead"
        /\ arg' = arg /\ arg' = [arg EXCEPT ![t] = arg'[t]]
        /\ UNCHANGED <<mutexList, head>>
        /\ isInit' = [isInit EXCEPT ![arg[t]] = TRUE] /\ next' = [next EXCEPT ![arg[t]] = NULL]
    BY <1>8, Zenon DEF StoreID, TypeOK
  <2>2. /\ arg[t] \in Mutexes
        /\ Linked(head, next, Tracked)
        /\ \A u \in Threads \ {t} : pc'[u] = pc[u] /\ pc[u] \in {"idle", "spin", "storeUnlocked"}
    BY <1>4, <2>1, Zenon DEF Setup, PC
  <2>3. ~isInit[arg[t]] /\ mutexList
    BY <2>1, Zenon DEF ListInv
  <2>4. isInit'[arg[t]] /\ \A m \in Mutexes \ {arg[t]} : isInit'[m] = isInit[m]
    BY <2>1, <2>2, Zenon DEF TypeOK
  <2>5. arg[t] \notin Tracked /\ Tracked' = Tracked
    <3>1. arg[t] \notin Tracked
      BY <2>3, Zenon DEF Tracked
    <3>2. arg[t] \notin Tracked'
      BY <2>1, Zenon DEF Tracked, OffList
    <3>3. ASSUME NEW m \in Mutexes \ {arg[t]} PROVE m \in Tracked <=> m \in Tracked'
      BY <2>1, <2>2, <2>4, Zenon DEF Tracked
    <3>4. Tracked \subseteq Mutexes /\ Tracked' \subseteq Mutexes
      BY Zenon DEF Tracked
    <3> QED BY <3>1, <3>2, <3>3, <3>4
  <2>6. Linked(head', next', Tracked)
    BY <2>1, <2>2, <2>5, LinkedOutside, Zenon DEF TypeOK
  <2> QED BY <1>5, <2>1, <2>2, <2>3, <2>4, <2>5, <2>6, Zenon
<1>9. ASSUME NEW t \in Threads, ReadHead(t) PROVE ListInv'
  <2>1. /\ pc[t] = "readHead" /\ pc' = [pc EXCEPT ![t] = pc'[t]] /\ pc'[t] = "linkHead"
        /\ arg' = arg /\ arg' = [arg EXCEPT ![t] = arg'[t]]
        /\ UNCHANGED <<mutexList, head, isInit>>
        /\ next' = [next EXCEPT ![arg[t]] = head]
    BY <1>9, Zenon DEF ReadHead, TypeOK
  <2>2. /\ arg[t] \in Mutexes /\ Tracked' = Tracked
        /\ Linked(head, next, Tracked)
        /\ \A u \in Threads \ {t} : pc'[u] = pc[u] /\ pc[u] \in {"idle", "spin", "storeUnlocked"}
    BY <1>4, <2>1, Zenon DEF Setup, PC, OffList
  <2>3. arg[t] \notin Tracked
    BY <1>7, <2>1, <2>2, Zenon DEF OffList
  <2>4. Linked(head', next', Tracked) /\ next'[arg[t]] = head
    BY <2>1, <2>2, <2>3, LinkedOutside, Zenon DEF TypeOK
  <2>5. isInit[arg[t]] /\ (~mutexList => \A m \in Mutexes : ~isInit[m])
    BY <2>1, Zenon DEF ListInv
  <2> QED BY <1>5, <2>1, <2>2, <2>4, <2>5, Zenon
<1>10. ASSUME NEW t \in Threads, LinkHead(t) PROVE ListInv'
  <2>1. /\ pc[t] = "linkHead" /\ pc' = [pc EXCEPT ![t] = pc'[t]] /\ pc'[t] = "idle"
        /\ arg' = [arg EXCEPT ![t] = NULL] /\ arg' = [arg EXCEPT ![t] = arg'[t]]
        /\ UNCHANGED <<mutexList, next, isInit>> /\ head' = arg[t]
    BY <1>10, Zenon DEF LinkHead, TypeOK
  <2>2. isInit[arg[t]] /\ next[arg[t]] = head /\ (~mutexList => \A m \in Mutexes : ~isInit[m])
    BY <2>1, Zenon DEF ListInv
  <2>3. /\ arg[t] \in Mutexes /\ Tracked' = Tracked \cup {arg[t]}
        /\ Linked(head, next, Tracked)
        /\ \A u \in Threads \ {t} : pc'[u] = pc[u] /\ pc[u] \in {"idle", "spin", "storeUnlocked"}
    BY <1>4, <2>1, <2>2, Zenon DEF Setup, PC, OffList
  <2>4. arg[t] \notin Tracked
    BY <1>7, <2>1, <2>3, Zenon DEF OffList
  <2>5. Linked(head', next', Tracked \cup {arg[t]})
    BY <2>1, <2>2, <2>3, <2>4, LinkedInsert, Zenon
  <2> QED BY <1>5, <2>1, <2>2, <2>3, <2>5, Zenon
<1>11. ASSUME NEW t \in Threads, Unlink(t) PROVE ListInv'
  <2>1. /\ pc[t] = "unlink" /\ pc' = [pc EXCEPT ![t] = pc'[t]] /\ pc'[t] = "clear"
        /\ arg' = arg /\ arg' = [arg EXCEPT ![t] = arg'[t]]
        /\ UNCHANGED <<mutexList, isInit>>
        /\ \/ prev[t] = NULL /\ head' = next[arg[t]] /\ next' = next
           \/ prev[t] # NULL /\ next' = [next EXCEPT ![prev[t]] = next[arg[t]]] /\ head' = head
    BY <1>11, Zenon DEF Unlink, TypeOK
  <2>2. /\ isInit[arg[t]] /\ (~mutexList => \A m \in Mutexes : ~isInit[m])
        /\ \/ prev[t] = NULL /\ head = arg[t]
           \/ prev[t] \in Tracked /\ next[prev[t]] = arg[t]
    BY <2>1, Zenon DEF ListInv
  <2>3. /\ arg[t] \in Mutexes /\ Tracked' = Tracked \ {arg[t]}
        /\ Linked(head, next, Tracked)
        /\ \A u \in Threads \ {t} : pc'[u] = pc[u] /\ pc[u] \in {"idle", "spin", "storeUnlocked"}
    BY <1>4, <2>1, <2>2, Zenon DEF Setup, PC, OffList
  <2>4. arg[t] \in Tracked
    BY <2>1, <2>2, <2>3, Zenon DEF Tracked, OffList
  <2>5. NULL \notin Tracked
    BY MutexAssumption, Zenon DEF Tracked
  <2>6. CASE prev[t] = NULL
    <3>1. head' = next[head] /\ next' = next /\ head = arg[t]
      BY <2>1, <2>2, <2>5, <2>6, Zenon
    <3>2. Linked(head', next', Tracked \ {arg[t]})
      BY <2>3, <2>4, <3>1, LinkedRemoveHead, Zenon
    <3> QED BY <1>5, <2>1, <2>2, <2>3, <3>2, Zenon
  <2>7. CASE prev[t] # NULL
    <3>1. /\ prev[t] \in Tracked /\ next[prev[t]] = arg[t] /\ head' = head
          /\ next' = [next EXCEPT ![prev[t]] = next[arg[t]]]
      BY <2>1, <2>2, <2>7, Zenon
    <3>2. Linked(head', next', Tracked \ {arg[t]})
      BY <2>3, <2>4, <3>1, LinkedRemove, Zenon DEF TypeOK
    <3> QED BY <1>5, <2>1, <2>2, <2>3, <3>2, Zenon
  <2> QED BY <2>6, <2>7, Zenon
<1>12. ASSUME NEW t \in Threads, Clear(t) PROVE ListInv'
  <2>1. /\ pc[t] = "clear" /\ pc' = [pc EXCEPT ![t] = pc'[t]] /\ pc'[t] = "idle"
        /\ arg' = [arg EXCEPT ![t] = NULL] /\ arg' = [arg EXCEPT ![t] = arg'[t]]
        /\ UNCHANGED <<mutexList, head>>
        /\ isInit' = [isInit EXCEPT ![arg[t]] = FALSE] /\ next' = [next EXCEPT ![arg[t]] = NULL]
    BY <1>12, Zenon DEF Clear, TypeOK
  <2>2. /\ arg[t] \in Mutexes
        /\ Linked(head, next, Tracked)
        /\ \A u \in Threads \ {t} : pc'[u] = pc[u] /\ pc[u] \in {"idle", "spin", "storeUnlocked"}
    BY <1>4, <2>1, Zenon DEF Setup, PC
  <2>3. arg[t] \notin Tracked
    BY <1>7, <2>1, <2>2, Zenon DEF OffList
  <2>4. ~isInit'[arg[t]] /\ \A m \in Mutexes \ {arg[t]} : isInit'[m] = isInit[m]
    BY <2>1, <2>2, Zenon DEF TypeOK
  <2>5. Tracked' = Tracked
    <3>1. arg[t] \notin Tracked'
      BY <2>4, Zenon DEF Tracked
    <3>2. ASSUME NEW m \in Mutexes \ {arg[t]} PROVE m \in Tracked <=> m \in Tracked'
      BY <2>1, <2>2, <2>4, Zenon DEF Tracked, OffList, TypeOK
    <3>3. Tracked \subseteq Mutexes /\ Tracked' \subseteq Mutexes
      BY Zenon DEF Tracked
    <3> QED BY <2>3, <3>1, <3>2, <3>3
  <2>6. Linked(head', next', Tracked)
    BY <2>1, <2>2, <2>3, LinkedOutside, Zenon DEF TypeOK
  <2>7. ~mutexList => \A m \in Mutexes : ~isInit'[m]
    BY <2>4, Zenon DEF ListInv
  <2> QED BY <1>5, <2>1, <2>2, <2>5, <2>6, <2>7, Zenon
<1>13. CASE UNCHANGED vars
  BY <1>13, Zenon DEF vars, ListInv, Tracked
<1> QED
  BY <1>1, <1>2, <1>3, <1>6, <1>8, <1>9, <1>10, <1>11, <1>12, <1>13, Zenon DEF Next

\* The invariant of the list, with what it rests on.
THEOREM ListInvariant ==
  ASSUME SetupAlone
  PROVE  Spec => [](TypeOK /\ CallInv /\ IdInv /\ ListInv)
<1> DEFINE IInv == TypeOK /\ CallInv /\ IdInv /\ ListInv
<1>1. ASSUME Init PROVE ListInv
  <2>1. head = NULL /\ \A m \in Mutexes : ~isInit[m]
    BY <1>1, Zenon DEF Init
  <2>2. Tracked = {}
    BY <2>1, Zenon DEF Tracked
  <2>3. Linked(head, next, Tracked)
    BY <2>1, <2>2, LinkedEmpty, Zenon
  <2>4. \A t \in Threads : pc[t] = "idle"
    BY <1>1, Zenon DEF Init
  <2> QED BY <2>1, <2>3, <2>4, Zenon DEF ListInv
<1>2. Init => IInv
  BY <1>1, InitType, InitCalls, InitIds, Zenon
<1>3. IInv /\ [Next]_vars => IInv'
  BY StepType, StepCalls, StepIds, StepList, Zenon
<1> QED
  BY <1>2, <1>3, PTL DEF Spec

\* Whenever no thread is inside init or destroy, the list holds exactly the
\* initialised mutexes (see ListTracksInitialised): insertToMutexList and
\* removeFromMutexList neither lose a node nor leave one behind.
THEOREM ListAlwaysTracks ==
  ASSUME SetupAlone
  PROVE  Spec => []ListTracksInitialised
<1>1. ASSUME TypeOK, ListInv PROVE ListTracksInitialised
  <2> SUFFICES ASSUME \A t \in Threads : pc[t] \notin Setup
               PROVE  Listed = {m \in Mutexes : isInit[m]}
    BY Zenon DEF ListTracksInitialised
  <2>1. Tracked = {m \in Mutexes : isInit[m]}
    BY Zenon DEF Tracked, OffList, Setup, PC
  <2>2. Linked(head, next, Tracked)
    BY <1>1, Zenon DEF ListInv, Setup, PC
  <2> QED BY <1>1, <2>1, <2>2, LinkedMeans, Zenon
<1> QED
  BY <1>1, ListInvariant, PTL

\* A walk along the list ends (see ListEnds), at every moment of every call but
\* between the allocation of the list and the store to its head.
THEOREM ListAlwaysEnds ==
  ASSUME SetupAlone
  PROVE  Spec => []ListEnds
<1>1. TypeOK /\ ListInv => ListEnds
  BY LinkedMeans, Zenon DEF ListInv, ListEnds
<1> QED
  BY <1>1, ListInvariant, PTL
=============================================================================
