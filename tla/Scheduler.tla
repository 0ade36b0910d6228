----------------------------- MODULE Scheduler -----------------------------
(***************************************************************************)
(* The user-level thread scheduler of my_pthread.c: a multilevel run queue *)
(* (scd->runQ), the node that owns the CPU (scd->current), the list of     *)
(* nodes waiting in my_pthread_join (scd->joinList), and schedule(), which *)
(* runs either in the SIGALRM handler or at the end of a library call.     *)
(*                                                                         *)
(* Everything runs on one kernel thread, so the only concurrency is the    *)
(* alarm: it may arrive wherever the timer is armed.  A library call is    *)
(* therefore split where it unpauses the timer before calling schedule()   *)
(* (the "Win" values of pc); between pause_timer and unpause_timer it is   *)
(* one step, and so is schedule(), which pauses the timer first.           *)
(*                                                                         *)
(* A thread is its id.  main is 1, created threads are 2, 3, ... in the    *)
(* order of creation, and clock() advances between two creations, so that  *)
(* the id also orders timeCreated.                                         *)
(***************************************************************************)
EXTENDS Integers, Sequences, FiniteSets, SequencesExt

CONSTANTS
  MaxThreads,     \* bound: ids are 1..MaxThreads
  RunQueueSize,   \* RUN_QUEUE_SIZE, 5 in my_pthread_t.h
  MaintCycles,    \* schedule() runs maintenance() when cycles exceeds this; 100
  Clients,        \* the programs that use the library, one of which runs
  NULL,           \* the null pointer, as an exit argument
  ExitArgs        \* the non-null arguments the client passes to my_pthread_exit

ASSUME SchedulerAssumption ==
  /\ MaxThreads \in Nat \ {0}
  /\ RunQueueSize \in 1..5
  /\ MaintCycles \in Nat \ {0}
  /\ \A c \in Clients :
       /\ c.preempted \in BOOLEAN
       /\ c.mainStays \in BOOLEAN
       /\ c.joins \subseteq (1..MaxThreads) \X (1..MaxThreads)
       /\ c.mainStays => \A p \in c.joins : p[1] # 1
  /\ NULL \notin ExitArgs

(***************************************************************************)
(* A client is a record: preempted, whether a quantum ever ends before the *)
(* thread gives up the CPU; joins, the <<joiner, joinee>> pairs for which  *)
(* it calls my_pthread_join; mainStays, whether main neither joins nor     *)
(* calls my_pthread_exit, so that some thread can run at any time.         *)
(***************************************************************************)
Main == 1
Thread == 1..MaxThreads
Levels == 0..RunQueueSize - 1
Status == {"NEUTRAL", "YIELDING", "EXITING", "JOINING"}
Arg == ExitArgs \cup {NULL}

(***************************************************************************)
(* Where a thread goes on when it next gets the CPU.  "user": its own      *)
(* code; "createWin": in the first my_pthread_create, initialize() done    *)
(* and timer running; "yieldWin", "exitWin", "joinWin": in the named call, *)
(* status set, timer unpaused, schedule() not called yet; "joinBack": in   *)
(* my_pthread_join, after schedule() returned; "exitRet": my_pthread_exit  *)
(* has returned to a thread that has nothing left to do.                   *)
(***************************************************************************)
PC == {"user", "createWin", "yieldWin", "exitWin", "joinWin", "joinBack", "exitRet"}

VARIABLES
  scdUp,       \* scd # NULL: initialize() has run
  threadNum,   \* scd->threadNum, the next id
  current,     \* scd->current
  runQ,        \* scd->runQ[i], head first
  joinList,    \* scd->joinList, head first
  status,      \* node->status
  priority,    \* node->priority
  joinee,      \* node->joinee
  dead,        \* threads whose EXITING branch of schedule() has run (isDead)
  exitArg,     \* threadID->exitArg
  value,       \* what the last join of the thread stored through value_ptr
  cycles,      \* scd->cycles
  armed,       \* the interval timer is running
  pc,
  halted,      \* the process has exited
  client       \* the program that runs

vars == <<scdUp, threadNum, current, runQ, joinList, status, priority, joinee,
          dead, exitArg, value, cycles, armed, pc, halted, client>>

Created == 1..threadNum - 1
Ready == UNION {ToSet(runQ[l]) : l \in Levels}

\* A node has one next field.  Once a node of joinList has been linked into a
\* list again the two lists run into each other, sequences no longer describe
\* them, and the model goes no further.
Intact == IsInjective(joinList) /\ ToSet(joinList) \cap Ready = {}

Running == ~halted /\ Intact
InUser == Running /\ pc[current] = "user"

Init ==
  /\ scdUp = FALSE
  /\ threadNum = 2
  /\ current = Main
  /\ runQ = [l \in Levels |-> <<>>]
  /\ joinList = <<>>
  /\ status = [t \in Thread |-> "NEUTRAL"]
  /\ priority = [t \in Thread |-> 0]
  /\ joinee = [t \in Thread |-> t]
  /\ dead = {}
  /\ exitArg = [t \in Thread |-> NULL]
  /\ value = [t \in Thread |-> NULL]
  /\ cycles = 0
  /\ armed = FALSE
  /\ pc = [t \in Thread |-> "user"]
  /\ halted = FALSE
  /\ client \in Clients

-----------------------------------------------------------------------------
(* Queue operations, on a pair rq of the run queue and the priorities.     *)

RQ == [q |-> runQ, pr |-> priority]

\* Mutants of EnQ: the priority is only set for an empty queue; the node is
\* linked in at the head.
EnQ_PriorityIfEmpty(rq, l, t) ==
  [q  |-> [rq.q EXCEPT ![l] = Append(@, t)],
   pr |-> IF rq.q[l] # <<>> THEN rq.pr ELSE [rq.pr EXCEPT ![t] = l]]

EnQ_AtHead(rq, l, t) ==
  [q |-> [rq.q EXCEPT ![l] = <<t>> \o @], pr |-> [rq.pr EXCEPT ![t] = l]]

\* enQ: a yielding node appended to a non-empty queue keeps its priority.
EnQ(rq, l, t) ==
  [q  |-> [rq.q EXCEPT ![l] = Append(@, t)],
   pr |-> IF rq.q[l] # <<>> /\ status[t] = "YIELDING"
            THEN rq.pr ELSE [rq.pr EXCEPT ![t] = l]]

\* demoteNode: one level down, unless it is the last.
DemoteNode(rq, t) ==
  EnQ(rq, IF rq.pr[t] < RunQueueSize - 1 THEN rq.pr[t] + 1 ELSE rq.pr[t], t)

\* insertByTime over a whole level: longest runtime, so smallest id, first.
ByAge(s) ==
  LET Older(t) == {u \in ToSet(s) : u < t}
  IN  [k \in 1..Len(s) |->
         CHOOSE t \in ToSet(s) : Cardinality(Older(t)) = k - 1]

\* Mutants: the last k loop stops after one more group; the groups are read off
\* promotionQ without deQ, and the last one begins a group too early.
Group_DropsRest(rq, m, l) ==
  LET s == ByAge(rq.q[m])
      k == Len(s) \div (m + 1)
  IN  IF m >= RunQueueSize \/ m < l \/ m = 0 THEN <<>>
      ELSE SubSeq(s, (m - l) * k + 1, (m - l + 1) * k)

Group_Overlaps(rq, m, l) ==
  LET s == ByAge(rq.q[m])
      k == Len(s) \div (m + 1)
  IN  IF m >= RunQueueSize \/ m < l \/ m = 0 THEN <<>>
      ELSE IF l = 0 THEN SubSeq(s, (m - 1) * k + 1, Len(s))
      ELSE SubSeq(s, (m - l) * k + 1, (m - l + 1) * k)

\* The nodes of level m that maintenance() moves to level l: the j loop hands
\* out groups of Len \div (m + 1) nodes, oldest first, to levels m, m-1, .., 1
\* and what is left to level 0.
Group(rq, m, l) ==
  LET s == ByAge(rq.q[m])
      k == Len(s) \div (m + 1)
  IN  IF m >= RunQueueSize \/ m < l \/ m = 0 THEN <<>>
      ELSE IF l = 0 THEN SubSeq(s, m * k + 1, Len(s))
      ELSE SubSeq(s, (m - l) * k + 1, (m - l + 1) * k)

\* maintenance: levels 1, 2, .. are emptied into promotionQ and dealt out again.
Maintenance(rq) ==
  LET q == [l \in Levels |->
              (IF l = 0 THEN rq.q[0] ELSE <<>>)
                \o Group(rq, 1, l) \o Group(rq, 2, l)
                \o Group(rq, 3, l) \o Group(rq, 4, l)]
      Moved(l) == UNION {ToSet(Group(rq, m, l)) : m \in 1..4}
  IN  [q  |-> q,
       pr |-> [t \in Thread |->
                 IF \E l \in Levels : t \in Moved(l)
                   THEN CHOOSE l \in Levels : t \in Moved(l) ELSE rq.pr[t]]]

\* The joinList loop of the EXITING branch: jptr is at position i of the list
\* ls; a node that waits for u is unlinked and goes to the queue of its own
\* priority, and the loop starts again at the head.
RECURSIVE WakeFrom(_, _, _, _)
WakeFrom(rq, ls, i, u) ==
  IF i > Len(ls) THEN [rq |-> rq, ls |-> ls]
  ELSE IF joinee[ls[i]] = u
         THEN WakeFrom(EnQ(rq, rq.pr[ls[i]], ls[i]), RemoveAt(ls, i), 1, u)
         ELSE WakeFrom(rq, ls, i + 1, u)

\* Mutants: the loop goes on behind the node it has unlinked; it does not look
\* at jptr->joinee.
WakeJoiners_FollowsUnlinked(rq, u) ==
  LET i == SelectInSeq(joinList, LAMBDA t : joinee[t] = u)
  IN  IF i = 0 THEN [rq |-> rq, ls |-> joinList]
      ELSE [rq |-> EnQ(rq, rq.pr[joinList[i]], joinList[i]),
            ls |-> RemoveAt(joinList, i)]

WakeJoiners_Anyone(rq, u) ==
  [rq |-> FoldLeft(LAMBDA acc, t : EnQ(acc, acc.pr[t], t), rq, joinList),
   ls |-> <<>>]

WakeJoiners(rq, u) == WakeFrom(rq, joinList, 1, u)

-----------------------------------------------------------------------------
(* schedule(): what each branch does with the node that was running.       *)

\* Linking node t in somewhere else overwrites its next field: joinList, if it
\* runs through t, ends there, and the nodes behind it are on no list.
CutAt(t) ==
  LET i == SelectInSeq(joinList, LAMBDA u : u = t)
  IN  IF i = 0 THEN joinList ELSE SubSeq(joinList, 1, i)

\* Mutant: the EXITING branch falls through to the requeueing one.
Requeued_ExitFallsThrough(rq) ==
  CASE status[current] = "YIELDING" -> [rq |-> EnQ(rq, rq.pr[current], current),
                                        ls |-> CutAt(current)]
    [] status[current] = "EXITING"  ->
         [rq |-> DemoteNode(WakeJoiners(rq, current).rq, current),
          ls |-> WakeJoiners(rq, current).ls]
    [] status[current] = "JOINING"  -> [rq |-> rq, ls |-> <<current>> \o CutAt(current)]
    [] status[current] = "NEUTRAL"  -> [rq |-> DemoteNode(rq, current),
                                        ls |-> CutAt(current)]

\* The run queues and joinList after the branch for current's status.  With
\* current already on joinList, insertToList makes the list run back into it:
\* the second mention of current closes the cycle.
Requeued(rq) ==
  CASE status[current] = "YIELDING" -> [rq |-> EnQ(rq, rq.pr[current], current),
                                        ls |-> CutAt(current)]
    [] status[current] = "EXITING"  -> WakeJoiners(rq, current)
    [] status[current] = "JOINING"  -> [rq |-> rq, ls |-> <<current>> \o CutAt(current)]
    [] status[current] = "NEUTRAL"  -> [rq |-> DemoteNode(rq, current),
                                        ls |-> CutAt(current)]

\* getNextNode: the head of the first non-empty queue.  With none, schedule()
\* returns to its caller with the timer still paused.
Dispatch(rq) ==
  LET nonEmpty == {l \in Levels : rq.q[l] # <<>>}
  IN  /\ priority' = rq.pr
      /\ \/ /\ nonEmpty = {}
            /\ runQ' = rq.q
            /\ current' = current
            /\ armed' = FALSE
         \/ \E l \in nonEmpty :
              /\ \A k \in nonEmpty : l <= k
              /\ current' = Head(rq.q[l])
              /\ runQ' = [rq.q EXCEPT ![l] = Tail(@)]
              /\ armed' = TRUE

Schedule(resume) ==
  LET maintain == cycles + 1 > MaintCycles
      after == Requeued(IF maintain THEN Maintenance(RQ) ELSE RQ)
  IN  /\ cycles' = (IF maintain THEN 0 ELSE cycles + 1)
      /\ Dispatch(after.rq)
      /\ joinList' = after.ls
      /\ status' = [status EXCEPT ![current] =
                      IF @ = "YIELDING" THEN "NEUTRAL" ELSE @]
      /\ dead' = IF status[current] = "EXITING" THEN dead \cup {current} ELSE dead
      /\ pc' = [pc EXCEPT ![current] = resume]
      /\ UNCHANGED <<scdUp, threadNum, joinee, exitArg, value, halted, client>>

-----------------------------------------------------------------------------
(* The library calls.                                                      *)

\* initialize(), at the start of the first my_pthread_create: main becomes a
\* node, and the timer is started before my_pthread_create pauses it.
Initialize ==
  /\ InUser
  /\ ~scdUp
  /\ scdUp' = TRUE
  /\ armed' = TRUE
  /\ pc' = [pc EXCEPT ![current] = "createWin"]
  /\ UNCHANGED <<threadNum, current, runQ, joinList, status, priority, joinee,
                 dead, exitArg, value, cycles, halted, client>>

\* my_pthread_create under the paused timer.  The allocations inside it pause
\* and unpause the timer a second time: the inner pause stores the zero of an
\* already stopped timer, so the final unpause_timer leaves the timer off.
CreateReturns ==
  /\ Running
  /\ scdUp
  /\ pc[current] \in {"user", "createWin"}
  /\ pc' = [pc EXCEPT ![current] = "user"]
  /\ armed' = FALSE

Create ==
  /\ CreateReturns
  /\ threadNum <= MaxThreads
  /\ threadNum' = threadNum + 1
  /\ runQ' = EnQ(RQ, 0, threadNum).q
  /\ priority' = EnQ(RQ, 0, threadNum).pr
  /\ UNCHANGED <<scdUp, current, joinList, status, joinee, dead, exitArg, value,
                 cycles, halted, client>>

\* my_pthread_create returning 1: no room for the context or its stack.
CreateFails ==
  /\ CreateReturns
  /\ UNCHANGED <<scdUp, threadNum, current, runQ, joinList, status, priority, joinee,
                 dead, exitArg, value, cycles, halted, client>>

\* The part of a call before schedule(): set the status under a paused timer.
EnterCall(st, win) ==
  /\ InUser
  /\ scdUp
  /\ status' = [status EXCEPT ![current] = st]
  /\ pc' = [pc EXCEPT ![current] = win]
  /\ UNCHANGED <<scdUp, threadNum, current, runQ, joinList, priority, dead,
                 value, cycles, armed, halted, client>>

Yield ==
  /\ EnterCall("YIELDING", "yieldWin")
  /\ UNCHANGED <<joinee, exitArg>>

Exit(v) ==
  /\ client.mainStays => current # Main
  /\ EnterCall("EXITING", "exitWin")
  /\ exitArg' = [exitArg EXCEPT ![current] = v]
  /\ UNCHANGED joinee

\* A thread function returns into terminationHandler through uc_link.
ThreadReturns ==
  /\ current # Main
  /\ EnterCall("EXITING", "exitWin")
  /\ UNCHANGED <<joinee, exitArg>>

\* Mutant: isDead is not looked at.
JoinLive_IgnoresIsDead(u) ==
  /\ <<current, u>> \in client.joins
  /\ u \in Created \ {Main}
  /\ EnterCall("JOINING", "joinWin")
  /\ joinee' = [joinee EXCEPT ![current] = u]
  /\ UNCHANGED exitArg

\* The threads list holds every created thread but main.
JoinLive(u) ==
  /\ <<current, u>> \in client.joins
  /\ u \in Created \ {Main}
  /\ u \notin dead
  /\ EnterCall("JOINING", "joinWin")
  /\ joinee' = [joinee EXCEPT ![current] = u]
  /\ UNCHANGED exitArg

JoinDead(u) ==
  /\ InUser
  /\ <<current, u>> \in client.joins
  /\ u \in dead \ {Main}
  /\ value' = [value EXCEPT ![current] = exitArg[u]]
  /\ UNCHANGED <<scdUp, threadNum, current, runQ, joinList, status, priority,
                 joinee, dead, exitArg, cycles, armed, pc, halted, client>>

\* The schedule() call that ends my_pthread_yield, _exit, _join and
\* terminationHandler.
Resume == [yieldWin |-> "user", exitWin |-> "exitRet", joinWin |-> "joinBack"]

CallSchedule ==
  /\ Running
  /\ pc[current] \in DOMAIN Resume
  /\ Schedule(Resume[pc[current]])

\* my_pthread_join after schedule() has returned.  The status stays JOINING.
JoinReturns ==
  /\ Running
  /\ pc[current] = "joinBack"
  /\ value' = [value EXCEPT ![current] = exitArg[joinee[current]]]
  /\ pc' = [pc EXCEPT ![current] = "user"]
  /\ UNCHANGED <<scdUp, threadNum, current, runQ, joinList, status, priority,
                 joinee, dead, exitArg, cycles, armed, halted, client>>

\* timerHandler: the interrupted thread resumes where it was.
Tick ==
  /\ client.preempted
  /\ Running
  /\ armed
  /\ Schedule(pc[current])

\* main() returns, or my_pthread_exit came back because nothing was runnable.
ProcessExits ==
  /\ Running
  /\ \/ current = Main /\ pc[Main] = "user"
     \/ pc[current] = "exitRet"
  /\ halted' = TRUE
  /\ UNCHANGED <<scdUp, threadNum, current, runQ, joinList, status, priority,
                 joinee, dead, exitArg, value, cycles, armed, pc, client>>

Next ==
  \/ Initialize
  \/ Create
  \/ CreateFails
  \/ Yield
  \/ \E v \in Arg : Exit(v)
  \/ ThreadReturns
  \/ \E u \in Thread : JoinLive(u)
  \/ \E u \in Thread : JoinDead(u)
  \/ CallSchedule
  \/ JoinReturns
  \/ Tick
  \/ ProcessExits

Spec == Init /\ [][Next]_vars

(***************************************************************************)
(* Fairness.  The library goes on when it can: an armed interval timer     *)
(* expires, and the straight-line code of a call runs to its end.          *)
(* Nothing is assumed of a client that computes; a cooperative one sooner  *)
(* or later yields.                                                        *)
(***************************************************************************)
LibraryStep == Tick \/ CallSchedule \/ JoinReturns
CoopYield == ~client.preempted /\ Yield

LiveSpec == Spec /\ WF_vars(LibraryStep) /\ WF_vars(CoopYield)

-----------------------------------------------------------------------------
TypeOK ==
  /\ scdUp \in BOOLEAN
  /\ threadNum \in 2..MaxThreads + 1
  /\ current \in Thread
  /\ runQ \in [Levels -> Seq(Thread)]
  /\ joinList \in Seq(Thread)
  /\ status \in [Thread -> Status]
  /\ priority \in [Thread -> Levels]
  /\ joinee \in [Thread -> Thread]
  /\ dead \subseteq Thread
  /\ exitArg \in [Thread -> Arg]
  /\ value \in [Thread -> Arg]
  /\ cycles \in 0..MaintCycles
  /\ armed \in BOOLEAN
  /\ pc \in [Thread -> PC]
  /\ halted \in BOOLEAN
  /\ client \in Clients

\* A node waits in the queue of its own priority, whatever mix of demotion,
\* yielding, waking and maintenance() put it there: schedule() takes both the
\* requeue level and the length of the quantum from node->priority.
LevelMatchesQueue ==
  \A l \in Levels : \A t \in ToSet(runQ[l]) : priority[t] = l

\* In a client whose main stays, or that is not preempted, schedule() and
\* maintenance() neither duplicate a node nor leave the running
\* one queued: the run queues hold distinct nodes, none of them current and
\* none of them also on the join list, and the join list ends.
NoNodeQueuedTwice ==
  /\ \A l \in Levels : IsInjective(runQ[l])
  /\ \A k, l \in Levels : k # l => ToSet(runQ[k]) \cap ToSet(runQ[l]) = {}
  /\ current \notin Ready
  /\ ToSet(joinList) \cap Ready = {}
  /\ IsInjective(joinList)

\* In a client whose main stays, no thread is dropped, by a cut joinList or
\* otherwise: whatever has been created and has not gone through
\* the EXITING branch holds the CPU, is queued, or waits for a join.
NoThreadLost ==
  \A t \in Created \ dead : t = current \/ t \in Ready \/ t \in ToSet(joinList)

\* After threadDied the thread is never handed the CPU again; it can only keep
\* it when nothing else was runnable, and then it is on its way out.
DeadNeverScheduled ==
  /\ dead \cap Ready = {}
  /\ current \in dead => pc[current] \in {"exitWin", "exitRet"}

\* The EXITING branch wakes every thread that waits for the dying one, however
\* many there are and wherever they are in the list.
DeathWakesAllJoiners ==
  [][\A u \in dead' \ dead : \A t \in ToSet(joinList) :
        joinee[t] = u => t \in Ready' \cup {current'}]_vars

\* Within a level threads run in the order in which they were queued, except
\* across maintenance(): a queue only loses its head, to the CPU, and grows at
\* its tail.
FifoWithinLevel ==
  [][cycles' # 0 => \A l \in Levels :
        \/ IsPrefix(runQ[l], runQ'[l])
        \/ /\ runQ[l] # <<>>
           /\ current' = Head(runQ[l])
           /\ IsPrefix(Tail(runQ[l]), runQ'[l])]_vars

\* my_pthread_join comes back from its wait only after the joined thread has
\* exited.
JoinWaitsForDeath ==
  \A t \in Thread : t = current /\ pc[t] = "joinBack" => joinee[t] \in dead

\* "put this thread on a waitlist until that thread dies" (my_pthread.c:839):
\* nobody waits for a thread that is already dead.
WaitersOfTheLiving ==
  \A t \in ToSet(joinList) : joinee[t] \notin dead

\* Demotion, strict priority and maintenance() together starve nobody among
\* threads that compute: once no thread yields any more, and as long as the
\* timer is not left off for good, every queued thread gets the CPU.
ReadyRuns ==
  client.preempted /\ []<>(armed \/ halted) /\ <>[](\A t \in Thread : pc[t] # "yieldWin")
    => \A t \in Thread : t \in Ready ~> (current = t \/ halted)

\* A thread that waits in my_pthread_join returns once the joined thread died.
JoinReturnsAfterDeath ==
  \A t \in Thread :
     (pc[t] = "joinBack" /\ joinee[t] \in dead) ~> (pc[t] # "joinBack" \/ halted)

=============================================================================
