------------------------ MODULE ContextSwitchProofs ------------------------
(***************************************************************************)
(* Proofs about the switching of contexts, for any number of threads.      *)
(***************************************************************************)
EXTENDS ContextSwitch, TLAPS

\* After initialize() main runs on its own stack and nobody waits.
LEMMA InitInv == Init => ContextInv
<1> SUFFICES ASSUME Init PROVE ContextInv
  OBVIOUS
<1> USE ContextSwitchAssumption DEF Init, UserFrame
<1>1. TypeOK
  BY DEF TypeOK, Context, Frame, PC
<1>2. Parked = {}
  BY DEF Parked
<1> QED
  BY <1>1, <1>2
  DEF ContextInv, ContextsKept, UserMaskOpen, ExecFollows, NestedLost, QueuesApart, TermStackFree, MasksSaved

\* schedule() up to the timer, whoever called it: the nodes that wait are among
\* those that waited and the one that ran, and nobody's context is touched.  In
\* an alarm before swapcontext the two threads of that call are given up.
LEMMA DispatchInv ==
  ASSUME ContextInv, ~Derailed, ~blocked,
         NEW rdy \in SUBSET Threads, NEW handler \in BOOLEAN, NEW to \in PC \ {"back"},
         Dispatch(rdy, handler, to),
         pc = "switch" <=> to = "switch",
         pc # "switch" => exec = StackOf(current, to),
         joining' \subseteq Threads, pending' \in BOOLEAN,
         rdy \cup joining' \subseteq ready \cup joining \cup {current}
  PROVE  ContextInv'
<1> USE DEF ContextInv
<1>1. CASE /\ ready' = rdy \ {current}
           /\ armed' = (rdy # {})
           /\ pc' = to
           /\ UNCHANGED <<current, frame, justRun, blocked, lost, fresh, saved, exec>>
  <2>1. TypeOK'
    BY <1>1 DEF TypeOK
  <2>2. Parked' \subseteq Parked
    <3>1. CASE to = "switch"
      <4>1. /\ Parked' = ((ready' \cup joining') \ {justRun}) \cup {current}
            /\ Parked = ((ready \cup joining) \ {justRun}) \cup {current}
        BY <1>1, <3>1 DEF Parked
      <4> QED
        BY <1>1, <4>1
    <3>2. CASE to # "switch"
      <4>1. /\ Parked' = (ready' \cup joining') \ {current}
            /\ Parked = (ready \cup joining) \ {current}
        BY <1>1, <3>2 DEF Parked
      <4> QED
        BY <1>1, <4>1
    <3> QED
      BY <3>1, <3>2
  <2>3. Derailed' = Derailed
    BY <1>1 DEF Derailed
  <2>4. ContextsKept' /\ MasksSaved' /\ TermStackFree'
    BY <1>1, <2>2, <2>3 DEF ContextsKept, MasksSaved, TermStackFree, StackOf
  <2>5. NestedLost'
    BY <1>1, <2>2 DEF NestedLost
  <2>6. ExecFollows'
    BY <1>1 DEF ExecFollows, StackOf
  <2>7. QueuesApart' /\ UserMaskOpen'
    BY <1>1 DEF QueuesApart, UserMaskOpen
  <2> QED
    BY <2>1, <2>4, <2>5, <2>6, <2>7
<1>2. ASSUME NEW u \in rdy \ {current},
             current' = u, ready' = rdy \ {u}, armed' = TRUE, pc' = "switch",
             frame' = [handler |-> handler, to |-> to],
             justRun' = current, blocked' = handler,
             lost' = IF pc = "switch" THEN lost \cup {current, justRun} ELSE lost,
             UNCHANGED <<fresh, saved, exec>>
      PROVE  ContextInv'
  <2>1. frame' \in Frame /\ frame'.handler = handler /\ frame'.to = to
    BY <1>2 DEF Frame
  <2>2. lost' \subseteq Threads /\ lost \subseteq lost' /\ justRun \in Threads
    BY <1>2 DEF TypeOK
  <2>3. TypeOK'
    BY <1>2, <2>1, <2>2 DEF TypeOK, PC
  <2>4. Parked' = ((ready' \cup joining') \ {current}) \cup {u}
    BY <1>2 DEF Parked
  <2>5. Parked' \ lost' \subseteq Parked \ lost
    <3>1. CASE pc = "switch"
      <4>1. /\ Parked = ((ready \cup joining) \ {justRun}) \cup {current}
            /\ lost' = lost \cup {current, justRun}
        BY <1>2, <3>1 DEF Parked
      <4> QED
        BY <1>2, <2>4, <4>1
    <3>2. CASE pc # "switch"
      <4>1. Parked = (ready \cup joining) \ {current} /\ lost' = lost
        BY <1>2, <3>2 DEF Parked
      <4> QED
        BY <1>2, <2>4, <4>1
    <3> QED
      BY <3>1, <3>2
  <2>6. ContextsKept' /\ MasksSaved' /\ TermStackFree'
    BY <1>2, <2>5 DEF ContextsKept, MasksSaved, TermStackFree, StackOf
  <2>7. current \notin lost' => pc # "switch" /\ to # "switch" /\ exec = StackOf(current, to)
    BY <1>2
  <2>8. NestedLost'
    BY <1>2, <2>1, <2>5, <2>7 DEF NestedLost
  <2>9. ExecFollows'
    BY <1>2, <2>1, <2>7 DEF ExecFollows, StackOf
  <2>10. QueuesApart' /\ UserMaskOpen'
    BY <1>2 DEF QueuesApart, UserMaskOpen
  <2> QED
    BY <2>3, <2>6, <2>8, <2>9, <2>10
<1> QED
  BY <1>1, <1>2 DEF Dispatch

\* swapcontext: the old thread is parked on the stack it was on, the new one
\* runs on the stack it was parked on.
LEMMA SwapcontextInv == ContextInv /\ Swapcontext => ContextInv'
<1> SUFFICES ASSUME ContextInv, Swapcontext PROVE ContextInv'
  OBVIOUS
<1> USE DEF ContextInv
<1> DEFINE ctx == [stack |-> exec, blocked |-> blocked, frame |-> frame]
<1>1. /\ pc = "switch" /\ pc' = "back"
      /\ saved' = [saved EXCEPT ![justRun] = ctx]
      /\ exec' = saved[current].stack
      /\ blocked' = saved[current].blocked
      /\ frame' = saved[current].frame
      /\ UNCHANGED <<current, ready, joining, fresh, justRun, armed, pending, lost>>
  BY DEF Swapcontext, Runs
<1>2. /\ ctx \in Context
      /\ ctx.stack = exec /\ ctx.blocked = blocked /\ ctx.frame = frame
  BY DEF TypeOK, Context
<1> HIDE DEF ctx
<1>3. /\ saved[current] \in Context
      /\ saved[current].stack \in Threads \cup {TermStack}
      /\ saved[current].blocked \in BOOLEAN
      /\ saved[current].frame \in Frame
      /\ saved[current].frame.to \in PC
      /\ justRun # current /\ justRun \in Threads
  BY <1>1 DEF TypeOK, Context, Frame, ExecFollows
<1>4. TypeOK'
  BY <1>1, <1>2, <1>3 DEF TypeOK, PC
<1>5. /\ Parked = ((ready \cup joining) \ {justRun}) \cup {current}
      /\ Parked' = (ready \cup joining) \ {current}
  BY <1>1 DEF Parked
<1>6. /\ saved'[justRun] = ctx
      /\ \A t \in Threads \ {justRun} : saved'[t] = saved[t]
      /\ Parked' \subseteq Threads
  BY <1>1, <1>3, <1>5 DEF TypeOK
<1>7. \A t \in Parked' \ lost' :
        t # justRun => t \in Parked \ lost /\ t # current /\ saved'[t] = saved[t]
  BY <1>1, <1>5, <1>6
<1>8. \A t \in Parked' \ lost' : saved'[t].stack = StackOf(t, saved'[t].frame.to)
  <2> SUFFICES ASSUME NEW t \in Parked' \ lost'
               PROVE  saved'[t].stack = StackOf(t, saved'[t].frame.to)
    OBVIOUS
  <2>1. CASE t = justRun
    BY <1>1, <1>2, <1>6, <2>1 DEF ExecFollows
  <2>2. CASE t # justRun
    BY <1>7, <2>2 DEF ContextsKept
  <2> QED
    BY <2>1, <2>2
<1>9. \A t, v \in Parked' \ lost' :
        saved'[t].stack = TermStack /\ saved'[v].stack = TermStack => t = v
  <2> SUFFICES ASSUME NEW t \in Parked' \ lost', NEW v \in Parked' \ lost',
                      saved'[t].stack = TermStack, saved'[v].stack = TermStack, t # v
               PROVE  FALSE
    OBVIOUS
  <2>1. CASE t # justRun /\ v # justRun
    BY <1>7, <2>1 DEF ContextsKept
  <2>2. CASE t = justRun
    BY <1>1, <1>2, <1>6, <1>7, <2>2 DEF TermStackFree, Derailed
  <2>3. CASE v = justRun
    BY <1>1, <1>2, <1>6, <1>7, <2>3 DEF TermStackFree, Derailed
  <2> QED
    BY <2>1, <2>2, <2>3
<1>10. MasksSaved'
  <2> SUFFICES ASSUME NEW t \in Threads PROVE saved'[t].blocked = saved'[t].frame.handler
    BY DEF MasksSaved
  <2>1. CASE t = justRun
    BY <1>1, <1>2, <1>6, <2>1 DEF ExecFollows
  <2>2. CASE t # justRun
    BY <1>6, <2>2 DEF MasksSaved
  <2> QED
    BY <2>1, <2>2
<1>11. TermStackFree'
  <2> SUFFICES ASSUME saved[current].stack = TermStack, current \notin lost,
                      NEW t \in Parked' \ lost'
               PROVE  saved'[t].stack # TermStack
    BY <1>1 DEF TermStackFree, Derailed
  <2>1. CASE t = justRun
    BY <1>1, <1>2, <1>5, <1>6, <2>1 DEF TermStackFree, Derailed
  <2>2. CASE t # justRun
    BY <1>5, <1>7, <2>2 DEF ContextsKept
  <2> QED
    BY <2>1, <2>2
<1>12. ExecFollows'
  BY <1>1, <1>3, <1>5 DEF ExecFollows, ContextsKept, MasksSaved, TypeOK
<1>13. NestedLost'
  <2>1. ASSUME NEW t \in Parked' \ lost' PROVE saved'[t].frame.to # "switch"
    <3>1. CASE t = justRun
      BY <1>1, <1>2, <1>6, <3>1 DEF NestedLost
    <3>2. CASE t # justRun
      BY <1>7, <3>2 DEF NestedLost
    <3> QED
      BY <3>1, <3>2
  <2> QED
    BY <1>1, <1>5, <2>1 DEF NestedLost
<1> QED
  BY <1>1, <1>4, <1>8, <1>9, <1>10, <1>11, <1>12, <1>13 DEF ContextsKept, UserMaskOpen, QueuesApart

\* A step that changes no more than the timer keeps the invariant.
LEMMA TimerInv ==
  ASSUME ContextInv,
         UNCHANGED <<current, ready, joining, fresh, saved, exec, pc, frame, justRun, blocked, lost>>,
         armed' \in BOOLEAN, pending' \in BOOLEAN
  PROVE  ContextInv'
<1>1. TypeOK'
  BY DEF ContextInv, TypeOK
<1>2. Parked' = Parked /\ Derailed' = Derailed
  BY DEF Parked, Derailed
<1> QED
  BY <1>1, <1>2
  DEF ContextInv, ContextsKept, UserMaskOpen, ExecFollows, NestedLost, QueuesApart, TermStackFree, MasksSaved

\* The end of schedule(): the alarm is let in again and the thread goes on.
LEMMA ReturnInv == ContextInv /\ ReturnFromSchedule => ContextInv'
<1> SUFFICES ASSUME ContextInv, ReturnFromSchedule PROVE ContextInv'
  OBVIOUS
<1> USE DEF ContextInv
<1>1. /\ pc = "back" /\ pc' = frame.to /\ current \notin lost
      /\ blocked' = (blocked /\ ~frame.handler)
      /\ UNCHANGED <<current, ready, joining, fresh, saved, exec, frame, justRun,
                     armed, pending, lost>>
  BY DEF ReturnFromSchedule, Runs, Derailed
<1>2. /\ frame.to \in {"user", "ending", "exited"}
      /\ blocked = frame.handler /\ frame.handler \in BOOLEAN
      /\ exec = StackOf(current, frame.to)
  BY <1>1 DEF ExecFollows, NestedLost, TypeOK, Frame, PC
<1>3. blocked' = FALSE
  BY <1>1, <1>2
<1>4. Parked' = Parked /\ Derailed' = Derailed
  BY <1>1, <1>2 DEF Parked, Derailed
<1>5. TypeOK'
  BY <1>1, <1>2, <1>3 DEF TypeOK, PC
<1>6. ContextsKept' /\ MasksSaved' /\ TermStackFree' /\ QueuesApart' /\ NestedLost'
  BY <1>1, <1>2, <1>4 DEF ContextsKept, MasksSaved, TermStackFree, QueuesApart, NestedLost, StackOf
<1>7. ExecFollows' /\ UserMaskOpen'
  BY <1>1, <1>2, <1>3 DEF ExecFollows, UserMaskOpen, StackOf
<1> QED
  BY <1>5, <1>6, <1>7

\* my_pthread_create: the new context is added to the ready threads.
LEMMA CreateInv == ASSUME ContextInv, NEW t \in Threads, Create(t) PROVE ContextInv'
<1> USE DEF ContextInv
<1> DEFINE ctx == [stack |-> t, blocked |-> blocked, frame |-> UserFrame]
<1>1. /\ pc = "user" /\ t \in fresh /\ t # current /\ ~blocked /\ t \notin lost
      /\ saved' = [saved EXCEPT ![t] = ctx]
      /\ fresh' = fresh \ {t}
      /\ ready' = ready \cup {t}
      /\ armed' = FALSE
      /\ UNCHANGED <<current, joining, exec, pc, frame, justRun, blocked, pending, lost>>
  BY DEF Create, Runs, QueuesApart, UserMaskOpen
<1>2. /\ ctx \in Context
      /\ ctx.stack = t /\ ctx.blocked = blocked
      /\ ctx.frame.to = "user" /\ ctx.frame.handler = FALSE
  BY DEF TypeOK, Context, Frame, UserFrame, PC
<1> HIDE DEF ctx
<1>3. TypeOK'
  BY <1>1, <1>2 DEF TypeOK
<1>4. /\ Parked = (ready \cup joining) \ {current}
      /\ Parked' = Parked \cup {t}
      /\ t \notin Parked
      /\ saved'[t] = ctx
      /\ \A u \in Parked : saved'[u] = saved[u]
  BY <1>1 DEF Parked, QueuesApart, TypeOK
<1>5. ContextsKept'
  BY <1>1, <1>2, <1>4, ContextSwitchAssumption DEF ContextsKept, StackOf
<1>6. MasksSaved'
  BY <1>1, <1>2, <1>4 DEF MasksSaved, TypeOK
<1>7. TermStackFree' /\ NestedLost'
  BY <1>1, <1>2, <1>4, ContextSwitchAssumption DEF TermStackFree, Derailed, NestedLost
<1>8. QueuesApart' /\ ExecFollows' /\ UserMaskOpen'
  BY <1>1 DEF QueuesApart, ExecFollows, UserMaskOpen
<1> QED
  BY <1>3, <1>5, <1>6, <1>7, <1>8

\* A thread function that returns continues on the termination stack.
LEMMA FunctionReturnsInv == ContextInv /\ FunctionReturns => ContextInv'
<1> SUFFICES ASSUME ContextInv, FunctionReturns PROVE ContextInv'
  OBVIOUS
<1> USE DEF ContextInv
<1> DEFINE hit == {t \in (ready \cup joining) \ {current} : saved[t].stack = TermStack}
<1>1. /\ pc = "user" /\ pc' = "ending" /\ exec' = TermStack /\ blocked' = FALSE
      /\ lost' = lost \cup hit /\ current \notin lost
      /\ UNCHANGED <<current, ready, joining, fresh, saved, frame, justRun, armed, pending>>
  BY DEF FunctionReturns, Runs, Derailed
<1>2. Parked = (ready \cup joining) \ {current} /\ Parked' = Parked
  BY <1>1 DEF Parked
<1>3. \A t \in Parked' \ lost' : t \in Parked \ lost /\ saved[t].stack # TermStack
  BY <1>1, <1>2
<1>4. hit \subseteq ready \cup joining
  OBVIOUS
<1> HIDE DEF hit
<1>5. TypeOK'
  BY <1>1, <1>4 DEF TypeOK, PC
<1>6. ContextsKept' /\ TermStackFree' /\ NestedLost' /\ MasksSaved'
  BY <1>1, <1>3 DEF ContextsKept, TermStackFree, NestedLost, MasksSaved, StackOf
<1>7. QueuesApart' /\ ExecFollows' /\ UserMaskOpen'
  BY <1>1, <1>4 DEF QueuesApart, ExecFollows, UserMaskOpen
<1> QED
  BY <1>5, <1>6, <1>7

\* Every step of the library, of a thread and of the timer keeps ContextInv.
LEMMA StepInv == ContextInv /\ [Next]_vars => ContextInv'
<1> SUFFICES ASSUME ContextInv, [Next]_vars PROVE ContextInv'
  OBVIOUS
<1>0. /\ current \in Threads /\ ready \subseteq Threads /\ joining \subseteq Threads
      /\ armed \in BOOLEAN /\ pending \in BOOLEAN /\ pc \in PC
  BY DEF ContextInv, TypeOK
<1>1. /\ pc = "user" => exec = StackOf(current, "user") /\ ~blocked
      /\ pc = "ending" => /\ exec = StackOf(current, "ending") /\ ~blocked
                         /\ exec = StackOf(current, "exited")
      /\ pc = "back" /\ current \notin lost =>
           exec = StackOf(current, frame.to) /\ frame.to \in PC \ {"back", "switch"}
  BY DEF ContextInv, ExecFollows, NestedLost, UserMaskOpen, StackOf, TypeOK, Frame
<1>2. ASSUME NEW t \in Threads, Create(t) PROVE ContextInv'
  BY <1>2, CreateInv
<1>3. CASE Yield
  <2>1. /\ pc = "user" /\ ~Derailed /\ Dispatch(ready \cup {current}, FALSE, "user")
        /\ joining' = joining /\ pending' = pending
    BY <1>3 DEF Yield, Requeues, Runs
  <2> DEFINE rdy == ready \cup {current}
  <2>2. /\ rdy \in SUBSET Threads
        /\ rdy \cup joining' \subseteq ready \cup joining \cup {current}
    BY <2>1, <1>0, <1>1
  <2> HIDE DEF rdy
  <2>3. Dispatch(rdy, FALSE, "user")
    BY <2>1 DEF rdy
  <2>4. pc # "switch" /\ ~blocked /\ exec = StackOf(current, "user") /\ "user" \in PC \ {"back"}
    BY <2>1, <1>1 DEF PC
  <2> QED
    BY <2>1, <2>2, <2>3, <2>4, <1>0, DispatchInv
<1>4. CASE Join
  <2>1. /\ pc = "user" /\ ~Derailed /\ Dispatch(ready, FALSE, "user") /\ "user" \in PC \ {"back"}
        /\ joining' = joining \cup {current} /\ pending' = pending
    BY <1>4 DEF Join, Waits, Runs, PC
  <2> QED
    BY <2>1, <1>0, <1>1, DispatchInv
<1>5. ASSUME NEW woken \in SUBSET joining, NEW handler \in BOOLEAN, NEW to \in PC \ {"back", "switch"},
             pc # "switch", ~Derailed, ~blocked, exec = StackOf(current, to), pending' \in BOOLEAN,
             Dies(woken, handler, to)
      PROVE  ContextInv'
  <2>1. /\ Dispatch(ready \cup woken, handler, to)
        /\ joining' = joining \ woken
    BY <1>5 DEF Dies
  <2> DEFINE rdy == ready \cup woken
  <2>3. /\ rdy \in SUBSET Threads
        /\ rdy \cup joining' \subseteq ready \cup joining \cup {current}
        /\ joining' \subseteq Threads
    BY <2>1, <1>0, <1>1
  <2> HIDE DEF rdy
  <2>4. Dispatch(rdy, handler, to)
    BY <2>1 DEF rdy
  <2> QED
    BY <2>1, <2>3, <2>4, <1>0, <1>5, DispatchInv
<1>6. ASSUME NEW woken \in SUBSET joining, Exit(woken) PROVE ContextInv'
  BY <1>6, <1>0, <1>1, <1>5 DEF Exit, Runs, PC
<1>7. ASSUME NEW woken \in SUBSET joining, Terminate(woken) PROVE ContextInv'
  BY <1>7, <1>0, <1>1, <1>5 DEF Terminate, Runs, PC
<1>8. CASE FunctionReturns
  BY <1>8, FunctionReturnsInv
<1>9. CASE Swapcontext
  BY <1>9, SwapcontextInv
<1>10. CASE ReturnFromSchedule
  BY <1>10, ReturnInv
<1>11. CASE Alarm
  <2> DEFINE to == IF pc = "back" THEN frame.to ELSE pc
  <2>1. /\ \/ Requeues(TRUE, to)
           \/ Waits(TRUE, to)
           \/ \E woken \in SUBSET joining : pc # "switch" /\ Dies(woken, TRUE, to)
        /\ pending' = FALSE
        /\ ~Derailed /\ ~blocked /\ pc # "exited"
    BY <1>11 DEF Alarm
  <2>2. /\ to \in PC \ {"back"}
        /\ pc = "switch" <=> to = "switch"
        /\ pc # "switch" => exec = StackOf(current, to)
    BY <2>1, <1>0, <1>1 DEF PC, Derailed
  <2> DEFINE rdy == ready \cup {current}
  <2> HIDE DEF rdy, to
  <2>3. CASE Requeues(TRUE, to)
    <3>1. Dispatch(rdy, TRUE, to) /\ joining' = joining
      BY <2>3 DEF rdy, Requeues
    <3>2. /\ rdy \in SUBSET Threads
          /\ rdy \cup joining' \subseteq ready \cup joining \cup {current}
      BY <3>1, <1>0, <1>1 DEF rdy
    <3> QED
      BY <2>1, <2>2, <3>1, <3>2, <1>0, DispatchInv
  <2>4. CASE Waits(TRUE, to)
    <3>1. Dispatch(ready, TRUE, to) /\ joining' = joining \cup {current}
      BY <2>4 DEF Waits
    <3> QED
      BY <2>1, <2>2, <3>1, <1>0, <1>1, DispatchInv
  <2>5. ASSUME NEW woken \in SUBSET joining, pc # "switch", Dies(woken, TRUE, to) PROVE ContextInv'
    BY <2>1, <2>2, <2>5, <1>5
  <2> QED
    BY <2>1, <2>3, <2>4, <2>5
<1>12. CASE Expires
  BY <1>12, <1>0, TimerInv DEF Expires
<1>13. CASE UNCHANGED vars
  BY <1>13, <1>0, TimerInv DEF vars
<1> QED
  BY <1>2, <1>3, <1>4, <1>6, <1>7, <1>8, <1>9, <1>10, <1>11, <1>12, <1>13 DEF Next

\* Wherever alarms come and however threads end: the CPU is on the stack of
\* scd->current, every waiting thread's context is where it will be looked for,
\* unless one of the two destructive steps has hit it, and no thread runs its
\* own code with the alarm blocked.
THEOREM SwitchingIsSound == Spec => [](CurrentRuns /\ ContextsKept /\ UserMaskOpen)
<1>1. Init => ContextInv
  BY InitInv
<1>2. ContextInv /\ [Next]_vars => ContextInv'
  BY StepInv
<1>3. ContextInv => CurrentRuns /\ ContextsKept /\ UserMaskOpen
  BY DEF ContextInv, ExecFollows, CurrentRuns
<1> QED
  BY <1>1, <1>2, <1>3, PTL DEF Spec
=============================================================================
