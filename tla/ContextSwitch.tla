--------------------------- MODULE ContextSwitch ---------------------------
(***************************************************************************)
(* How the CPU goes from one thread to the next in my_pthread.c: the       *)
(* contexts in node->ut, the swapcontext at the end of schedule(), the     *)
(* signal mask, and the stack that all threads share when their function   *)
(* has returned.  Which node comes next is the business of Scheduler; here *)
(* it is any node of the run queues.                                       *)
(*                                                                         *)
(* schedule() starts the timer before it calls swapcontext.  An alarm in   *)
(* between enters schedule() a second time on the same stack, unless the   *)
(* first call came from timerHandler, when SIGALRM is blocked.  A thread   *)
(* that is in schedule() is described by its frame: whether schedule() was *)
(* called by timerHandler, and where the thread goes on afterwards.        *)
(*                                                                         *)
(* Two steps destroy contexts: such a second call that picks another       *)
(* thread, and a function that returns onto the termination stack while a  *)
(* thread waits there.  The model takes them, and notes the threads hit;   *)
(* it follows the program until one of them is given the CPU.              *)
(*                                                                         *)
(* getcontext, makecontext, swapcontext and the delivery of signals are    *)
(* those of the C library and the kernel.                                  *)
(***************************************************************************)
EXTENDS Naturals

CONSTANTS
  Threads,
  Main,        \* the thread that called initialize()
  TermStack    \* the stack of scd->termHandler

ASSUME ContextSwitchAssumption == Main \in Threads /\ TermStack \notin Threads

(***************************************************************************)
(* "user": the code of the thread; "ending": in terminationHandler, before *)
(* it calls schedule(); "switch": in schedule(), scd->current set and the  *)
(* timer started, swapcontext still to come; "back": swapcontext has       *)
(* returned; "exited": terminationHandler has returned, and the process is *)
(* over.                                                                   *)
(***************************************************************************)
PC == {"user", "ending", "switch", "back", "exited"}

Frame == [handler : BOOLEAN, to : PC \ {"back"}]
Context == [stack : Threads \cup {TermStack}, blocked : BOOLEAN, frame : Frame]

VARIABLES
  current,   \* scd->current
  ready,     \* the nodes in the run queues
  joining,   \* the nodes on joinList
  fresh,     \* the threads that are not created yet
  saved,     \* node->ut
  exec,      \* the stack the CPU is on
  pc,
  frame,     \* the call of schedule() under way
  justRun,   \* its variable of this name
  blocked,   \* SIGALRM is blocked
  armed,     \* the timer is running
  pending,   \* an alarm waits for the mask to open
  lost       \* history: the threads whose context is not, or will not be, in ut

vars == <<current, ready, joining, fresh, saved, exec, pc, frame, justRun, blocked,
          armed, pending, lost>>

UserFrame == [handler |-> FALSE, to |-> "user"]

\* initialize()
Init ==
  /\ current = Main
  /\ ready = {}
  /\ joining = {}
  /\ fresh = Threads \ {Main}
  /\ saved = [t \in Threads |-> [stack |-> t, blocked |-> FALSE, frame |-> UserFrame]]
  /\ exec = Main
  /\ pc = "user"
  /\ frame = UserFrame
  /\ justRun = Main
  /\ blocked = FALSE
  /\ armed = TRUE
  /\ pending = FALSE
  /\ lost = {}

\* A thread that is not on the stack of its last call would run.
Derailed == current \in lost /\ pc # "switch"

\* The program takes a step of its own: no alarm is about to be delivered.
Runs(where) == ~Derailed /\ pc = where /\ ~(pending /\ ~blocked)

-----------------------------------------------------------------------------
(* schedule()                                                              *)

\* From the requeueing of the old node, which leaves the nodes rdy in the run
\* queues, to the start of the timer.  If there is none, or the same thread is
\* taken out again, schedule() returns, and timerHandler with it; in the first
\* case the timer has been stopped.  In an alarm before swapcontext the current
\* thread has not run yet: if another is taken out, swapcontext will save the
\* stack of justRun in the current thread's node, and in that of justRun nothing.
Dispatch(rdy, handler, to) ==
  /\ \/ /\ rdy = {} \/ current \in rdy
        /\ ready' = rdy \ {current}
        /\ armed' = (rdy # {})
        /\ pc' = to
        /\ UNCHANGED <<current, frame, justRun, blocked, lost>>
     \/ \E u \in rdy \ {current} :
          /\ current' = u
          /\ ready' = rdy \ {u}
          /\ armed' = TRUE
          /\ pc' = "switch"
          /\ frame' = [handler |-> handler, to |-> to]
          /\ justRun' = current
          /\ blocked' = handler
          /\ lost' = IF pc = "switch" THEN lost \cup {current, justRun} ELSE lost
  /\ UNCHANGED <<fresh, saved, exec>>

\* Mutant: the context is saved in the node that comes.
Swapcontext_SavesInNext ==
  /\ Runs("switch")
  /\ saved' = [saved EXCEPT ![current] =
                 [stack |-> exec, blocked |-> blocked, frame |-> frame]]
  /\ exec' = saved[current].stack
  /\ blocked' = saved[current].blocked
  /\ frame' = saved[current].frame
  /\ pc' = "back"
  /\ UNCHANGED <<current, ready, joining, fresh, justRun, armed, pending, lost>>

\* swapcontext(justRun->ut, scd->current->ut), which also swaps the masks.
Swapcontext ==
  /\ Runs("switch")
  /\ saved' = [saved EXCEPT ![justRun] =
                 [stack |-> exec, blocked |-> blocked, frame |-> frame]]
  /\ exec' = saved[current].stack
  /\ blocked' = saved[current].blocked
  /\ frame' = saved[current].frame
  /\ pc' = "back"
  /\ UNCHANGED <<current, ready, joining, fresh, justRun, armed, pending, lost>>

\* Mutant: the end of timerHandler does not open the mask.
ReturnFromSchedule_StaysBlocked ==
  /\ Runs("back")
  /\ pc' = frame.to
  /\ UNCHANGED <<current, ready, joining, fresh, saved, exec, frame, justRun,
                 blocked, armed, pending, lost>>

\* schedule() returns, and so does timerHandler if it was the caller: the
\* kernel then opens the mask again.
ReturnFromSchedule ==
  /\ Runs("back")
  /\ pc' = frame.to
  /\ blocked' = (blocked /\ ~frame.handler)
  /\ UNCHANGED <<current, ready, joining, fresh, saved, exec, frame, justRun,
                 armed, pending, lost>>

(***************************************************************************)
(* The branches of schedule() on the status of the node that ran.          *)
(***************************************************************************)

\* YIELDING, and a thread out of time.
Requeues(handler, to) ==
  /\ Dispatch(ready \cup {current}, handler, to)
  /\ UNCHANGED joining

\* JOINING
Waits(handler, to) ==
  /\ joining' = joining \cup {current}
  /\ Dispatch(ready, handler, to)

\* EXITING; woken are the nodes that waited for the thread.
Dies(woken, handler, to) ==
  /\ joining' = joining \ woken
  /\ Dispatch(ready \cup woken, handler, to)

-----------------------------------------------------------------------------
(* The library calls.                                                      *)

\* getcontext copies the mask of the creator.  The timer is left off.
Create(t) ==
  /\ Runs("user")
  /\ t \in fresh
  /\ saved' = [saved EXCEPT ![t] = [stack |-> t, blocked |-> blocked, frame |-> UserFrame]]
  /\ fresh' = fresh \ {t}
  /\ ready' = ready \cup {t}
  /\ armed' = FALSE
  /\ UNCHANGED <<current, joining, exec, pc, frame, justRun, blocked, pending, lost>>

Yield ==
  /\ Runs("user")
  /\ Requeues(FALSE, "user")
  /\ UNCHANGED pending

Join ==
  /\ Runs("user")
  /\ Waits(FALSE, "user")
  /\ UNCHANGED pending

Exit(woken) ==
  /\ Runs("user")
  /\ Dies(woken, FALSE, "user")
  /\ UNCHANGED pending

\* The thread's function returns: uc_link, the stack of the termination handler
\* from its top.  The contexts of threads that wait on it are overwritten.
FunctionReturns ==
  /\ Runs("user")
  /\ current # Main
  /\ exec' = TermStack
  /\ pc' = "ending"
  /\ blocked' = FALSE
  /\ lost' = lost \cup {t \in (ready \cup joining) \ {current} : saved[t].stack = TermStack}
  /\ UNCHANGED <<current, ready, joining, fresh, saved, frame, justRun, armed, pending>>

\* terminationHandler, which has no uc_link.
Terminate(woken) ==
  /\ Runs("ending")
  /\ Dies(woken, FALSE, "exited")
  /\ UNCHANGED pending

-----------------------------------------------------------------------------
(* The timer.  It goes off once; schedule() starts it again.               *)

Expires ==
  /\ ~Derailed
  /\ armed
  /\ armed' = FALSE
  /\ pending' = TRUE
  /\ UNCHANGED <<current, ready, joining, fresh, saved, exec, pc, frame, justRun,
                 blocked, lost>>

\* Mutant: the interrupted thread always goes on in its own code.
Alarm_ForgetsWhere ==
  /\ ~Derailed
  /\ pending /\ ~blocked /\ pc # "exited"
  /\ pending' = FALSE
  /\ Requeues(TRUE, "user")

\* timerHandler: outside schedule(), at its very end, or before its swapcontext.
\* The status may be one that a call has set but not acted on yet, or JOINING
\* from a join that is over; that of a node just taken out is not EXITING.
Alarm ==
  /\ ~Derailed
  /\ pending /\ ~blocked /\ pc # "exited"
  /\ pending' = FALSE
  /\ LET to == IF pc = "back" THEN frame.to ELSE pc
     IN  \/ Requeues(TRUE, to)
         \/ Waits(TRUE, to)
         \/ \E woken \in SUBSET joining : pc # "switch" /\ Dies(woken, TRUE, to)

Next ==
  \/ \E t \in Threads : Create(t)
  \/ Yield
  \/ Join
  \/ \E woken \in SUBSET joining : Exit(woken)
  \/ FunctionReturns
  \/ \E woken \in SUBSET joining : Terminate(woken)
  \/ Swapcontext
  \/ ReturnFromSchedule
  \/ Expires
  \/ Alarm

Spec == Init /\ [][Next]_vars

-----------------------------------------------------------------------------
TypeOK ==
  /\ current \in Threads
  /\ ready \subseteq Threads
  /\ joining \subseteq Threads
  /\ fresh \subseteq Threads
  /\ saved \in [Threads -> Context]
  /\ exec \in Threads \cup {TermStack}
  /\ pc \in PC
  /\ frame \in Frame
  /\ justRun \in Threads
  /\ blocked \in BOOLEAN /\ armed \in BOOLEAN /\ pending \in BOOLEAN
  /\ lost \subseteq Threads

\* The stack a thread is on, by where it goes on.
StackOf(t, to) == IF to = "user" THEN t ELSE TermStack

\* The thread whose code the CPU executes, or goes back to from schedule(), is
\* the one scd->current names, which every library call takes for its caller;
\* unless its context was destroyed before it was given the CPU.
CurrentRuns ==
  current \notin lost =>
    /\ pc = "user" => exec = current
    /\ pc = "back" => exec = StackOf(current, frame.to)

\* The nodes whose context is in ut: all that wait, but for the one whose
\* swapcontext is still to come; and the one that swapcontext will resume.
Parked ==
  IF pc = "switch" THEN ((ready \cup joining) \ {justRun}) \cup {current}
                   ELSE (ready \cup joining) \ {current}

\* Wherever the alarm comes, a thread that waits finds its own stack again when
\* its turn comes, and of the threads that wait at most one does so in
\* terminationHandler, whose stack they share; but for the threads that an alarm
\* between setitimer and swapcontext, or the return of another thread's function
\* while they were in terminationHandler, has hit.
ContextsKept ==
  /\ \A t \in Parked \ lost : saved[t].stack = StackOf(t, saved[t].frame.to)
  /\ \A t, u \in Parked \ lost :
       saved[t].stack = TermStack /\ saved[u].stack = TermStack => t = u

\* A thread that was switched to out of the alarm handler does not keep the mask
\* of the handler: SIGALRM is open wherever a thread runs its own code, so the
\* CPU can always be taken from it.
UserMaskOpen == pc \in {"user", "ending"} => ~blocked

(***************************************************************************)
(* What makes these invariants inductive: the CPU is on the stack that the *)
(* frame says, the mask is that of the frame, and who runs does not wait.  *)
(***************************************************************************)
ExecFollows ==
  /\ pc = "user" => exec = current
  /\ pc = "ending" => exec = TermStack
  /\ pc = "back" => /\ current \notin lost => exec = StackOf(current, frame.to)
                    /\ blocked = frame.handler
  /\ pc = "switch" => /\ justRun \notin lost => exec = StackOf(justRun, frame.to)
                      /\ blocked = frame.handler
                      /\ justRun # current

\* Only the frame of an alarm before swapcontext leads back there.
NestedLost ==
  /\ \A t \in Parked \ lost : saved[t].frame.to # "switch"
  /\ pc = "back" /\ current \notin lost => frame.to # "switch"
  /\ pc = "switch" /\ justRun \notin lost => frame.to # "switch"

QueuesApart ==
  /\ current \notin ready
  /\ fresh \cap (ready \cup joining \cup lost \cup {current, justRun}) = {}

TermStackFree ==
  exec = TermStack /\ ~Derailed => \A t \in Parked \ lost : saved[t].stack # TermStack

MasksSaved == \A t \in Threads : saved[t].blocked = saved[t].frame.handler

\* All of it together: at every step of a switch, stack, mask, queues and saved
\* contexts of schedule() agree about who runs and who waits.
ContextInv ==
  /\ TypeOK
  /\ ContextsKept
  /\ UserMaskOpen
  /\ ExecFollows
  /\ NestedLost
  /\ QueuesApart
  /\ TermStackFree
  /\ MasksSaved
=============================================================================
