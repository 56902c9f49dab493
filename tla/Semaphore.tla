------------------------------ MODULE Semaphore ------------------------------
(***************************************************************************)
(* The semaphore that both drivers' handlers give and their tasks wait     *)
(* for, as FreeRTOS implements it: a queue of one empty item (queue.c) and *)
(* the part of the scheduler its functions use (tasks.c, port.c).          *)
(*                                                                         *)
(* One processor: a task's instructions are of the task that is running,   *)
(* and between any two of them, unless they are masked, interrupts may     *)
(* give the semaphore, end a wait or switch to another task.  Any ready    *)
(* task may be switched to, which covers all assignments of priorities;    *)
(* likewise any waiting task may be the first of the event list.           *)
(*                                                                         *)
(* Masks tells whether BASEPRI, set to configMAX_SYSCALL_INTERRUPT_PRIORITY*)
(* in a critical section, keeps these interrupts out.  If not, handlers run*)
(* between the lines of prvUnlockQueue's section; the other critical       *)
(* sections are single steps either way.  xRxLock is left out: no handler  *)
(* takes.                                                                  *)
(***************************************************************************)
EXTENDS Integers

CONSTANTS Tasks, NoTask, Masks

ASSUME SemaphoreTasks == NoTask \notin Tasks
ASSUME SemaphoreMasks == Masks \in BOOLEAN

queueUNLOCKED == -1
queueLOCKED_UNMODIFIED == 0

VARIABLES
  uxMessagesWaiting, xTxLock,
  waiting,    \* xTasksWaitingToReceive
  ready,      \* tasks in a ready list
  pending,    \* xPendingReadyList
  suspended,  \* uxSchedulerSuspended # 0
  running,    \* pxCurrentTCB; NoTask is the idle task
  pc,         \* per task: the next step of xQueueGenericReceive
  after,      \* per task: what it does after prvUnlockQueue
  expired     \* tasks that have waited xTicksToWait
queue == <<uxMessagesWaiting, xTxLock, waiting>>
scheduler == <<ready, pending, suspended, running>>
control == <<pc, after, expired>>
vars == <<queue, scheduler, control>>

Locations == {"idle", "check", "suspend", "lock", "timeout", "empty", "place",
              "unlock", "loop", "store", "resume"}

\* Between the lines of the critical section of prvUnlockQueue.
Critical == {"loop", "store"}

TypeOK ==
  /\ uxMessagesWaiting \in 0..1
  /\ xTxLock \in queueUNLOCKED..1
  /\ waiting \subseteq Tasks
  /\ ready \subseteq Tasks
  /\ pending \subseteq Tasks
  /\ suspended \in BOOLEAN
  /\ running \in Tasks \cup {NoTask}
  /\ pc \in [Tasks -> Locations]
  /\ after \in [Tasks -> {"block", "retry", "fail"}]
  /\ expired \subseteq Tasks

\* xSemaphoreCreateBinary() makes an empty queue.
Init ==
  /\ uxMessagesWaiting = 0
  /\ xTxLock = queueUNLOCKED
  /\ waiting = {}
  /\ ready = Tasks
  /\ pending = {}
  /\ suspended = FALSE
  /\ running = NoTask
  /\ pc = [t \in Tasks |-> "idle"]
  /\ after = [t \in Tasks |-> "retry"]
  /\ expired = {}

-----------------------------------------------------------------------------
(* The scheduler and the interrupts *)

MayInterrupt == running \in Tasks /\ Masks => pc[running] \notin Critical

\* pendsv_isr_handler, which a tick, a handler or a task has asked for
Dispatch(t) ==
  /\ MayInterrupt
  /\ ~suspended
  /\ t \in ready \/ (t = NoTask /\ ready = {})
  /\ running' = t
  /\ UNCHANGED <<queue, ready, pending, suspended, control>>

\* xTaskRemoveFromEventList
RemoveFromEventList(t) ==
  /\ t \in waiting
  /\ waiting' = waiting \ {t}
  /\ IF suspended
     THEN pending' = pending \cup {t} /\ UNCHANGED ready
     ELSE ready' = ready \cup {t} /\ UNCHANGED pending

WakeOne ==
  \/ \E t \in waiting : RemoveFromEventList(t)
  \/ waiting = {} /\ UNCHANGED <<waiting, ready, pending>>

\* Mutant: gives add up.
GiveAddsUp ==
  /\ MayInterrupt
  /\ uxMessagesWaiting' = uxMessagesWaiting + 1
  /\ IF xTxLock = queueUNLOCKED
     THEN WakeOne /\ UNCHANGED xTxLock
     ELSE xTxLock' = xTxLock + 1 /\ UNCHANGED <<waiting, ready, pending>>
  /\ UNCHANGED <<suspended, running, control>>

\* xSemaphoreGiveFromISR; a give to a full queue is refused and changes nothing.
Give ==
  /\ MayInterrupt
  /\ uxMessagesWaiting = 0
  /\ uxMessagesWaiting' = 1
  /\ IF xTxLock = queueUNLOCKED
     THEN WakeOne /\ UNCHANGED xTxLock
     ELSE xTxLock' = xTxLock + 1 /\ UNCHANGED <<waiting, ready, pending>>
  /\ UNCHANGED <<suspended, running, control>>

\* xTaskIncrementTick: the time of a task is over.  While the scheduler is suspended
\* ticks are counted, and take effect in xTaskResumeAll.
Expire(t) ==
  /\ MayInterrupt
  /\ ~suspended
  /\ pc[t] # "idle"
  /\ expired' = expired \cup {t}
  /\ waiting' = waiting \ {t}
  /\ ready' = ready \cup {t}
  /\ UNCHANGED <<uxMessagesWaiting, xTxLock, pending, suspended, running, pc, after>>

-----------------------------------------------------------------------------
(* The tasks *)

\* A task that is in no ready list runs only until the scheduler is resumed.
Runs(t) == running = t /\ (t \in ready \/ suspended)

Goto(t, label) == pc' = [pc EXCEPT ![t] = label]

\* xSemaphoreTake
Call(t) ==
  /\ Runs(t)
  /\ pc[t] = "idle"
  /\ Goto(t, "check")
  /\ UNCHANGED <<queue, scheduler, after, expired>>

\* xQueueReset
Reset(t) ==
  /\ Runs(t)
  /\ pc[t] = "idle"
  /\ uxMessagesWaiting' = 0
  /\ xTxLock' = queueUNLOCKED
  /\ UNCHANGED <<waiting, scheduler, control>>

Leave(t) ==
  /\ Goto(t, "idle")
  /\ expired' = expired \ {t}

Receive(t) ==
  /\ Runs(t)
  /\ pc[t] = "check"
  /\ uxMessagesWaiting > 0
  /\ uxMessagesWaiting' = uxMessagesWaiting - 1
  /\ Leave(t)
  /\ UNCHANGED <<xTxLock, waiting, scheduler, after>>

CheckFails(t) ==
  /\ Runs(t)
  /\ pc[t] = "check"
  /\ uxMessagesWaiting = 0
  /\ Goto(t, "suspend")
  /\ UNCHANGED <<queue, scheduler, after, expired>>

\* vTaskSuspendAll
SuspendAll(t) ==
  /\ Runs(t)
  /\ pc[t] = "suspend"
  /\ suspended' = TRUE
  /\ Goto(t, "lock")
  /\ UNCHANGED <<queue, ready, pending, running, after, expired>>

prvLockQueue(t) ==
  /\ Runs(t)
  /\ pc[t] = "lock"
  /\ xTxLock' = IF xTxLock = queueUNLOCKED THEN queueLOCKED_UNMODIFIED ELSE xTxLock
  /\ Goto(t, "timeout")
  /\ UNCHANGED <<uxMessagesWaiting, waiting, scheduler, after, expired>>

\* xTaskCheckForTimeOut
CheckForTimeOut(t) ==
  /\ Runs(t)
  /\ pc[t] = "timeout"
  /\ IF t \in expired
     THEN Goto(t, "unlock") /\ after' = [after EXCEPT ![t] = "fail"]
     ELSE Goto(t, "empty") /\ UNCHANGED after
  /\ UNCHANGED <<queue, scheduler, expired>>

prvIsQueueEmpty(t) ==
  /\ Runs(t)
  /\ pc[t] = "empty"
  /\ IF uxMessagesWaiting = 0
     THEN Goto(t, "place") /\ UNCHANGED after
     ELSE Goto(t, "unlock") /\ after' = [after EXCEPT ![t] = "retry"]
  /\ UNCHANGED <<queue, scheduler, expired>>

\* vTaskPlaceOnEventList
PlaceOnEventList(t) ==
  /\ Runs(t)
  /\ pc[t] = "place"
  /\ waiting' = waiting \cup {t}
  /\ ready' = ready \ {t}
  /\ Goto(t, "unlock")
  /\ after' = [after EXCEPT ![t] = "block"]
  /\ UNCHANGED <<uxMessagesWaiting, xTxLock, pending, suspended, running, expired>>

\* Mutant: the count is not looked at.
prvUnlockQueueAtOnce(t) ==
  /\ Runs(t)
  /\ pc[t] = "unlock"
  /\ Goto(t, "store")
  /\ UNCHANGED <<queue, scheduler, after, expired>>

\* prvUnlockQueue: the critical section, the loop in it and its last line
prvUnlockQueue(t) ==
  /\ Runs(t)
  /\ pc[t] = "unlock"
  /\ Goto(t, "loop")
  /\ UNCHANGED <<queue, scheduler, after, expired>>

UnlockWake(t) ==
  /\ Runs(t)
  /\ pc[t] = "loop"
  /\ xTxLock > queueLOCKED_UNMODIFIED
  /\ \E u \in waiting : RemoveFromEventList(u)
  /\ xTxLock' = xTxLock - 1
  /\ UNCHANGED <<uxMessagesWaiting, suspended, running, control>>

UnlockDone(t) ==
  /\ Runs(t)
  /\ pc[t] = "loop"
  /\ xTxLock <= queueLOCKED_UNMODIFIED \/ waiting = {}
  /\ Goto(t, "store")
  /\ UNCHANGED <<queue, scheduler, after, expired>>

UnlockStore(t) ==
  /\ Runs(t)
  /\ pc[t] = "store"
  /\ xTxLock' = queueUNLOCKED
  /\ Goto(t, "resume")
  /\ UNCHANGED <<uxMessagesWaiting, waiting, scheduler, after, expired>>

\* Mutant: tasks stay in the pending list.
ResumeAllKeepsPending(t) ==
  /\ Runs(t)
  /\ pc[t] = "resume"
  /\ suspended' = FALSE
  /\ IF after[t] = "fail" THEN Leave(t) ELSE Goto(t, "check") /\ UNCHANGED expired
  /\ UNCHANGED <<queue, ready, pending, running, after>>

\* xTaskResumeAll; a task that is still on the event list yields.
ResumeAll(t) ==
  /\ Runs(t)
  /\ pc[t] = "resume"
  /\ suspended' = FALSE
  /\ ready' = ready \cup pending
  /\ pending' = {}
  /\ IF after[t] = "fail" THEN Leave(t) ELSE Goto(t, "check") /\ UNCHANGED expired
  /\ UNCHANGED <<queue, running, after>>

TaskStep(t) ==
  \/ Receive(t) \/ CheckFails(t)
  \/ SuspendAll(t) \/ prvLockQueue(t)
  \/ CheckForTimeOut(t) \/ prvIsQueueEmpty(t) \/ PlaceOnEventList(t)
  \/ prvUnlockQueue(t) \/ UnlockWake(t) \/ UnlockDone(t) \/ UnlockStore(t)
  \/ ResumeAll(t)

Next ==
  \/ \E t \in Tasks : TaskStep(t) \/ Call(t) \/ Reset(t) \/ Expire(t)
  \/ \E t \in Tasks \cup {NoTask} : Dispatch(t)
  \/ Give

Spec == Init /\ [][Next]_vars

\* Every ready task is run again and again: those of higher priority block.
FairSpec ==
  /\ Spec
  /\ \A t \in Tasks : SF_vars(TaskStep(t)) /\ SF_vars(Dispatch(t))

-----------------------------------------------------------------------------
(* Properties *)

\* On the way to the check of uxMessagesWaiting, with nothing before it to wait for.
LooksAgain(t) ==
  /\ t \notin waiting
  /\ \/ pc[t] = "check"
     \/ pc[t] \in {"unlock", "loop", "store", "resume"} /\ after[t] # "fail"

\* A token and a waiting task never coexist unless a task is about to look: one that
\* has been woken and not looked yet, or the one that has the queue locked and
\* will find the give counted in xTxLock.  A give between a task's look at an empty
\* queue and its place on the event list would otherwise be lost.
NoLostWakeUp ==
  uxMessagesWaiting > 0 /\ waiting # {} =>
    \/ xTxLock > queueLOCKED_UNMODIFIED
    \/ \E t \in Tasks : LooksAgain(t)

\* The drivers' semaphore: tokens are taken once, a token is taken when a task waits,
\* and a wait whose time is over ends.
Taking == {t \in Tasks : pc[t] # "idle"}

Abstract == INSTANCE BinarySemaphore WITH
  token <- uxMessagesWaiting, taking <- Taking, overdue <- expired

Implements == Abstract!Spec
=============================================================================
