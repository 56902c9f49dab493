--------------------------- MODULE SemaphoreProof ---------------------------
(***************************************************************************)
(* For any set of tasks: the kernel's steps are those of a binary          *)
(* semaphore, whether or not the critical section of prvUnlockQueue masks  *)
(* the handlers; if it does, no wake-up is lost.                           *)
(***************************************************************************)
EXTENDS Semaphore, TLAPS

\* After vTaskSuspendAll, while xTxLock counts, and on the way out.
Locking == {"lock", "timeout", "empty", "place", "unlock", "loop", "store", "resume"}
Counting == {"timeout", "empty", "place", "unlock", "loop", "store"}
Leaving == {"unlock", "loop", "store", "resume"}

\* One task at a time has the queue locked, and it is the one that runs.
OneLocks ==
  /\ \A t \in Tasks : pc[t] \in Locking <=> suspended /\ running = t
  /\ suspended => running \in Tasks

\* xTxLock counts gives exactly then, and a counted give has left its token.
LockCounts ==
  /\ xTxLock >= queueLOCKED_UNMODIFIED <=>
       suspended /\ running \in Tasks /\ pc[running] \in Counting
  /\ xTxLock > queueLOCKED_UNMODIFIED => uxMessagesWaiting > 0

\* A waiting task is in no other list.  It, and one that was woken while the scheduler
\* was suspended, will look at the queue when it runs again.
WaitersLook ==
  /\ waiting \cap (ready \cup pending) = {}
  /\ pending # {} => suspended
  /\ \A t \in waiting \cup pending :
       pc[t] = "check" \/ (pc[t] \in Leaving /\ after[t] = "block")

\* What the task that has the queue locked knows.
PlaceKnows ==
  \A t \in Tasks : pc[t] = "place" /\ uxMessagesWaiting > 0 => xTxLock > queueLOCKED_UNMODIFIED

StoreKnows ==
  \A t \in Tasks :
    pc[t] = "store" => xTxLock <= queueLOCKED_UNMODIFIED \/ waiting = {}

FailKnows ==
  \A t \in Tasks : pc[t] \in Leaving /\ after[t] = "fail" => t \in expired

\* What handlers cannot break wherever they interrupt,
Kernel ==
  /\ TypeOK
  /\ OneLocks
  /\ LockCounts
  /\ WaitersLook
  /\ PlaceKnows
  /\ FailKnows

\* and what a give between the lines of prvUnlockQueue's critical section would.
IInv ==
  /\ Kernel
  /\ StoreKnows
  /\ NoLostWakeUp

-----------------------------------------------------------------------------

\* The strengthening holds before the first call.
LEMMA InitInvariant == Init => IInv
<1> SUFFICES ASSUME Init PROVE IInv
  OBVIOUS
<1> USE DEF Init, queueUNLOCKED, queueLOCKED_UNMODIFIED
<1>1. TypeOK
  <2>1. suspended \in BOOLEAN
    BY Zenon
  <2>2. pc \in [Tasks -> Locations] /\ after \in [Tasks -> {"block", "retry", "fail"}]
    BY DEF Locations
  <2> QED
    BY <2>1, <2>2 DEF TypeOK
<1>2. OneLocks
  BY DEF OneLocks, Locking
<1>3. LockCounts
  BY DEF LockCounts
<1>4. WaitersLook
  BY DEF WaitersLook
<1>5. PlaceKnows /\ StoreKnows /\ FailKnows /\ NoLostWakeUp
  BY DEF PlaceKnows, StoreKnows, FailKnows, NoLostWakeUp, Leaving
<1> QED
  BY <1>1, <1>2, <1>3, <1>4, <1>5 DEF IInv, Kernel

\* No step of a task or a handler breaks the lists, the lock and its count.
LEMMA StepKernel ==
  ASSUME Kernel, [Next]_vars
  PROVE  Kernel'
<1> USE SemaphoreTasks DEF queueUNLOCKED, queueLOCKED_UNMODIFIED, Locking, Counting, Leaving,
        Locations
<1> USE DEF Kernel, TypeOK, OneLocks, LockCounts, WaitersLook, PlaceKnows, FailKnows
<1>1. ASSUME NEW t \in Tasks, Receive(t) PROVE Kernel'
  BY <1>1, SMTT(60) DEF Receive, Leave, Runs, Goto, queue, scheduler, control
<1>2. ASSUME NEW t \in Tasks, CheckFails(t) PROVE Kernel'
  BY <1>2, SMTT(60) DEF CheckFails, Runs, Goto, queue, scheduler, control
<1>3. ASSUME NEW t \in Tasks, SuspendAll(t) PROVE Kernel'
  BY <1>3, SMTT(60) DEF SuspendAll, Runs, Goto, queue, scheduler, control
<1>4. ASSUME NEW t \in Tasks, prvLockQueue(t) PROVE Kernel'
  BY <1>4, SMTT(60) DEF prvLockQueue, Runs, Goto, queue, scheduler, control
<1>5. ASSUME NEW t \in Tasks, CheckForTimeOut(t) PROVE Kernel'
  BY <1>5, SMTT(60) DEF CheckForTimeOut, Runs, Goto, queue, scheduler, control
<1>6. ASSUME NEW t \in Tasks, prvIsQueueEmpty(t) PROVE Kernel'
  BY <1>6, SMTT(60) DEF prvIsQueueEmpty, Runs, Goto, queue, scheduler, control
<1>7. ASSUME NEW t \in Tasks, PlaceOnEventList(t) PROVE Kernel'
  <2> USE <1>7 DEF PlaceOnEventList, Runs, Goto
  <2>1. TypeOK'
    BY SMTT(30)
  <2>2. OneLocks'
    BY SMTT(30)
  <2>3. LockCounts'
    BY SMTT(30)
  <2>4. WaitersLook'
    BY SMTT(30)
  <2>5. PlaceKnows'
    BY SMTT(30)
  <2>6. FailKnows'
    BY SMTT(30)
  <2> QED
    BY <2>1, <2>2, <2>3, <2>4, <2>5, <2>6
<1>8. ASSUME NEW t \in Tasks, prvUnlockQueue(t) PROVE Kernel'
  BY <1>8, SMTT(60) DEF prvUnlockQueue, Runs, Goto, queue, scheduler, control
<1>9. ASSUME NEW t \in Tasks, UnlockWake(t) PROVE Kernel'
  BY <1>9, SMTT(60) DEF UnlockWake, RemoveFromEventList, Runs, Goto, queue, scheduler, control
<1>10. ASSUME NEW t \in Tasks, UnlockDone(t) PROVE Kernel'
  BY <1>10, SMTT(60) DEF UnlockDone, Runs, Goto, queue, scheduler, control
<1>11. ASSUME NEW t \in Tasks, UnlockStore(t) PROVE Kernel'
  BY <1>11, SMTT(60) DEF UnlockStore, Runs, Goto, queue, scheduler, control
<1>12. ASSUME NEW t \in Tasks, ResumeAll(t) PROVE Kernel'
  <2> USE <1>12 DEF ResumeAll, Leave, Runs, Goto, queue
  <2>1. TypeOK'
    <3>1. (suspended \in BOOLEAN)'
      BY Zenon
    <3> QED
      BY <3>1, SMTT(30)
  <2>2. OneLocks'
    BY SMTT(30)
  <2>3. LockCounts'
    BY SMTT(30)
  <2>4. WaitersLook'
    BY SMTT(30)
  <2>5. PlaceKnows'
    BY SMTT(30)
  <2>6. FailKnows'
    BY SMTT(30)
  <2> QED
    BY <2>1, <2>2, <2>3, <2>4, <2>5, <2>6
<1>13. ASSUME NEW t \in Tasks, Call(t) PROVE Kernel'
  BY <1>13, SMTT(60) DEF Call, Runs, Goto, queue, scheduler, control
<1>14. ASSUME NEW t \in Tasks, Reset(t) PROVE Kernel'
  BY <1>14, SMTT(60) DEF Reset, Runs, Goto, queue, scheduler, control
<1>15. ASSUME NEW t \in Tasks, Expire(t) PROVE Kernel'
  BY <1>15, SMTT(60) DEF Expire, queue, scheduler, control
<1>16. ASSUME NEW t \in Tasks \cup {NoTask}, Dispatch(t) PROVE Kernel'
  BY <1>16, SMTT(60) DEF Dispatch, queue, control
<1>17. ASSUME Give PROVE Kernel'
  BY <1>17, SMTT(60) DEF Give, WakeOne, RemoveFromEventList, control
<1>18. ASSUME UNCHANGED vars PROVE Kernel'
  BY <1>18 DEF vars, queue, scheduler, control
<1> QED
  BY <1>1, <1>2, <1>3, <1>4, <1>5, <1>6, <1>7, <1>8, <1>9, <1>10, <1>11, <1>12, <1>13, <1>14, <1>15, <1>16, <1>17, <1>18
  DEF Next, TaskStep

\* No give is lost, as long as the handlers are masked where xTxLock is looked at and
\* reset.
LEMMA StepWakes ==
  ASSUME Masks, IInv, [Next]_vars
  PROVE  (StoreKnows /\ NoLostWakeUp)'
<1> USE SemaphoreTasks DEF queueUNLOCKED, queueLOCKED_UNMODIFIED, Locking, Counting, Leaving,
        Locations
<1> USE DEF IInv, Kernel, TypeOK, OneLocks, LockCounts, WaitersLook, PlaceKnows, StoreKnows, FailKnows,
        NoLostWakeUp, LooksAgain
<1>1. ASSUME NEW t \in Tasks, Receive(t) PROVE (StoreKnows /\ NoLostWakeUp)'
  BY <1>1, SMTT(60) DEF Receive, Leave, Runs, Goto, queue, scheduler, control
<1>2. ASSUME NEW t \in Tasks, CheckFails(t) PROVE (StoreKnows /\ NoLostWakeUp)'
  BY <1>2, SMTT(60) DEF CheckFails, Runs, Goto, queue, scheduler, control
<1>3. ASSUME NEW t \in Tasks, SuspendAll(t) PROVE (StoreKnows /\ NoLostWakeUp)'
  BY <1>3, SMTT(60) DEF SuspendAll, Runs, Goto, queue, scheduler, control
<1>4. ASSUME NEW t \in Tasks, prvLockQueue(t) PROVE (StoreKnows /\ NoLostWakeUp)'
  BY <1>4, SMTT(60) DEF prvLockQueue, Runs, Goto, queue, scheduler, control
<1>5. ASSUME NEW t \in Tasks, CheckForTimeOut(t) PROVE (StoreKnows /\ NoLostWakeUp)'
  BY <1>5, SMTT(60) DEF CheckForTimeOut, Runs, Goto, queue, scheduler, control
<1>6. ASSUME NEW t \in Tasks, prvIsQueueEmpty(t) PROVE (StoreKnows /\ NoLostWakeUp)'
  BY <1>6, SMTT(60) DEF prvIsQueueEmpty, Runs, Goto, queue, scheduler, control
<1>7. ASSUME NEW t \in Tasks, PlaceOnEventList(t) PROVE (StoreKnows /\ NoLostWakeUp)'
  <2> USE <1>7 DEF PlaceOnEventList, Runs, Goto
  <2>1. StoreKnows'
    BY SMTT(30)
  <2>2. NoLostWakeUp'
    BY SMTT(30)
  <2> QED
    BY <2>1, <2>2
<1>8. ASSUME NEW t \in Tasks, prvUnlockQueue(t) PROVE (StoreKnows /\ NoLostWakeUp)'
  BY <1>8, SMTT(60) DEF prvUnlockQueue, Runs, Goto, queue, scheduler, control
<1>9. ASSUME NEW t \in Tasks, UnlockWake(t) PROVE (StoreKnows /\ NoLostWakeUp)'
  BY <1>9, SMTT(60) DEF UnlockWake, RemoveFromEventList, Runs, Goto, queue, scheduler, control
<1>10. ASSUME NEW t \in Tasks, UnlockDone(t) PROVE (StoreKnows /\ NoLostWakeUp)'
  BY <1>10, SMTT(60) DEF UnlockDone, Runs, Goto, queue, scheduler, control
<1>11. ASSUME NEW t \in Tasks, UnlockStore(t) PROVE (StoreKnows /\ NoLostWakeUp)'
  BY <1>11, SMTT(60) DEF UnlockStore, Runs, Goto, queue, scheduler, control
<1>12. ASSUME NEW t \in Tasks, ResumeAll(t) PROVE (StoreKnows /\ NoLostWakeUp)'
  <2> USE <1>12 DEF ResumeAll, Leave, Runs, Goto, queue
  <2>1. StoreKnows'
    BY SMTT(30)
  <2>2. NoLostWakeUp'
    BY SMTT(30)
  <2> QED
    BY <2>1, <2>2
<1>13. ASSUME NEW t \in Tasks, Call(t) PROVE (StoreKnows /\ NoLostWakeUp)'
  BY <1>13, SMTT(60) DEF Call, Runs, Goto, queue, scheduler, control
<1>14. ASSUME NEW t \in Tasks, Reset(t) PROVE (StoreKnows /\ NoLostWakeUp)'
  BY <1>14, SMTT(60) DEF Reset, Runs, Goto, queue, scheduler, control
<1>15. ASSUME NEW t \in Tasks, Expire(t) PROVE (StoreKnows /\ NoLostWakeUp)'
  BY <1>15, SMTT(60) DEF Expire, MayInterrupt, Critical, queue, scheduler, control
<1>16. ASSUME NEW t \in Tasks \cup {NoTask}, Dispatch(t) PROVE (StoreKnows /\ NoLostWakeUp)'
  BY <1>16, SMTT(60) DEF Dispatch, MayInterrupt, Critical, queue, control
<1>17. ASSUME Give PROVE (StoreKnows /\ NoLostWakeUp)'
  BY <1>17, SMTT(60) DEF Give, WakeOne, RemoveFromEventList, MayInterrupt, Critical, control
<1>18. ASSUME UNCHANGED vars PROVE (StoreKnows /\ NoLostWakeUp)'
  BY <1>18 DEF vars, queue, scheduler, control
<1> QED
  BY <1>1, <1>2, <1>3, <1>4, <1>5, <1>6, <1>7, <1>8, <1>9, <1>10, <1>11, <1>12, <1>13, <1>14, <1>15, <1>16, <1>17, <1>18
  DEF Next, TaskStep

\* prvUnlockQueue() and vTaskPlaceOnEventList() lose no give, for any number of tasks,
\* as long as critical sections mask the handlers.
THEOREM NothingLost ==
  ASSUME Masks
  PROVE  Spec => []NoLostWakeUp
<1>1. Init => IInv
  BY InitInvariant
<1>2. IInv /\ [Next]_vars => IInv'
  BY StepKernel, StepWakes DEF IInv
<1>3. IInv => NoLostWakeUp
  BY DEF IInv
<1> QED
  BY <1>1, <1>2, <1>3, PTL DEF Spec

\* The queue's variables keep their types wherever handlers interrupt prvUnlockQueue():
\* in particular xTxLock counts no more gives than the one token.
THEOREM TypeCorrect == Spec => []TypeOK
<1>1. Init => Kernel
  BY InitInvariant DEF IInv
<1>2. Kernel /\ [Next]_vars => Kernel'
  BY StepKernel
<1>3. Kernel => TypeOK
  BY DEF Kernel
<1> QED
  BY <1>1, <1>2, <1>3, PTL DEF Spec

-----------------------------------------------------------------------------
(* The kernel's steps as a binary semaphore's *)

\* An empty queue is an absent token.
LEMMA InitRefines == Init => Abstract!Init
BY DEF Init, Abstract!Init, Taking

\* Each step of the queue's code is one of the semaphore, or none.
LEMMA StepRefines ==
  ASSUME Kernel, [Next]_vars
  PROVE  [Abstract!Next]_(Abstract!vars)
<1> USE DEF Kernel, TypeOK, Abstract!vars, Taking
<1>1. ASSUME NEW t \in Tasks, Receive(t) PROVE Abstract!Take(t)
  BY <1>1 DEF Receive, Leave, Goto, Abstract!Take, Abstract!Return, Locations
<1>2. ASSUME NEW t \in Tasks,
             \/ CheckFails(t) \/ SuspendAll(t) \/ prvLockQueue(t) \/ CheckForTimeOut(t)
             \/ prvIsQueueEmpty(t) \/ PlaceOnEventList(t) \/ prvUnlockQueue(t)
             \/ UnlockDone(t) \/ UnlockStore(t)
      PROVE  UNCHANGED Abstract!vars
  BY <1>2 DEF CheckFails, SuspendAll, prvLockQueue, CheckForTimeOut, prvIsQueueEmpty,
     PlaceOnEventList, prvUnlockQueue, UnlockDone, UnlockStore, Goto, queue, control, Locations
<1>3. ASSUME NEW t \in Tasks, UnlockWake(t) PROVE UNCHANGED Abstract!vars
  BY <1>3 DEF UnlockWake, control
<1>4. ASSUME NEW t \in Tasks, ResumeAll(t) PROVE Abstract!Fail(t) \/ UNCHANGED Abstract!vars
  <2>1. CASE after[t] = "fail"
    BY <1>4, <2>1 DEF ResumeAll, Leave, Goto, queue, FailKnows, Leaving, Abstract!Fail,
       Abstract!Return, Locations
  <2>2. CASE after[t] # "fail"
    BY <1>4, <2>2 DEF ResumeAll, Goto, queue, Locations
  <2> QED
    BY <2>1, <2>2
<1>5. ASSUME NEW t \in Tasks, Call(t) PROVE Abstract!Call(t)
  BY <1>5 DEF Call, Goto, queue, Abstract!Call, Locations
<1>6. ASSUME NEW t \in Tasks, Reset(t) PROVE Abstract!Reset
  BY <1>6 DEF Reset, control, Abstract!Reset
<1>7. ASSUME NEW t \in Tasks, Expire(t) PROVE Abstract!Expire(t)
  BY <1>7 DEF Expire, Abstract!Expire
<1>8. ASSUME NEW t, Dispatch(t) PROVE UNCHANGED Abstract!vars
  BY <1>8 DEF Dispatch, queue, control
<1>9. ASSUME Give PROVE Abstract!Give
  BY <1>9 DEF Give, control, Abstract!Give
<1>10. ASSUME UNCHANGED vars PROVE UNCHANGED Abstract!vars
  BY <1>10 DEF vars, queue, control
<1> QED
  BY <1>1, <1>2, <1>3, <1>4, <1>5, <1>6, <1>7, <1>8, <1>9, <1>10
  DEF Next, TaskStep, Abstract!Next

\* Every behaviour of the kernel's code is one of a binary semaphore: a token is taken
\* once, gives are never dropped while there is none, and xSemaphoreTake fails only
\* when its time is over, also where handlers interrupt prvUnlockQueue() between its
\* lines.  That a waiting task takes a token that is there is not part of this.
THEOREM Refinement == Spec => Abstract!SafeSpec
<1>1. Init => Kernel /\ Abstract!Init
  BY InitInvariant, InitRefines DEF IInv
<1>2. Kernel /\ [Next]_vars => Kernel'
  BY StepKernel
<1>3. Kernel /\ [Next]_vars => [Abstract!Next]_(Abstract!vars)
  BY StepRefines
<1> QED
  BY <1>1, <1>2, <1>3, PTL DEF Spec, Abstract!SafeSpec
=============================================================================
