-------------------------- MODULE BinarySemaphore --------------------------
(***************************************************************************)
(* What the drivers rely on when they wait for an interrupt: a binary      *)
(* semaphore whose take waits for a token until its time is over, whose    *)
(* give from a handler never waits, and whose reset drops the token.       *)
(* xSemaphoreTake, xSemaphoreGiveFromISR and xQueueReset in FreeRTOS'      *)
(* semphr.h and queue.h; module Semaphore is how the kernel does it.       *)
(***************************************************************************)
EXTENDS Naturals

CONSTANT Tasks

VARIABLES
  token,     \* 0 or 1
  taking,    \* tasks that are in a call of xSemaphoreTake
  overdue    \* those whose time is over
vars == <<token, taking, overdue>>

Init ==
  /\ token = 0
  /\ taking = {}
  /\ overdue = {}

Call(t) ==
  /\ t \notin taking
  /\ taking' = taking \cup {t}
  /\ UNCHANGED <<token, overdue>>

Return(t) ==
  /\ t \in taking
  /\ taking' = taking \ {t}
  /\ overdue' = overdue \ {t}

Take(t) ==
  /\ token = 1
  /\ token' = 0
  /\ Return(t)

Fail(t) ==
  /\ t \in overdue
  /\ Return(t)
  /\ UNCHANGED token

Expire(t) ==
  /\ t \in taking
  /\ overdue' = overdue \cup {t}
  /\ UNCHANGED <<token, taking>>

Give == token' = 1 /\ UNCHANGED <<taking, overdue>>

Reset == token' = 0 /\ UNCHANGED <<taking, overdue>>

Next ==
  \/ \E t \in Tasks : Call(t) \/ Take(t) \/ Fail(t) \/ Expire(t)
  \/ Give \/ Reset

SafeSpec == Init /\ [][Next]_vars

\* A token does not stay while a task waits, and a task whose time is over returns.
Spec == SafeSpec /\ \A t \in Tasks : WF_vars(Take(t) \/ Fail(t))
=============================================================================
