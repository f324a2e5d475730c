------------------------- MODULE AbstractSemaphore -------------------------
(***************************************************************************)
(* What a semaphore promises its callers: a counter per semaphore and the  *)
(* set of threads that are inside P() and have not been let through.  It   *)
(* says nothing of queues, ready lists, interrupts or the dispatcher;      *)
(* module Synch, which has all of these, is shown to implement it, and the *)
(* modules that use semaphores (SynchList, ProcessTable, SemaphoreTable)   *)
(* take their P and V steps from here.                                     *)
(***************************************************************************)
EXTENDS Integers

CONSTANTS Threads,       \* the threads of the kernel
          Sems,          \* the semaphores
          InitialValue   \* the argument of each Semaphore constructor

VARIABLES value,   \* [Sems -> Int], Semaphore::value
          inside   \* [Sems -> SUBSET Threads], threads blocked in P()

vars == <<value, inside>>

Init == /\ value = InitialValue
        /\ inside = [s \in Sems |-> {}]

Free(t) == \A s \in Sems : t \notin inside[s]

\* P() by a thread that finds the semaphore available.
PNow(t, s) == /\ Free(t)
              /\ value[s] # 0
              /\ value' = [value EXCEPT ![s] = @ - 1]
              /\ UNCHANGED inside

\* P() by a thread that finds it at zero: the thread is now inside.
PEnter(t, s) == /\ Free(t)
                /\ value[s] = 0
                /\ inside' = [inside EXCEPT ![s] = @ \cup {t}]
                /\ UNCHANGED value

\* A thread inside P() takes a unit and leaves.
PLeave(t, s) == /\ t \in inside[s]
                /\ value[s] # 0
                /\ value' = [value EXCEPT ![s] = @ - 1]
                /\ inside' = [inside EXCEPT ![s] = @ \ {t}]

\* V(), by a thread or by an interrupt handler.
V(s) == /\ value' = [value EXCEPT ![s] = @ + 1]
        /\ UNCHANGED inside

Next == \E s \in Sems : \/ V(s)
                        \/ \E t \in Threads : \/ PNow(t, s)
                                              \/ PEnter(t, s)
                                              \/ PLeave(t, s)

Spec == Init /\ [][Next]_vars
=============================================================================
