----------------------------- MODULE SynchList -----------------------------
(***************************************************************************)
(* Lock and Condition of threads/synch.cc and the monitor built from them, *)
(* SynchList of threads/synchlist.cc, which is also the MailBox of         *)
(* network/post.cc.                                                        *)
(*                                                                         *)
(* Semaphores are those of module AbstractSemaphore: P() is a step that is *)
(* enabled while the value is not zero.  Interrupts come back on, and the  *)
(* thread may lose the CPU, at the end of every P() and V(); what the code *)
(* does between two of them is one action.                                 *)
(***************************************************************************)
EXTENDS Integers, Sequences, FiniteSets, Functions

CONSTANTS Threads,     \* the threads that share the list
          NoThread,    \* a null lockHolder
          MaxAppends,  \* bound: calls of Append
          MaxApplies   \* bound: calls of Apply

ASSUME ThreadsAssumption == IsFiniteSet(Threads) /\ NoThread \notin Threads
ASSUME BoundsAssumption == MaxAppends \in Nat /\ MaxApplies \in Nat

VARIABLES
  pc,          \* where each thread is
  lockValue,   \* value of the lock's semaphore: 1 free, 0 busy
  lockHolder,  \* Lock::lockHolder
  waitQueue,   \* Condition::waitQueue: the waiters' semaphores, by thread
  waiter,      \* value of the semaphore a thread allocated in Wait; -1: none
  list,        \* SynchList::list, each item named by the thread that appended it
  appends,     \* calls of Append so far
  applies      \* calls of Apply so far

vars == <<pc, lockValue, lockHolder, waitQueue, waiter, list, appends, applies>>

(* pc: "out"     not in the list's code                                    *)
(*     "append", "remove", "apply"   called, about to lock->Acquire()      *)
(*     "append2", "remove2", "apply2"   past P() of the lock's semaphore,  *)
(*               before lockHolder is set                                  *)
(*     "release" in Append, after Signal's V(), about to lock->Release()   *)
(*     "sleep"   in Condition::Wait, lock released, about to waiter->P()   *)
(*     "again"   in Condition::Wait, woken, about to conditionLock->Acquire() *)
(*     "again2"  past P() of the lock's semaphore in that Acquire          *)
PC == {"out", "append", "remove", "apply", "append2", "remove2", "apply2",
       "release", "sleep", "again", "again2"}

Init ==
  /\ pc = [t \in Threads |-> "out"]
  /\ lockValue = 1
  /\ lockHolder = NoThread
  /\ waitQueue = <<>>
  /\ waiter = [t \in Threads |-> -1]
  /\ list = <<>>
  /\ appends = 0
  /\ applies = 0

Goto(t, l) == pc' = [pc EXCEPT ![t] = l]

\* The rest of Lock::Release after its assertion: lockHolder = NULL, V().
Unlock == /\ lockHolder' = NoThread
          /\ lockValue' = lockValue + 1

-----------------------------------------------------------------------------
(* The calls. *)

CallAppend(t) ==
  /\ pc[t] = "out"
  /\ appends < MaxAppends
  /\ appends' = appends + 1
  /\ Goto(t, "append")
  /\ UNCHANGED <<lockValue, lockHolder, waitQueue, waiter, list, applies>>

CallRemoveFront(t) ==
  /\ pc[t] = "out"
  /\ Goto(t, "remove")
  /\ UNCHANGED <<lockValue, lockHolder, waitQueue, waiter, list, appends, applies>>

CallApply(t) ==
  /\ pc[t] = "out"
  /\ applies < MaxApplies
  /\ applies' = applies + 1
  /\ Goto(t, "apply")
  /\ UNCHANGED <<lockValue, lockHolder, waitQueue, waiter, list, appends>>

\* Lock::Acquire up to the end of P(): lockHolder is not yet set.
AcquireP(t) ==
  /\ lockValue # 0
  /\ \/ pc[t] = "append" /\ Goto(t, "append2")
     \/ pc[t] = "remove" /\ Goto(t, "remove2")
     \/ pc[t] = "apply"  /\ Goto(t, "apply2")
     \/ pc[t] = "again"  /\ Goto(t, "again2")
  /\ lockValue' = lockValue - 1
  /\ UNCHANGED <<lockHolder, waitQueue, waiter, list, appends, applies>>

-----------------------------------------------------------------------------
(* The bodies, from the end of Acquire's P() on. *)

\* Mutant of Signal: the waiter is not taken off the queue.
SignalKeepsWaiter ==
  /\ waiter' = [waiter EXCEPT ![Head(waitQueue)] = @ + 1]
  /\ UNCHANGED waitQueue

\* Condition::Signal with a thread waiting: V() of the first waiter's semaphore.
Signal ==
  /\ waiter' = [waiter EXCEPT ![Head(waitQueue)] = @ + 1]
  /\ waitQueue' = Tail(waitQueue)

\* Mutant of AppendSignal: the waiter is signalled only when the list was empty.
AppendSignalIfEmpty(t) ==
  /\ pc[t] = "append2"
  /\ waitQueue # <<>>
  /\ lockHolder' = t
  /\ list' = Append(list, t)
  /\ IF list = <<>>
     THEN Signal
     ELSE UNCHANGED <<waitQueue, waiter>>
  /\ Goto(t, "release")
  /\ UNCHANGED <<lockValue, appends, applies>>

\* SynchList::Append with a thread waiting: the CPU may go between the V() of
\* Signal and Release.
AppendSignal(t) ==
  /\ pc[t] = "append2"
  /\ waitQueue # <<>>
  /\ lockHolder' = t
  /\ list' = Append(list, t)
  /\ Signal
  /\ Goto(t, "release")
  /\ UNCHANGED <<lockValue, appends, applies>>

\* SynchList::Append with nobody waiting, through Release.
AppendQuiet(t) ==
  /\ pc[t] = "append2"
  /\ waitQueue = <<>>
  /\ list' = Append(list, t)
  /\ Unlock
  /\ Goto(t, "out")
  /\ UNCHANGED <<waitQueue, waiter, appends, applies>>

\* The Release at the end of Append.  Its ASSERT(IsHeldByCurrentThread()) is
\* part of MutualExclusion below.
Release(t) ==
  /\ pc[t] = "release"
  /\ Unlock
  /\ Goto(t, "out")
  /\ UNCHANGED <<waitQueue, waiter, list, appends, applies>>

\* SynchList::RemoveFront finds an item, with or without having waited (the
\* semaphore of Wait is deleted on the way), and releases the lock.
RemoveItem(t) ==
  /\ pc[t] \in {"remove2", "again2"}
  /\ list # <<>>
  /\ list' = Tail(list)
  /\ waiter' = [waiter EXCEPT ![t] = -1]
  /\ Unlock
  /\ Goto(t, "out")
  /\ UNCHANGED <<waitQueue, appends, applies>>

\* Mutant of Wait: the new semaphore is not put on the wait queue.
WaitUnqueued(t) ==
  /\ pc[t] \in {"remove2", "again2"}
  /\ list = <<>>
  /\ waiter' = [waiter EXCEPT ![t] = 0]
  /\ Unlock
  /\ Goto(t, "sleep")
  /\ UNCHANGED <<waitQueue, list, appends, applies>>

\* RemoveFront finds the list empty and calls Condition::Wait: a new
\* semaphore joins the wait queue and the lock is released.
Wait(t) ==
  /\ pc[t] \in {"remove2", "again2"}
  /\ list = <<>>
  /\ waiter' = [waiter EXCEPT ![t] = 0]
  /\ waitQueue' = Append(waitQueue, t)
  /\ Unlock
  /\ Goto(t, "sleep")
  /\ UNCHANGED <<list, appends, applies>>

\* Mutant of WaiterP: Wait returns without re-acquiring the lock.
WaiterPNoAcquire(t) ==
  /\ pc[t] = "sleep"
  /\ waiter[t] # 0
  /\ waiter' = [waiter EXCEPT ![t] = @ - 1]
  /\ Goto(t, "again2")
  /\ UNCHANGED <<lockValue, lockHolder, waitQueue, list, appends, applies>>

\* waiter->P() in Condition::Wait.
WaiterP(t) ==
  /\ pc[t] = "sleep"
  /\ waiter[t] # 0
  /\ waiter' = [waiter EXCEPT ![t] = @ - 1]
  /\ Goto(t, "again")
  /\ UNCHANGED <<lockValue, lockHolder, waitQueue, list, appends, applies>>

\* SynchList::Apply: look at every item, under the lock.
Apply(t) ==
  /\ pc[t] = "apply2"
  /\ Unlock
  /\ Goto(t, "out")
  /\ UNCHANGED <<waitQueue, waiter, list, appends, applies>>

-----------------------------------------------------------------------------
Body(t) == \/ AcquireP(t) \/ AppendSignal(t) \/ AppendQuiet(t) \/ Release(t)
           \/ RemoveItem(t) \/ Wait(t) \/ WaiterP(t) \/ Apply(t)

Next == \E t \in Threads : \/ CallAppend(t) \/ CallRemoveFront(t) \/ CallApply(t)
                           \/ Body(t)

Spec == Init /\ [][Next]_vars

\* A thread that can go on does (module Synch: ReadyRuns, UnitsAreTaken), but
\* no thread is promised the lock while others keep taking it: the fairness is
\* weak.
FairSpec == Spec /\ \A t \in Threads : WF_vars(Body(t))

-----------------------------------------------------------------------------
(* Properties. *)

TypeOK ==
  /\ pc \in [Threads -> PC]
  /\ lockValue \in {0, 1}
  /\ lockHolder \in Threads \cup {NoThread}
  /\ waitQueue \in Seq(Threads)
  /\ waiter \in [Threads -> -1 .. 1]
  /\ list \in Seq(Threads)
  /\ appends \in 0 .. MaxAppends
  /\ applies \in 0 .. MaxApplies

\* Between the end of the lock's P() and the V() of Release.
Critical(t) == pc[t] \in {"append2", "remove2", "apply2", "again2", "release"}

\* The lock admits one thread at a time and is busy exactly while that thread
\* is inside, although Acquire sets lockHolder only after P() and may lose the
\* CPU in between; the holder still is the holder when Release asserts it.
MutualExclusion ==
  /\ \A t, u \in Threads : Critical(t) /\ Critical(u) => t = u
  /\ lockValue = 0 <=> \E t \in Threads : Critical(t)
  /\ \A t \in Threads : lockHolder = t <=> pc[t] = "release"

\* Signal V()s only semaphores that exist: a waiter on the queue has allocated
\* its semaphore, nobody has V'ed it yet, and it is there once.
WaiterAlive ==
  /\ IsInjective(waitQueue)
  /\ \A t \in Threads : t \in Range(waitQueue) <=> pc[t] = "sleep" /\ waiter[t] = 0

\* Threads signalled that have not yet looked at the list again.
Signalled == {t \in Threads : \/ pc[t] = "sleep" /\ waiter[t] # 0
                              \/ pc[t] \in {"again", "again2"}}

\* No signal is lost, although the lock is released before waiter->P() and
\* another thread may take the item first: while threads sleep on the
\* condition, every item has a signalled thread on its way to it.
NoLostSignal == waitQueue # <<>> => Len(list) <= Cardinality(Signalled)

\* An item in the list does not stay there while a thread wants one.
ItemsAreTaken ==
  (list # <<>> /\ \E t \in Threads : pc[t] \in {"remove", "sleep", "again"})
     ~> (list = <<>> \/ \A t \in Threads : pc[t] \notin {"remove", "sleep", "again"})
=============================================================================
