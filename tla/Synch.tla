------------------------------- MODULE Synch -------------------------------
(***************************************************************************)
(* Threads, the dispatcher and semaphores of the NachOS kernel:            *)
(* threads/thread.cc, threads/scheduler.cc, class Semaphore of             *)
(* threads/synch.cc, and the interrupt level of machine/interrupt.cc.      *)
(*                                                                         *)
(* There is one CPU.  Kernel code is cut into atomic pieces exactly where  *)
(* the simulator can cut it: Interrupt::SetLevel(IntOn) calls OneTick,     *)
(* which runs the due interrupt handlers and then, if the timer asked for  *)
(* it, Yield.  So a piece ends where interrupts go back on, and everything *)
(* between SetLevel(IntOff) and that point is one action.                  *)
(*                                                                         *)
(* The threads run any program made of Fork, Yield, Finish, P, V and       *)
(* device requests whose completion handler calls V (the synchronous disk, *)
(* the console and the network all have that form).                        *)
(***************************************************************************)
EXTENDS Integers, Sequences, FiniteSets, Functions

CONSTANTS Threads,       \* Thread objects that may ever be allocated
          Main,          \* the thread of main(), running at start
          NoThread,      \* a null Thread pointer
          NoSem,         \* no semaphore
          Sems,          \* the Semaphore objects
          InitialValue,  \* [Sems -> Nat], the constructors' arguments
          MaxValue,      \* bound: V() only below this value
          MaxPending     \* bound: outstanding device requests per semaphore

ASSUME ThreadsAssumption == /\ IsFiniteSet(Threads)
                            /\ Main \in Threads
                            /\ NoThread \notin Threads
ASSUME SemsAssumption == /\ NoSem \notin Sems
                         /\ InitialValue \in [Sems -> Nat]
ASSUME BoundsAssumption == MaxValue \in Nat /\ MaxPending \in Nat

VARIABLES
  currentThread,  \* Kernel::currentThread
  status,         \* Thread::status; "NONE" before new, "DELETED" after delete
  readyList,      \* Scheduler::readyList, front first
  toBeDestroyed,  \* Scheduler::toBeDestroyed
  level,          \* Interrupt::level
  sem,            \* the semaphore whose P() loop the thread is in, or NoSem
  finished,       \* the threads that have called Sleep(TRUE)
  value,          \* Semaphore::value
  queue,          \* Semaphore::queue, front first
  pending         \* device interrupts on their way that will V the semaphore

threadVars == <<currentThread, status, readyList, toBeDestroyed, level>>
semVars    == <<value, queue>>
vars       == <<threadVars, sem, finished, semVars, pending>>

ThreadStatus == {"NONE", "RUNNING", "READY", "BLOCKED", "DELETED"}

Init ==
  /\ currentThread = Main
  /\ status = [t \in Threads |-> IF t = Main THEN "RUNNING" ELSE "NONE"]
  /\ readyList = <<>>
  /\ toBeDestroyed = NoThread
  /\ level = "IntOn"
  /\ sem = [t \in Threads |-> NoSem]
  /\ finished = {}
  /\ value = InitialValue
  /\ queue = [s \in Sems |-> <<>>]
  /\ pending = [s \in Sems |-> 0]

-----------------------------------------------------------------------------
(* The three states of the CPU. *)

\* t executes, interrupts enabled: the point where a tick may strike.
Running(t) == /\ currentThread = t
              /\ status[t] = "RUNNING"
              /\ level = "IntOn"

\* t has just been switched to and has not yet enabled interrupts.
Switched(t) == /\ currentThread = t
               /\ status[t] = "RUNNING"
               /\ level = "IntOff"

\* currentThread went to sleep and found the ready list empty: it spins in
\* the loop of Thread::Sleep, calling Interrupt::Idle.
Idling(t) == /\ currentThread = t
             /\ status[t] # "RUNNING"

-----------------------------------------------------------------------------
(* Scheduler and Thread::Sleep, as pieces of the actions below. *)

\* Scheduler::Run of the front of the ready list rl.  st and tbd are status
\* and toBeDestroyed at that point, old the thread that gives up the CPU.
Run(rl, st, tbd, old, finishing) ==
  /\ readyList' = Tail(rl)
  /\ currentThread' = Head(rl)
  /\ status' = [st EXCEPT ![Head(rl)] = "RUNNING"]
  /\ toBeDestroyed' = IF finishing THEN old ELSE tbd
  /\ level' = "IntOff"

\* Thread::Sleep by t: run the next ready thread, or start to idle.
Sleep(st, tbd, t, finishing) ==
  LET blocked == [st EXCEPT ![t] = "BLOCKED"]
  IN \/ /\ readyList # <<>>
        /\ Run(readyList, blocked, tbd, t, finishing)
     \/ /\ readyList = <<>>
        /\ status' = blocked
        /\ toBeDestroyed' = tbd
        /\ level' = "IntOff"
        /\ UNCHANGED <<readyList, currentThread>>

\* The status of threads once CheckToBeDestroyed has deleted the carcass.
Reaped == [t \in Threads |-> IF t = toBeDestroyed THEN "DELETED" ELSE status[t]]

\* Scheduler::CheckToBeDestroyed, the first thing after every SWITCH.
CheckToBeDestroyed == /\ toBeDestroyed' = NoThread
                      /\ status' = Reaped

-----------------------------------------------------------------------------
(* Threads. *)

\* new Thread and Thread::Fork: the child goes to the end of the ready list.
Fork(t, child) ==
  /\ Running(t)
  /\ status[child] = "NONE"
  /\ status' = [status EXCEPT ![child] = "READY"]
  /\ readyList' = Append(readyList, child)
  /\ UNCHANGED <<currentThread, toBeDestroyed, level, sem, finished, semVars, pending>>

\* Mutant of Yield: the thread goes to the front of the ready list.
YieldToFront(t) ==
  /\ Running(t)
  /\ readyList # <<>>
  /\ Run(<<t>> \o readyList, [status EXCEPT ![t] = "READY"], toBeDestroyed, t, FALSE)
  /\ UNCHANGED <<sem, finished, semVars, pending>>

\* Thread::Yield, called by the program or by OneTick for the timer
\* (Alarm::CallBack asks for it whenever the machine is not idle).
Yield(t) ==
  /\ Running(t)
  /\ readyList # <<>>
  /\ Run(Append(readyList, t), [status EXCEPT ![t] = "READY"], toBeDestroyed, t, FALSE)
  /\ UNCHANGED <<sem, finished, semVars, pending>>

\* Thread::Finish.
Finish(t) ==
  /\ Running(t)
  /\ finished' = finished \cup {t}
  /\ Sleep(status, toBeDestroyed, t, TRUE)
  /\ UNCHANGED <<sem, semVars, pending>>

\* Mutant of Resume: CheckToBeDestroyed is forgotten.
ResumeNoCheck(t) ==
  /\ Switched(t)
  /\ sem[t] = NoSem
  /\ level' = "IntOn"
  /\ UNCHANGED <<currentThread, status, readyList, toBeDestroyed, sem, finished,
                 semVars, pending>>

\* A thread comes back from SWITCH inside Yield, or for the first time in
\* Thread::Begin: it deletes the carcass and enables interrupts.
Resume(t) ==
  /\ Switched(t)
  /\ sem[t] = NoSem
  /\ CheckToBeDestroyed
  /\ level' = "IntOn"
  /\ UNCHANGED <<currentThread, readyList, sem, finished, semVars, pending>>

\* The idle loop of Thread::Sleep finds a thread that a handler made ready.
IdleRun(t) ==
  /\ Idling(t)
  /\ readyList # <<>>
  /\ Run(readyList, status, toBeDestroyed, t, t \in finished)
  /\ UNCHANGED <<sem, finished, semVars, pending>>

\* Interrupt::Idle with only the timer due: Alarm::CallBack does nothing in
\* IdleMode and Timer::CallBack rearms the timer, so there is always a
\* pending interrupt and Idle never halts the machine.
IdleTick(t) == /\ Idling(t)
               /\ readyList = <<>>
               /\ UNCHANGED vars

-----------------------------------------------------------------------------
(* Semaphores. *)

\* Semaphore::P by a running thread that finds value # 0.
PPass(t, s) ==
  /\ Running(t)
  /\ value[s] # 0
  /\ value' = [value EXCEPT ![s] = @ - 1]
  /\ UNCHANGED <<threadVars, sem, finished, queue, pending>>

\* Semaphore::P by a running thread that finds value = 0.
PBlock(t, s) ==
  /\ Running(t)
  /\ value[s] = 0
  /\ queue' = [queue EXCEPT ![s] = Append(@, t)]
  /\ sem' = [sem EXCEPT ![t] = s]
  /\ Sleep(status, toBeDestroyed, t, FALSE)
  /\ UNCHANGED <<finished, value, pending>>

\* Mutant of PRetryPass: "if (value == 0)" in place of the while loop.
PRetryPassIf(t) ==
  /\ Switched(t)
  /\ sem[t] # NoSem
  /\ CheckToBeDestroyed
  /\ value' = [value EXCEPT ![sem[t]] = @ - 1]
  /\ sem' = [sem EXCEPT ![t] = NoSem]
  /\ level' = "IntOn"
  /\ UNCHANGED <<currentThread, readyList, finished, queue, pending>>

\* A thread woken by V re-tests the value, interrupts still off, and passes.
PRetryPass(t) ==
  /\ Switched(t)
  /\ sem[t] # NoSem
  /\ value[sem[t]] # 0
  /\ CheckToBeDestroyed
  /\ value' = [value EXCEPT ![sem[t]] = @ - 1]
  /\ sem' = [sem EXCEPT ![t] = NoSem]
  /\ level' = "IntOn"
  /\ UNCHANGED <<currentThread, readyList, finished, queue, pending>>

\* ... or finds that another thread took the unit, and goes back to sleep at
\* the end of the queue.
PRetryBlock(t) ==
  /\ Switched(t)
  /\ sem[t] # NoSem
  /\ value[sem[t]] = 0
  /\ queue' = [queue EXCEPT ![sem[t]] = Append(@, t)]
  /\ Sleep(Reaped, NoThread, t, FALSE)
  /\ UNCHANGED <<sem, finished, value, pending>>

\* Mutants of VBody: the waiter stays on the queue; a waiter is woken only when
\* the value was zero; no waiter is woken.
VBodyKeepsFront(s) ==
  /\ value' = [value EXCEPT ![s] = @ + 1]
  /\ UNCHANGED queue
  /\ IF queue[s] = <<>>
     THEN UNCHANGED <<status, readyList>>
     ELSE /\ status' = [status EXCEPT ![Head(queue[s])] = "READY"]
          /\ readyList' = Append(readyList, Head(queue[s]))

VBodyWakesAtZero(s) ==
  /\ value' = [value EXCEPT ![s] = @ + 1]
  /\ IF queue[s] = <<>> \/ value[s] # 0
     THEN UNCHANGED <<queue, status, readyList>>
     ELSE /\ queue' = [queue EXCEPT ![s] = Tail(@)]
          /\ status' = [status EXCEPT ![Head(queue[s])] = "READY"]
          /\ readyList' = Append(readyList, Head(queue[s]))

VBodyNoWake(s) ==
  /\ value' = [value EXCEPT ![s] = @ + 1]
  /\ UNCHANGED <<queue, status, readyList>>

\* The body of Semaphore::V: make the first waiter ready, then increment.
VBody(s) ==
  /\ value' = [value EXCEPT ![s] = @ + 1]
  /\ IF queue[s] = <<>>
     THEN UNCHANGED <<queue, status, readyList>>
     ELSE /\ queue' = [queue EXCEPT ![s] = Tail(@)]
          /\ status' = [status EXCEPT ![Head(queue[s])] = "READY"]
          /\ readyList' = Append(readyList, Head(queue[s]))

\* Semaphore::V called by a thread.
V(t, s) ==
  /\ Running(t)
  /\ value[s] < MaxValue
  /\ VBody(s)
  /\ UNCHANGED <<currentThread, toBeDestroyed, level, sem, finished, pending>>

\* A thread starts a device, which calls Interrupt::Schedule.
Request(t, s) ==
  /\ Running(t)
  /\ pending[s] < MaxPending
  /\ pending' = [pending EXCEPT ![s] = @ + 1]
  /\ UNCHANGED <<threadVars, sem, finished, semVars>>

\* CheckIfDue fires a device handler whose CallBack is semaphore->V(): at a
\* tick of a running thread, or while the machine idles.
Interrupt(s) ==
  /\ \/ Running(currentThread)
     \/ Idling(currentThread)
  /\ pending[s] > 0
  /\ value[s] < MaxValue
  /\ pending' = [pending EXCEPT ![s] = @ - 1]
  /\ VBody(s)
  /\ UNCHANGED <<currentThread, toBeDestroyed, level, sem, finished>>

-----------------------------------------------------------------------------
ThreadStep(t) ==
  \/ Yield(t) \/ Finish(t) \/ Resume(t) \/ IdleRun(t) \/ IdleTick(t)
  \/ PRetryPass(t) \/ PRetryBlock(t)
  \/ \E child \in Threads : Fork(t, child)
  \/ \E s \in Sems : PPass(t, s) \/ PBlock(t, s) \/ V(t, s) \/ Request(t, s)

Next == \/ \E t \in Threads : ThreadStep(t)
        \/ \E s \in Sems : Interrupt(s)

Spec == Init /\ [][Next]_vars

\* A tick comes sooner or later, so the timer makes a running thread yield;
\* a thread that was switched to runs on; the idle loop looks at the ready
\* list again after every interrupt.
Fairness ==
  /\ \A t \in Threads : /\ WF_vars(Yield(t))
                        /\ WF_vars(Resume(t) \/ PRetryPass(t) \/ PRetryBlock(t))
                        /\ WF_vars(IdleRun(t))

FairSpec == Spec /\ Fairness

-----------------------------------------------------------------------------
(* Properties. *)

TypeOK ==
  /\ currentThread \in Threads
  /\ status \in [Threads -> ThreadStatus]
  /\ readyList \in Seq(Threads)
  /\ toBeDestroyed \in Threads \cup {NoThread}
  /\ level \in {"IntOn", "IntOff"}
  /\ sem \in [Threads -> Sems \cup {NoSem}]
  /\ finished \in SUBSET Threads
  /\ value \in [Sems -> Nat]
  /\ queue \in [Sems -> Seq(Threads)]
  /\ pending \in [Sems -> Nat]

\* Every thread that can still run is in exactly one place: it is the running
\* one, or it is once on the ready list, or it is once on the queue of the one
\* semaphore it waits for.  A thread in two places would be run twice by the
\* dispatcher; one in no place would never run again.
OneHome ==
  /\ IsInjective(readyList)
  /\ \A t \in Threads : t \in Range(readyList) <=> status[t] = "READY"
  /\ \A s \in Sems :
       /\ IsInjective(queue[s])
       /\ \A t \in Threads : t \in Range(queue[s]) <=>
                             status[t] = "BLOCKED" /\ t \notin finished /\ sem[t] = s

\* The CPU belongs to one thread, and what a thread is in the middle of agrees
\* with its status: only currentThread is RUNNING, interrupts are on only when
\* it is running outside P(), and a thread that sleeps is inside P() or has
\* finished.  With OneHome this is what makes the other invariants inductive.
CpuInv ==
  /\ \A t \in Threads :
       /\ status[t] = "RUNNING" => t = currentThread
       /\ status[t] = "BLOCKED" => t \in finished \/ sem[t] # NoSem
       /\ status[t] = "DELETED" => t \in finished
       /\ status[t] = "NONE" => sem[t] = NoSem
       /\ t \in finished => status[t] \in {"BLOCKED", "DELETED"} /\ sem[t] = NoSem
  /\ status[currentThread] \in {"RUNNING", "READY", "BLOCKED"}
  /\ status[currentThread] # "RUNNING" => level = "IntOff"
  /\ level = "IntOn" => sem[currentThread] = NoSem
  /\ toBeDestroyed # NoThread => /\ Switched(currentThread)
                                 /\ toBeDestroyed \in finished
                                 /\ status[toBeDestroyed] = "BLOCKED"

\* Threads that V has woken from the queue of s and that have not yet re-tested
\* its value.
Woken(s) == {t \in Threads : status[t] \in {"READY", "RUNNING"} /\ sem[t] = s}

\* No wake-up is lost, although V hands the unit to nobody and a third thread
\* may take it first (Semaphore::P re-tests in a loop): while threads sleep on
\* a semaphore, every unit of its value has a woken thread on its way to it.
NoLostWakeup ==
  \A s \in Sems : queue[s] # <<>> => value[s] <= Cardinality(Woken(s))

\* The carcass of a finished thread is deleted by the next thread to run and
\* before that thread enables interrupts, so that ASSERT(toBeDestroyed == NULL)
\* of Scheduler::Run holds at every Finish; and a deleted Thread object is on
\* no list and is not current (no use after delete).
CarcassReaped ==
  /\ Running(currentThread) \/ Idling(currentThread) => toBeDestroyed = NoThread
  /\ \A t \in Threads : status[t] = "DELETED" \/ t = toBeDestroyed =>
       /\ t # currentThread
       /\ t \notin Range(readyList)
       /\ \A s \in Sems : t \notin Range(queue[s])

\* The semaphores implement the abstract ones: a thread leaves P() only by
\* taking one unit of a value that was not zero, in whatever order the
\* dispatcher and the interrupts run.
Abstract == INSTANCE AbstractSemaphore WITH
              inside <- [s \in Sems |-> {t \in Threads : sem[t] = s}]
ImplementsSemaphore == Abstract!Spec

\* A thread on the ready list runs: the timer makes the others yield.
ReadyRuns == \A t \in Threads : status[t] = "READY" ~> status[t] = "RUNNING"

\* A semaphore with units and with threads inside P() does not stay so: some
\* thread takes the units, or no thread is left inside.
UnitsAreTaken ==
  \A s \in Sems : (value[s] # 0 /\ \E t \in Threads : sem[t] = s)
                    ~> (value[s] = 0 \/ \A t \in Threads : sem[t] # s)
=============================================================================
