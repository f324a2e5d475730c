---------------------------- MODULE ProcessTable ----------------------------
(***************************************************************************)
(* Processes: PTable (threads/ptable.cc), PCB (threads/pcb.cc) and the     *)
(* handlers of SC_Exec, SC_ExecV, SC_Join, SC_Exit and SC_Halt             *)
(* (userprog/exception.cc).                                                *)
(*                                                                         *)
(* One user thread per process.  Semaphores are those of AbstractSemaphore; *)
(* a thread may lose the CPU at the end of every P(), V() and Fork() and   *)
(* anywhere in user code, so what the kernel does between two of these is  *)
(* one action.  A process is its pid, an index into pcb[].                 *)
(***************************************************************************)
EXTENDS Integers, FiniteSets, FiniteSetsExt

CONSTANTS MAX_PROCESS,  \* size of the table
          ExitCodes     \* the arguments of Exit

ASSUME SizeAssumption == MAX_PROCESS \in Nat \ {0}
ASSUME CodesAssumption == ExitCodes \subseteq Int

Pids == 0 .. MAX_PROCESS - 1
None == -1

VARIABLES
  parentID,  \* PCB::parentID; None while pcb[pid] is NULL and bm's bit is clear
  bmsem,     \* PTable::bmsem
  joinsem,   \* PCB::joinsem, V'ed by the process, P'ed by its parent
  exitsem,   \* PCB::exitsem, V'ed by the process, P'ed by its children
  multex,    \* PCB::multex
  numwait,   \* PCB::numwait
  exitcode,  \* PCB::exitcode
  pc,        \* where the process's thread is
  arg,       \* the pid an Exec or Join under way is about
  ret,       \* register 2: what the last system call returned
  halted     \* the machine has stopped

vars == <<parentID, bmsem, joinsem, exitsem, multex, numwait, exitcode, pc, arg,
          ret, halted>>

sems == <<bmsem, joinsem, exitsem, multex>>

(* pc: "none"      no thread                                               *)
(*     "loading"   forked, RunProcess is to load the program               *)
(*     "user"      in user mode                                            *)
(*     "exec", "exec_new"    before and after bmsem->P() in ExecUpdate     *)
(*     "exec_multex", "exec_fork", "exec_v"   in PCB::Exec: before         *)
(*                 multex->P(), after it, and after Fork()                 *)
(*     "join_wait", "join_inc", "join_num", "join_rel"   in JoinUpdate:    *)
(*                 before JoinWait, before and inside the critical section *)
(*                 of IncNumWait, before ExitRelease                       *)
(*     "exit_dec", "exit_num", "exit_wait"   in ExitUpdate: before and     *)
(*                 inside the critical section of DecNumWait, before       *)
(*                 ExitWait                                                *)
(*     "exit_fin"  past ExitUpdate, about to Finish()                      *)
(*     "finished"  the thread is gone after Exit                           *)
(*     "failed"    the thread is gone because Load failed                  *)
PC == {"none", "loading", "user", "exec", "exec_new", "exec_multex", "exec_fork",
       "exec_v", "join_wait", "join_inc", "join_num", "join_rel", "exit_dec",
       "exit_num", "exit_wait", "exit_fin", "finished", "failed"}

\* PTable::PTable, and main's initial program as process 0.
Init ==
  /\ parentID = [i \in Pids |-> IF i = 0 THEN 0 ELSE None]
  /\ bmsem = 1
  /\ joinsem = [i \in Pids |-> 0]
  /\ exitsem = [i \in Pids |-> 0]
  /\ multex = [i \in Pids |-> 1]
  /\ numwait = [i \in Pids |-> 0]
  /\ exitcode = [i \in Pids |-> 0]
  /\ pc = [i \in Pids |-> IF i = 0 THEN "user" ELSE "none"]
  /\ arg = [i \in Pids |-> None]
  /\ ret = [i \in Pids |-> 0]
  /\ halted = FALSE

At(p, l) == ~halted /\ pc[p] = l
Goto(p, l) == pc' = [pc EXCEPT ![p] = l]

\* WriteRegister(2, v), PCIncrease() and back to user mode.
Return(p, v) == /\ Goto(p, "user")
                /\ ret' = [ret EXCEPT ![p] = v]
                /\ arg' = [arg EXCEPT ![p] = None]

P(sem, i) == sem[i] # 0 /\ sem' = [sem EXCEPT ![i] = @ - 1]
V(sem, i) == sem' = [sem EXCEPT ![i] = @ + 1]

-----------------------------------------------------------------------------
(* Exec and ExecV. *)

\* handle_SC_Exec cannot open the file (SC_ExecV has no such test).
ExecMissing(p) ==
  /\ At(p, "user")
  /\ Return(p, -1)
  /\ UNCHANGED <<parentID, sems, numwait, exitcode, halted>>

ExecCall(p) ==
  /\ At(p, "user")
  /\ Goto(p, "exec")
  /\ UNCHANGED <<parentID, sems, numwait, exitcode, arg, ret, halted>>

ExecLock(p) ==
  /\ At(p, "exec")
  /\ bmsem # 0
  /\ bmsem' = bmsem - 1
  /\ Goto(p, "exec_new")
  /\ UNCHANGED <<parentID, joinsem, exitsem, multex, numwait, exitcode, arg, ret, halted>>

\* bm->FindAndSet(): the lowest clear bit, -1 if there is none.
Free == {i \in Pids : parentID[i] = None}
FindAndSet == IF Free = {} THEN -1 ELSE Min(Free)

\* ExecUpdate with the table full.
ExecFull(p) ==
  /\ At(p, "exec_new")
  /\ FindAndSet = -1
  /\ bmsem' = bmsem + 1
  /\ Return(p, -1)
  /\ UNCHANGED <<parentID, joinsem, exitsem, multex, numwait, exitcode, halted>>

\* Mutant of NewPCB: joinsem starts at 1.
NewPCBJoinable(p, c) ==
  /\ parentID' = [parentID EXCEPT ![c] = p]
  /\ joinsem' = [joinsem EXCEPT ![c] = 1]
  /\ exitsem' = [exitsem EXCEPT ![c] = 0]
  /\ multex' = [multex EXCEPT ![c] = 1]
  /\ numwait' = [numwait EXCEPT ![c] = 0]
  /\ exitcode' = [exitcode EXCEPT ![c] = 0]

\* pcb[c] = new PCB(p, c).
NewPCB(p, c) ==
  /\ parentID' = [parentID EXCEPT ![c] = p]
  /\ joinsem' = [joinsem EXCEPT ![c] = 0]
  /\ exitsem' = [exitsem EXCEPT ![c] = 0]
  /\ multex' = [multex EXCEPT ![c] = 1]
  /\ numwait' = [numwait EXCEPT ![c] = 0]
  /\ exitcode' = [exitcode EXCEPT ![c] = 0]

\* ExecUpdate finds a free slot: a new PCB goes there, then bmsem->V().
ExecNew(p) ==
  /\ At(p, "exec_new")
  /\ FindAndSet # -1
  /\ NewPCB(p, FindAndSet)
  /\ arg' = [arg EXCEPT ![p] = FindAndSet]
  /\ bmsem' = bmsem + 1
  /\ Goto(p, "exec_multex")
  /\ UNCHANGED <<ret, halted>>

\* multex->P() in PCB::Exec.  Its filename is NULL, the PCB being new.
ExecMultex(p) ==
  /\ At(p, "exec_multex")
  /\ P(multex, arg[p])
  /\ Goto(p, "exec_fork")
  /\ UNCHANGED <<parentID, bmsem, joinsem, exitsem, numwait, exitcode, arg, ret, halted>>

\* The new thread is forked on RunProcess; it may run before Exec returns.
ExecFork(p) ==
  /\ At(p, "exec_fork")
  /\ pc' = [pc EXCEPT ![p] = "exec_v", ![arg[p]] = "loading"]
  /\ UNCHANGED <<parentID, sems, numwait, exitcode, arg, ret, halted>>

\* Mutant of ExecV: PCB::Exec returns without multex->V().
ExecVForgotten(p) ==
  /\ At(p, "exec_v")
  /\ Return(p, arg[p])
  /\ UNCHANGED <<parentID, sems, numwait, exitcode, halted>>

\* multex->V(), and Exec returns the child's pid.
ExecV(p) ==
  /\ At(p, "exec_v")
  /\ V(multex, arg[p])
  /\ Return(p, arg[p])
  /\ UNCHANGED <<parentID, bmsem, joinsem, exitsem, numwait, exitcode, halted>>

\* RunProcess: Load succeeds and the program runs, or it fails (no such file,
\* no file slot left) and the thread finishes without ExitUpdate.
LoadOk(p) ==
  /\ At(p, "loading")
  /\ Goto(p, "user")
  /\ UNCHANGED <<parentID, sems, numwait, exitcode, arg, ret, halted>>

LoadFails(p) ==
  /\ At(p, "loading")
  /\ Goto(p, "failed")
  /\ UNCHANGED <<parentID, sems, numwait, exitcode, arg, ret, halted>>

-----------------------------------------------------------------------------
(* Join. *)

\* Not a child of the caller.
JoinRefused(p, c) ==
  /\ At(p, "user")
  /\ parentID[c] # p
  /\ Return(p, -1)
  /\ UNCHANGED <<parentID, sems, numwait, exitcode, halted>>

JoinCall(p, c) ==
  /\ At(p, "user")
  /\ parentID[c] = p
  /\ arg' = [arg EXCEPT ![p] = c]
  /\ Goto(p, "join_wait")
  /\ UNCHANGED <<parentID, sems, numwait, exitcode, ret, halted>>

JoinWait(p) ==
  /\ At(p, "join_wait")
  /\ P(joinsem, arg[p])
  /\ Goto(p, "join_inc")
  /\ UNCHANGED <<parentID, bmsem, exitsem, multex, numwait, exitcode, arg, ret, halted>>

\* IncNumWait of the caller's own PCB.
JoinMultex(p) ==
  /\ At(p, "join_inc")
  /\ P(multex, p)
  /\ Goto(p, "join_num")
  /\ UNCHANGED <<parentID, bmsem, joinsem, exitsem, numwait, exitcode, arg, ret, halted>>

IncNumWait(p) ==
  /\ At(p, "join_num")
  /\ numwait' = [numwait EXCEPT ![p] = @ + 1]
  /\ V(multex, p)
  /\ Goto(p, "join_rel")
  /\ UNCHANGED <<parentID, bmsem, joinsem, exitsem, exitcode, arg, ret, halted>>

\* Mutant of JoinRelease: the child's exitsem is V'ed, not the parent's.
ReleaseChild(p) ==
  /\ At(p, "join_rel")
  /\ V(exitsem, arg[p])
  /\ Return(p, 0)
  /\ UNCHANGED <<parentID, bmsem, joinsem, multex, numwait, exitcode, halted>>

\* pcb[parentID]->ExitRelease(), and Join returns 0.
JoinRelease(p) ==
  /\ At(p, "join_rel")
  /\ V(exitsem, p)
  /\ Return(p, 0)
  /\ UNCHANGED <<parentID, bmsem, joinsem, multex, numwait, exitcode, halted>>

-----------------------------------------------------------------------------
(* Exit and Halt. *)

\* The machine stops: SysHalt() by SC_Halt of any process or SC_Exit of process
\* 0, or the abort at the end of ExceptionHandler for what it does not handle.
Halt(p) ==
  /\ At(p, "user")
  /\ halted' = TRUE
  /\ UNCHANGED <<parentID, sems, numwait, exitcode, pc, arg, ret>>

\* ExitUpdate: SetExitCode, and joinsem->V() of the process itself.
ExitCall(p, ec) ==
  /\ At(p, "user")
  /\ p # 0
  /\ exitcode' = [exitcode EXCEPT ![p] = ec]
  /\ V(joinsem, p)
  /\ Goto(p, "exit_dec")
  /\ UNCHANGED <<parentID, bmsem, exitsem, multex, numwait, arg, ret, halted>>

\* DecNumWait of the parent's PCB.
ExitMultex(p) ==
  /\ At(p, "exit_dec")
  /\ P(multex, parentID[p])
  /\ Goto(p, "exit_num")
  /\ UNCHANGED <<parentID, bmsem, joinsem, exitsem, numwait, exitcode, arg, ret, halted>>

\* Mutant of DecNumWait: the process's own counter and semaphore are used.
DecOwnNumWait(p) ==
  /\ At(p, "exit_num")
  /\ numwait' = [numwait EXCEPT ![p] = @ - 1]
  /\ V(multex, parentID[p])
  /\ Goto(p, "exit_wait")
  /\ UNCHANGED <<parentID, bmsem, joinsem, exitsem, exitcode, arg, ret, halted>>

DecNumWait(p) ==
  /\ At(p, "exit_num")
  /\ numwait' = [numwait EXCEPT ![parentID[p]] = @ - 1]
  /\ V(multex, parentID[p])
  /\ Goto(p, "exit_wait")
  /\ UNCHANGED <<parentID, bmsem, joinsem, exitsem, exitcode, arg, ret, halted>>

\* Mutant of ExitWait: the process does not wait for its parent's V().
ExitNoWait(p) ==
  /\ At(p, "exit_wait")
  /\ Goto(p, "exit_fin")
  /\ UNCHANGED <<parentID, sems, numwait, exitcode, arg, ret, halted>>

\* pcb[parentID]->ExitWait(): any child of the parent may take the unit.
ExitWait(p) ==
  /\ At(p, "exit_wait")
  /\ P(exitsem, parentID[p])
  /\ Goto(p, "exit_fin")
  /\ UNCHANGED <<parentID, bmsem, joinsem, multex, numwait, exitcode, arg, ret, halted>>

\* Mutant of Finish: the three lines ExitUpdate has commented out, which free
\* the PCB and the pid.
FinishFreesPid(p) ==
  /\ At(p, "exit_fin")
  /\ parentID' = [parentID EXCEPT ![p] = None]
  /\ Goto(p, "finished")
  /\ UNCHANGED <<sems, numwait, exitcode, arg, ret, halted>>

\* currentThread->Finish().  The PCB and its bit in bm stay.
Finish(p) ==
  /\ At(p, "exit_fin")
  /\ Goto(p, "finished")
  /\ UNCHANGED <<parentID, sems, numwait, exitcode, arg, ret, halted>>

-----------------------------------------------------------------------------
\* The kernel's own steps, which need nothing from the user program.
Kernel(p) ==
  \/ ExecLock(p) \/ ExecFull(p) \/ ExecNew(p) \/ ExecMultex(p) \/ ExecFork(p)
  \/ ExecV(p) \/ LoadOk(p) \/ LoadFails(p)
  \/ JoinWait(p) \/ JoinMultex(p) \/ IncNumWait(p) \/ JoinRelease(p)
  \/ ExitMultex(p) \/ DecNumWait(p) \/ ExitWait(p) \/ Finish(p)

Next ==
  \E p \in Pids :
    \/ ExecMissing(p) \/ ExecCall(p) \/ Halt(p)
    \/ \E c \in Pids : JoinRefused(p, c) \/ JoinCall(p, c)
    \/ \E ec \in ExitCodes : ExitCall(p, ec)
    \/ Kernel(p)

Spec == Init /\ [][Next]_vars

\* A thread in the kernel that can go on does (module Synch: ReadyRuns,
\* UnitsAreTaken).  A user program need not make any system call.
FairSpec == Spec /\ \A p \in Pids : WF_vars(Kernel(p))

-----------------------------------------------------------------------------
(* Properties. *)

Sem == 0 .. MAX_PROCESS

TypeOK ==
  /\ parentID \in [Pids -> Pids \cup {None}]
  /\ bmsem \in {0, 1}
  /\ joinsem \in [Pids -> {0, 1}]
  /\ exitsem \in [Pids -> Sem]
  /\ multex \in [Pids -> {0, 1}]
  /\ numwait \in [Pids -> -MAX_PROCESS .. MAX_PROCESS]
  /\ exitcode \in [Pids -> ExitCodes \cup {0}]
  /\ pc \in [Pids -> PC]
  /\ arg \in [Pids -> Pids \cup {None}]
  /\ ret \in [Pids -> -1 .. MAX_PROCESS - 1]
  /\ halted \in BOOLEAN

Children(p) == {c \in Pids \ {0} : parentID[c] = p}
\* Processes that have called Exit, and those that may finish.
Exited == {c \in Pids : pc[c] \in {"exit_dec", "exit_num", "exit_wait", "exit_fin", "finished"}}
Released == {c \in Pids : pc[c] \in {"exit_fin", "finished"}}
\* Exited processes whose notice was taken by a Join.
Joined == {c \in Exited : joinsem[c] = 0}

\* A Join gets past JoinWait only once the child it names has called Exit, and
\* each exit serves one Join.
JoinAfterExit ==
  /\ \A c \in Pids : joinsem[c] # 0 => c \in Exited
  /\ \A p \in Pids : pc[p] \in {"join_inc", "join_num", "join_rel"} => arg[p] \in Joined

\* exitsem is shared by all the children of a process, so the child that Join
\* lets go need not be the one that was joined.  Counted over the children it
\* is exact: one release for each Join, none made up and none lost.
ReleasePerJoin ==
  \A p \in Pids :
    Cardinality(Children(p) \cap Joined)
      = Cardinality(Children(p) \cap Released) + exitsem[p]
        + (IF pc[p] \in {"join_inc", "join_num", "join_rel"} THEN 1 ELSE 0)

\* No update of numwait is lost between a parent that joins, children that
\* exit and a grandparent still in PCB::Exec: numwait is the number of joins
\* less the number of exits.
NumWaitExact ==
  \A p \in Pids :
    numwait[p] = Cardinality(Children(p) \cap Joined)
                 - (IF pc[p] \in {"join_inc", "join_num"} THEN 1 ELSE 0)
                 - Cardinality({c \in Children(p) : pc[c] \in {"exit_wait", "exit_fin", "finished"}})

\* A pid names one process for the life of the machine: a Join made late, or
\* an exit whose parent is gone, never meets another process's PCB.
PidForever ==
  [][\A c \in Pids : parentID[c] # None => parentID'[c] = parentID[c]]_vars

\* A Join of a child that has exited and was not joined before returns,
\* although the parent still needs its own multex, which its other children
\* and its own parent's Exec take.
JoinReturns ==
  \A p \in Pids : (pc[p] = "join_wait" /\ joinsem[arg[p]] # 0) ~> (pc[p] = "user" \/ halted)

\* A release is never left on exitsem: some child is there to take it and go.
ReleaseIsTaken == \A p \in Pids : exitsem[p] # 0 ~> (exitsem[p] = 0 \/ halted)
=============================================================================
