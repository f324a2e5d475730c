------------------------------- MODULE Switch --------------------------------
(***************************************************************************)
(* The kernel's own context of a thread: the registers and the stack, how  *)
(* SWITCH and ThreadRoot of threads/switch.S (x86) move them, and how      *)
(* Thread::StackAllocate (threads/thread.cc) makes up those of a thread    *)
(* that has never run.                                                     *)
(*                                                                         *)
(* A stack is the sequence of its words from the bottom; a stack pointer   *)
(* is known by the thread to whose stack it points, for it points to the   *)
(* last word.  What a thread leaves behind on its stack between two calls  *)
(* of SWITCH is its own affair and left out.                               *)
(***************************************************************************)
EXTENDS Integers, Sequences, SequencesExt

CONSTANT Procs           \* the threads

VARIABLES
  cpuRegs,       \* the host's registers
  machineState,  \* Thread::stackTop and Thread::machineState
  stack          \* Thread::stack

switchVars == <<cpuRegs, machineState, stack>>

\* Words: the address of a function, an argument, a place in a stack.
Code(f) == <<"code", f>>
Arg(x) == <<"arg", x>>
Esp(p) == <<"esp", p>>
NULL == Code("NULL")

Registers == {"eax", "ebx", "ecx", "edx", "ebp", "esi", "edi", "esp"}
Slots == Registers \cup {"pc"}
CallerSaved == {"eax", "ecx", "edx"}

\* Registers that some other kernel thread has.
Others == [r \in Registers |-> NULL]

\* Thread::Thread.
NoState == [r \in Slots |-> NULL]

\* Thread::StackAllocate.  Of the 16 words left free above the first one used,
\* SWITCH writes to one.
StackAllocate(p, func, arg) ==
  /\ machineState' = [machineState EXCEPT ![p] =
                        [NoState EXCEPT !.esp = Esp(p), !.pc = Code("ThreadRoot"),
                                        !.ecx = Code("Begin"), !.esi = Code(func),
                                        !.edx = Arg(arg), !.edi = Code("Finish")]]
  /\ stack' = [stack EXCEPT ![p] = <<NULL, Code("ThreadRoot")>>]
  /\ UNCHANGED cpuRegs

\* The first half of SWITCH(p, other), up to the load of the second argument:
\* the caller has pushed both arguments and its return address.
SwitchFrom(p) ==
  /\ machineState' = [machineState EXCEPT ![p] =
                        [r \in Slots |-> IF r = "pc" THEN Code("Run") ELSE cpuRegs[r]]]
  /\ stack' = [stack EXCEPT ![p] = @ \o <<NULL, Esp(p), Code("Run")>>]
  /\ cpuRegs' = Others

\* The other half, SWITCH(other, q): the registers are q's, the saved return
\* address is written over 4(esp), the first argument of the SWITCH that q once
\* called, and ret goes to 0(esp).
Restored(q) == [r \in Registers |-> machineState[q][r]]
Returned(q) ==
  LET s == stack[q]
  IN  Front(ReplaceAt(s, Len(s) - 1, machineState[q].pc))
Target(q) == Last(stack[q])

\* ThreadRoot pushes ebp and the argument and calls Begin and then the thread's
\* function, which finds the argument on the stack: Begin need not preserve the
\* register that held it.
ThreadRoot(q) ==
  [stack |-> Returned(q) \o <<Restored(q).ebp, Restored(q).edx>>,
   regs  |-> [r \in Registers |-> IF r \in CallerSaved THEN NULL
                                  ELSE IF r = "ebp" THEN Restored(q).esp
                                  ELSE Restored(q)[r]]]

\* Scheduler::Run goes on in q and takes its two arguments from the stack.
Resumed(q) ==
  [stack |-> SubSeq(Returned(q), 1, Len(Returned(q)) - 2), regs |-> Restored(q)]

\* q gets the CPU; the threads that are gone are deleted.
SwitchTo(q, gone) ==
  LET next == IF Target(q) = Code("ThreadRoot") THEN ThreadRoot(q) ELSE Resumed(q)
  IN  /\ machineState' = [p \in Procs |-> IF p \in gone THEN NoState ELSE machineState[p]]
      /\ stack' = [p \in Procs |-> IF p = q THEN next.stack
                                   ELSE IF p \in gone THEN <<>> ELSE stack[p]]
      /\ cpuRegs' = next.regs

SwitchInit ==
  /\ cpuRegs = Others
  /\ machineState = [p \in Procs |-> NoState]
  /\ stack = [p \in Procs |-> <<>>]

\* The argument of the function that ThreadRoot has called in p.
Argument(p) == Last(stack[p])[2]

\* What ThreadRoot calls when that function returns.
WhenDone == cpuRegs["edi"]
=============================================================================
