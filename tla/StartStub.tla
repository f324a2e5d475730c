----------------------------- MODULE StartStub -------------------------------
(***************************************************************************)
(* test/start.S, which is linked before every user program: __start calls  *)
(* main and then Exit(0), and one stub for each system call.  A text is a  *)
(* sequence of instructions of Mips, the first one at address 0.  Behind a *)
(* jump the assembler puts a nop.                                          *)
(***************************************************************************)
EXTENDS Integers, Sequences, SequencesExt

CONSTANTS SC_Exit,  \* the number of the system call
          Stubs     \* the numbers of the system calls, in the order of start.S

Instr(op, rs, rt, rd, extra) ==
  [op |-> op, rs |-> rs, rt |-> rt, rd |-> rd, extra |-> extra]
Nop == Instr("SLL", 0, 0, 0, 0)

\* Mutant of Stub: the number goes into the register of the first argument.
StubIn4(sc) ==
  <<Instr("ADDIU", 0, 4, 0, sc), Instr("SYSCALL", 0, 0, 0, 0),
    Instr("JR", 31, 0, 0, 0), Nop>>

\* A stub: the number into register 2, the trap, and back to the caller.
Stub(sc) ==
  <<Instr("ADDIU", 0, 2, 0, sc), Instr("SYSCALL", 0, 0, 0, 0),
    Instr("JR", 31, 0, 0, 0), Nop>>

\* The place of a stub behind __start, counted in instructions.
StubAt(k) == 5 + 4 * (k - 1)
MainAt == StubAt(Len(Stubs) + 1)
ExitAt == StubAt(CHOOSE k \in 1 .. Len(Stubs) : Stubs[k] = SC_Exit)

\* __start.
Start ==
  <<Instr("JAL", 0, 0, 0, MainAt), Nop,
    Instr("ADDU", 0, 0, 4, 0),
    Instr("JAL", 0, 0, 0, ExitAt), Nop>>

\* A main that keeps its return address, loads two arguments from the first
\* words of memory, the second one in the delay slot of the call, calls the
\* stub number k and returns.
Main(k) ==
  <<Instr("ADDU", 31, 0, 1, 0),
    Instr("LW", 0, 4, 0, 0),
    Instr("JAL", 0, 0, 0, StubAt(k)),
    Instr("LW", 0, 5, 0, 4),
    Instr("JR", 1, 0, 0, 0), Nop>>

Text(k) == Start \o FlattenSeq([j \in 1 .. Len(Stubs) |-> Stub(Stubs[j])]) \o Main(k)
=============================================================================
