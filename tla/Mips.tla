-------------------------------- MODULE Mips ---------------------------------
(***************************************************************************)
(* The MIPS simulator: Machine::OneInstruction, DelayedLoad and Mult       *)
(* (machine/mipssim.cc), Machine::ReadMem and WriteMem for one page table  *)
(* (machine/translate.cc), the part of Machine::RaiseException and of the  *)
(* system call handler that touches the registers, and the timer interrupt *)
(* between two instructions.                                               *)
(*                                                                         *)
(* The machine has 32-bit words; here a word has 4 * ByteBits bits and the *)
(* masks and shift counts of the code are scaled alike.  Instructions are  *)
(* records of the decoded fields; which one is at pc is left open, or it   *)
(* is that of a program linked with start.S.  Of the 32 registers six are  *)
(* kept.  Fuel bounds the instructions executed.                           *)
(***************************************************************************)
EXTENDS Integers, FiniteSets, Bitwise, SequencesExt, StartStub

CONSTANTS ByteBits,  \* bits of a byte
          MemSize,   \* bytes of the program's address space
          SC_Add,    \* the number of the system call that adds
          Handled,   \* the numbers of the other system calls with a handler
          Results,   \* words their handlers may return
          Instrs,    \* the instructions of the programs
          Values,    \* words the program may have in registers 1 and 4
          Contents,  \* what the memory may hold
          Fuel,      \* instructions of a program that is left open
          TextFuel   \* instructions of a program with start.S

ASSUME SizesAssumption == 
  /\ ByteBits \in Nat \ {0}
  /\ {MemSize, Fuel, TextFuel} \subseteq Nat

VARIABLES
  registers,            \* the general registers
  hi, lo,               \* HiReg and LoReg
  pc, nextPC,           \* PCReg and NextPCReg
  loadReg, loadValue,   \* LoadReg and LoadValueReg: the load still to be done
  memory,               \* bytes
  status,               \* "running", "halted", "exited", "dead" (an ASSERT)
  prog,                 \* the stub the program calls, 0 when it is left open
  ins,                  \* the last instruction, for the refinement
  fuel

vars == <<registers, hi, lo, pc, nextPC, loadReg, loadValue, memory, status, prog, ins, fuel>>

GenRegs == {0, 1, 2, 4, 5, 31}
R31 == 31
W == 2 ^ (4 * ByteBits)
Bits == 4 * ByteBits
Mask(n) == 2 ^ (n * ByteBits) - 1        \* the low n bytes
SIGN_BIT == W \div 2

\* Conversions of C: to int, from a result to 32 bits, ~, << and >> on int.
Signed(x) == IF (x & SIGN_BIT) # 0 THEN x - W ELSE x
Wrap(n) == n % W
Neg(x) == W - 1 - x
Shl(x, n) == Wrap(x * 2 ^ n)
Sar(x, n) == Wrap(Signed(x) \div 2 ^ n)
IndexToAddr(x) == Shl(x, 2)

\* Instruction::Decode: the immediate of the I format is sign-extended, the
\* shift count of the R format and the target of the J format are not.
RorJFormat == {"SLL", "SRL", "SRA", "J", "JAL"}
Extra(i) ==
  IF i.op \notin RorJFormat /\ (i.extra & ((Mask(2) + 1) \div 2)) # 0
  THEN i.extra | (W - 1 - Mask(2))
  ELSE i.extra

-----------------------------------------------------------------------------
(* Machine::ReadMem and WriteMem.  Translate refuses an address that is not  *)
(* a multiple of the size and one outside the page table.                    *)

Translates(addr, size) == addr % size = 0 /\ addr < MemSize

\* A byte is read through a char, which is signed.
ReadMem(addr, size) ==
  CASE size = 1 -> IF memory[addr] > Mask(1) \div 2
                   THEN memory[addr] | (W - 1 - Mask(1)) ELSE memory[addr]
    [] size = 2 -> memory[addr] | Shl(memory[addr + 1], ByteBits)
    [] size = 4 -> memory[addr] | Shl(memory[addr + 1], ByteBits)
                     | Shl(memory[addr + 2], 2 * ByteBits)
                     | Shl(memory[addr + 3], 3 * ByteBits)

WriteMem(addr, size, value) ==
  memory' = [a \in DOMAIN memory |->
               IF a \in addr .. addr + size - 1
               THEN Sar(value, (a - addr) * ByteBits) & Mask(1)
               ELSE memory[a]]

-----------------------------------------------------------------------------
(* Committing an instruction *)

\* Machine::DelayedLoad, on the registers the instruction leaves.
DelayedLoad(regs, nextReg, nextValue) ==
  /\ registers' = [[regs EXCEPT ![loadReg] = loadValue] EXCEPT ![0] = 0]
  /\ loadReg' = nextReg
  /\ loadValue' = nextValue

\* The end of OneInstruction: the pending load, then the program counters.
Commit(regs, nextReg, nextValue, pcAfter) ==
  /\ DelayedLoad(regs, nextReg, nextValue)
  /\ pc' = nextPC
  /\ nextPC' = pcAfter
  /\ UNCHANGED status

PcAfter == Wrap(nextPC + 4)

\* Every exception but a system call ends in ASSERTNOTREACHED.
RaiseException ==
  /\ DelayedLoad(registers, 0, 0)
  /\ status' = "dead"
  /\ UNCHANGED <<hi, lo, pc, nextPC, memory>>

-----------------------------------------------------------------------------
(* Arithmetic and logic *)

Rs(i) == registers[i.rs]
Rt(i) == registers[i.rt]

SameSign(x, y) == ((x ^^ y) & SIGN_BIT) = 0

\* The tests of ADD, ADDI and SUB before they write the result.
Overflows(i) ==
  \/ /\ i.op = "ADD"
     /\ SameSign(Rs(i), Rt(i)) /\ ~SameSign(Rs(i), Wrap(Rs(i) + Rt(i)))
  \/ /\ i.op = "ADDI"
     /\ SameSign(Rs(i), Extra(i)) /\ ~SameSign(Extra(i), Wrap(Rs(i) + Extra(i)))
  \/ /\ i.op = "SUB"
     /\ ~SameSign(Rs(i), Rt(i)) /\ ~SameSign(Rs(i), Wrap(Rs(i) - Rt(i)))

Less(x, y) == IF x < y THEN 1 ELSE 0

\* SRL and SRLV shift an int, so the sign comes in from the left.
RegResult(i) ==
  LET rs == Rs(i)
      rt == Rt(i)
      count == rs % Bits
  IN  CASE i.op \in {"ADD", "ADDU"} -> Wrap(rs + rt)
        [] i.op \in {"SUB", "SUBU"} -> Wrap(rs - rt)
        [] i.op = "AND" -> rs & rt
        [] i.op = "OR" -> rs | rt
        [] i.op = "XOR" -> rs ^^ rt
        [] i.op = "NOR" -> Neg(rs | rt)
        [] i.op = "SLL" -> Shl(rt, Extra(i))
        [] i.op = "SLLV" -> Shl(rt, count)
        [] i.op \in {"SRA", "SRL"} -> Sar(rt, Extra(i))
        [] i.op \in {"SRAV", "SRLV"} -> Sar(rt, count)
        [] i.op = "SLT" -> Less(Signed(rs), Signed(rt))
        [] i.op = "SLTU" -> Less(rs, rt)
        [] i.op = "MFHI" -> hi
        [] i.op = "MFLO" -> lo

ImmResult(i) ==
  LET rs == Rs(i)
      low == Extra(i) & Mask(2)
  IN  CASE i.op \in {"ADDI", "ADDIU"} -> Wrap(rs + Extra(i))
        [] i.op = "ANDI" -> rs & low
        [] i.op = "ORI" -> rs | low
        [] i.op = "XORI" -> rs ^^ low
        [] i.op = "LUI" -> Shl(Extra(i), 2 * ByteBits)
        [] i.op = "SLTI" -> Less(Signed(rs), Signed(Extra(i)))
        [] i.op = "SLTIU" -> Less(rs, Extra(i))

ToRd == {"ADD", "ADDU", "SUB", "SUBU", "AND", "OR", "XOR", "NOR", "SLL", "SLLV",
         "SRA", "SRAV", "SRL", "SRLV", "SLT", "SLTU", "MFHI", "MFLO"}
ToRt == {"ADDI", "ADDIU", "ANDI", "ORI", "XORI", "LUI", "SLTI", "SLTIU"}

Arith(i) ==
  /\ i.op \in ToRd \cup ToRt /\ ~Overflows(i)
  /\ IF i.op \in ToRd
     THEN Commit([registers EXCEPT ![i.rd] = RegResult(i)], 0, 0, PcAfter)
     ELSE Commit([registers EXCEPT ![i.rt] = ImmResult(i)], 0, 0, PcAfter)
  /\ UNCHANGED <<hi, lo, memory>>

Overflow(i) == Overflows(i) /\ RaiseException

-----------------------------------------------------------------------------
(* Multiplication and division *)

\* One turn of the loop in Mult, with the int a and the double words in halves.
MultStep(s) ==
  IF s.done THEN s ELSE
  LET odd == s.a & 1 = 1
      lo1 == IF odd THEN Wrap(s.lo + s.bLo) ELSE s.lo
      hi1 == IF odd THEN Wrap(s.hi + s.bHi + (IF lo1 < s.bLo THEN 1 ELSE 0))
             ELSE s.hi
  IN  IF odd /\ (s.a & (W - 2)) = 0
      THEN [s EXCEPT !.lo = lo1, !.hi = hi1, !.done = TRUE]
      ELSE [a |-> Sar(s.a, 1), lo |-> lo1, hi |-> hi1,
            bLo |-> Shl(s.bLo, 1),
            bHi |-> Shl(s.bHi, 1) | (IF s.bLo >= SIGN_BIT THEN 1 ELSE 0),
            done |-> FALSE]

\* Mult: the sign apart, then shift and add, then two's complement of the pair.
Mult(a, b, signedArith) ==
  IF a = 0 \/ b = 0 THEN <<0, 0>> ELSE
  LET minus(x) == signedArith /\ Signed(x) < 0
      abs(x) == IF minus(x) THEN Wrap(-x) ELSE x
      r == FoldLeft(LAMBDA s, n : MultStep(s),
                    [a |-> abs(a), lo |-> 0, hi |-> 0, bLo |-> abs(b), bHi |-> 0,
                     done |-> FALSE],
                    [n \in 1 .. Bits |-> n])
      negLo == Wrap(Neg(r.lo) + 1)
  IN  IF minus(a) = minus(b) THEN <<r.hi, r.lo>>
      ELSE <<Wrap(Neg(r.hi) + (IF negLo = 0 THEN 1 ELSE 0)), negLo>>

Multiply(i) ==
  /\ i.op \in {"MULT", "MULTU"}
  /\ LET p == Mult(Rs(i), Rt(i), i.op = "MULT")
     IN  hi' = p[1] /\ lo' = p[2]
  /\ Commit(registers, 0, 0, PcAfter)
  /\ UNCHANGED memory

\* Division of C truncates; the host faults on the one quotient that no int
\* holds, and the simulator with it.
DivFaults(i) == i.op = "DIV" /\ Rs(i) = SIGN_BIT /\ Rt(i) = W - 1

Abs(n) == IF n < 0 THEN -n ELSE n
CDiv(a, b) == IF (a < 0) # (b < 0) THEN -(Abs(a) \div Abs(b)) ELSE Abs(a) \div Abs(b)
CMod(a, b) == IF a < 0 THEN -(Abs(a) % Abs(b)) ELSE Abs(a) % Abs(b)

Divide(i) ==
  /\ i.op \in {"DIV", "DIVU"} /\ ~DivFaults(i)
  /\ LET conv(x) == IF i.op = "DIV" THEN Signed(x) ELSE x
     IN  IF Rt(i) = 0 THEN hi' = 0 /\ lo' = 0
         ELSE /\ lo' = Wrap(CDiv(conv(Rs(i)), conv(Rt(i))))
              /\ hi' = Wrap(CMod(conv(Rs(i)), conv(Rt(i))))
  /\ Commit(registers, 0, 0, PcAfter)
  /\ UNCHANGED memory

DivideFault(i) ==
  /\ DivFaults(i)
  /\ status' = "dead"
  /\ UNCHANGED <<registers, hi, lo, pc, nextPC, loadReg, loadValue, memory>>

MoveTo(i) ==
  /\ \/ i.op = "MTHI" /\ hi' = Rs(i) /\ UNCHANGED lo
     \/ i.op = "MTLO" /\ lo' = Rs(i) /\ UNCHANGED hi
  /\ Commit(registers, 0, 0, PcAfter)
  /\ UNCHANGED memory

-----------------------------------------------------------------------------
(* Branches and jumps *)

Taken(i) ==
  CASE i.op = "BEQ" -> Rs(i) = Rt(i)
    [] i.op = "BNE" -> Rs(i) # Rt(i)
    [] i.op \in {"BGEZ", "BGEZAL"} -> (Rs(i) & SIGN_BIT) = 0
    [] i.op \in {"BLTZ", "BLTZAL"} -> (Rs(i) & SIGN_BIT) # 0
    [] i.op = "BGTZ" -> Signed(Rs(i)) > 0
    [] i.op = "BLEZ" -> Signed(Rs(i)) <= 0

\* BGEZAL and BLTZAL set R31 whether or not they branch.
Branch(i) ==
  /\ i.op \in {"BEQ", "BNE", "BGEZ", "BGEZAL", "BGTZ", "BLEZ", "BLTZ", "BLTZAL"}
  /\ Commit(IF i.op \in {"BGEZAL", "BLTZAL"}
            THEN [registers EXCEPT ![R31] = PcAfter] ELSE registers,
            0, 0,
            IF Taken(i) THEN Wrap(nextPC + IndexToAddr(Extra(i))) ELSE PcAfter)
  /\ UNCHANGED <<hi, lo, memory>>

\* J and JAL keep the top four bits of the program counter.
Jump(i) ==
  /\ \/ /\ i.op \in {"J", "JAL"}
        /\ Commit(IF i.op = "JAL" THEN [registers EXCEPT ![R31] = PcAfter]
                                  ELSE registers,
                  0, 0, (PcAfter & (15 * (W \div 16))) | IndexToAddr(Extra(i)))
     \/ /\ i.op \in {"JR", "JALR"}
        /\ Commit(IF i.op = "JALR" THEN [registers EXCEPT ![i.rd] = PcAfter]
                                   ELSE registers,
                  0, 0, Rs(i))
  /\ UNCHANGED <<hi, lo, memory>>

-----------------------------------------------------------------------------
(* Loads and stores *)

Addr(i) == Wrap(Rs(i) + Extra(i))

SizeOf(op) == CASE op \in {"LB", "LBU", "SB"} -> 1
                [] op \in {"LH", "LHU", "SH"} -> 2
                [] OTHER -> 4

MemOps == {"LB", "LBU", "LH", "LHU", "LW", "LWL", "LWR", "SB", "SH", "SW", "SWL", "SWR"}
Partial == {"LWL", "LWR", "SWL", "SWR"}

\* The address that goes to ReadMem or WriteMem: SIM_FIX aligns the partial ones.
MemAddr(i) == IF i.op \in Partial THEN Addr(i) - (Addr(i) & 3) ELSE Addr(i)

\* LH and LW test the alignment themselves, with the same outcome.
AddressError(i) ==
  /\ i.op \in MemOps /\ ~Translates(MemAddr(i), SizeOf(i.op))
  /\ RaiseException

Load(i) ==
  /\ i.op \in {"LB", "LBU", "LH", "LHU", "LW"} /\ Translates(Addr(i), SizeOf(i.op))
  /\ LET value == ReadMem(Addr(i), SizeOf(i.op))
         n == SizeOf(i.op)
         extends == i.op \in {"LB", "LH"} /\ (value & ((Mask(n) + 1) \div 2)) # 0
     IN  Commit(registers, i.rt,
                IF i.op = "LW" THEN value
                ELSE IF extends THEN value | (W - 1 - Mask(n))
                ELSE value & Mask(n),
                PcAfter)
  /\ UNCHANGED <<hi, lo, memory>>

\* Mutant of Merged: the bytes that stay come from the register although a
\* load into it is pending.
MergedStale(i) == Rt(i)

\* The word LWL and LWR merge into: that of a pending load comes first.
Merged(i) == IF loadReg = i.rt THEN loadValue ELSE Rt(i)

\* LWL and LWR; n is 3 - byte, the case of the switch.
LoadPart(i) ==
  /\ i.op \in {"LWL", "LWR"} /\ Translates(MemAddr(i), 4)
  /\ LET n == 3 - (Addr(i) & 3)
         value == ReadMem(MemAddr(i), 4)
     IN  Commit(registers, i.rt,
                IF i.op = "LWL"
                THEN (Merged(i) & Mask(n)) | Shl(value, n * ByteBits)
                ELSE (Merged(i) & (W - 1 - Mask(n + 1)))
                       | (Sar(value, (3 - n) * ByteBits) & Mask(n + 1)),
                PcAfter)
  /\ UNCHANGED <<hi, lo, memory>>

Store(i) ==
  /\ i.op \in {"SB", "SH", "SW"} /\ Translates(Addr(i), SizeOf(i.op))
  /\ WriteMem(Addr(i), SizeOf(i.op), Rt(i))
  /\ Commit(registers, 0, 0, PcAfter)
  /\ UNCHANGED <<hi, lo>>

\* SWL and SWR read the word, merge and write it back.
StorePart(i) ==
  /\ i.op \in {"SWL", "SWR"} /\ Translates(MemAddr(i), 4)
  /\ LET n == 3 - (Addr(i) & 3)
         value == ReadMem(MemAddr(i), 4)
     IN  WriteMem(MemAddr(i), 4,
                  IF i.op = "SWL"
                  THEN (value & (W - 1 - Mask(4 - n)))
                         | (Sar(Rt(i), n * ByteBits) & Mask(4 - n))
                  ELSE (value & Mask(3 - n)) | Shl(Rt(i), (3 - n) * ByteBits))
  /\ Commit(registers, 0, 0, PcAfter)
  /\ UNCHANGED <<hi, lo>>

-----------------------------------------------------------------------------
(* Into the kernel *)

\* PCIncrease.
PCIncrease == pc' = Wrap(pc + 4) /\ nextPC' = Wrap(pc + 8)

\* What the handler of system call number r[2] may write into register 2.
Answers(r) == IF r[2] = SC_Add THEN {Wrap(r[4] + r[5])} ELSE Results

\* ExceptionHandler does not come back from SysHalt and Exit, and stops in
\* ASSERTNOTREACHED for a number it does not know.
NoReturn(n) == CASE n = 0 -> "halted" [] n = SC_Exit -> "exited" [] OTHER -> "dead"

\* RaiseException finishes the pending load before the handler reads its
\* arguments; a handler writes its result into register 2 and PCIncrease steps
\* over the instruction.
Syscall(i) ==
  /\ i.op = "SYSCALL"
  /\ LET r == [[registers EXCEPT ![loadReg] = loadValue] EXCEPT ![0] = 0]
     IN  /\ loadReg' = 0 /\ loadValue' = 0
         /\ \/ /\ r[2] \in Handled \cup {SC_Add}
               /\ \E v \in Answers(r) : registers' = [r EXCEPT ![2] = v]
               /\ PCIncrease
               /\ UNCHANGED status
            \/ /\ r[2] \notin Handled \cup {SC_Add}
               /\ registers' = r
               /\ status' = NoReturn(r[2])
               /\ UNCHANGED <<pc, nextPC>>
  /\ UNCHANGED <<hi, lo, memory>>

IllegalInstr(i) == i.op \in {"RES", "UNIMP"} /\ RaiseException

\* A fetch from an address that is not a multiple of four.
FetchError == pc % 4 # 0 /\ RaiseException

\* CheckIfDue between two instructions, when an interrupt is due.
Interrupt ==
  /\ status = "running" /\ loadReg # 0
  /\ DelayedLoad(registers, 0, 0)
  /\ UNCHANGED <<hi, lo, pc, nextPC, memory, status, prog, ins, fuel>>

-----------------------------------------------------------------------------
(* What the manual leaves undefined, and compiled programs do not do *)

\* The operands of an instruction, as opStrings prints them.
Operands(op) ==
  CASE op \in {"SLLV", "SRAV", "SRLV"} -> <<"RD", "RT", "RS">>
    [] op \in {"SLL", "SRA", "SRL"} -> <<"RD", "RT", "EXTRA">>
    [] op \in {"MFHI", "MFLO"} -> <<"RD">>
    [] op \in {"ADD", "ADDU", "SUB", "SUBU", "AND", "OR", "XOR", "NOR", "SLT", "SLTU"} ->
         <<"RD", "RS", "RT">>
    [] op = "LUI" -> <<"RT", "EXTRA">>
    [] op \in ToRt \ {"LUI"} -> <<"RT", "RS", "EXTRA">>
    [] op \in MemOps -> <<"RT", "EXTRA", "RS">>
    [] op \in {"BEQ", "BNE"} -> <<"RS", "RT", "EXTRA">>
    [] op \in {"BGEZ", "BGEZAL", "BGTZ", "BLEZ", "BLTZ", "BLTZAL"} -> <<"RS", "EXTRA">>
    [] op \in {"MULT", "MULTU", "DIV", "DIVU"} -> <<"RS", "RT">>
    [] op \in {"MTHI", "MTLO"} -> <<"RS">>
    [] op \in {"JR", "JALR"} -> <<"RD", "RS">>
    [] op \in {"J", "JAL"} -> <<"EXTRA">>
    [] OTHER -> <<>>

TypeToReg(reg, i) ==
  CASE reg = "RS" -> i.rs [] reg = "RT" -> i.rt [] reg = "RD" -> i.rd
    [] reg = "EXTRA" -> i.extra [] OTHER -> -1

\* The registers an instruction takes its operands from: RD is never one, RT
\* is none when the result goes there.
Reads(i) ==
  LET toRt == ToRt \cup {"LB", "LBU", "LH", "LHU", "LW", "LWL", "LWR"}
      sources == {Operands(i.op)[k] : k \in DOMAIN Operands(i.op)} \cap {"RS", "RT"}
  IN  {TypeToReg(reg, i) : reg \in IF i.op \in toRt THEN sources \ {"RT"} ELSE sources}

Writes(i) ==
  CASE i.op \in ToRd \cup {"JALR"} -> {i.rd}
    [] i.op \in ToRt -> {i.rt}
    [] i.op \in {"BGEZAL", "BLTZAL", "JAL"} -> {R31}
    [] OTHER -> {}

\* No use of a register in the delay slot of its load, LWL and LWR apart; no
\* system call in the delay slot of a jump; no link register that is also
\* tested; and, because of SRL and SRLV above, no logical shift of a negative
\* word.
Allowed(i) ==
  /\ loadReg # 0 => loadReg \notin Reads(i) \cup Writes(i)
  /\ i.op = "SYSCALL" => nextPC = Wrap(pc + 4)
  /\ i.op \in {"BGEZAL", "BLTZAL", "JALR"} => i.rs \notin Writes(i)
  /\ i.op \in {"SRL", "SRLV"} => Signed(Rt(i)) >= 0

Execute(i) ==
  \/ Arith(i) \/ Overflow(i)
  \/ Multiply(i) \/ Divide(i) \/ DivideFault(i) \/ MoveTo(i)
  \/ Branch(i) \/ Jump(i)
  \/ Load(i) \/ LoadPart(i) \/ Store(i) \/ StorePart(i) \/ AddressError(i)
  \/ Syscall(i) \/ IllegalInstr(i)

\* What the fetch may find.
Fetched == IF prog = 0 THEN Instrs ELSE {Text(prog)[pc \div 4 + 1]}

\* One turn of the loop of Machine::Run.
OneInstruction(i) ==
  /\ status = "running" /\ fuel > 0 /\ Allowed(i)
  /\ fuel' = fuel - 1 /\ ins' = i /\ UNCHANGED prog
  /\ \/ pc % 4 = 0 /\ Execute(i)
     \/ FetchError

\* A program with start.S begins with the registers AddrSpace::InitRegisters
\* has set, one that is left open anywhere in its course.
Init ==
  /\ prog \in 0 .. Len(Stubs)
  /\ registers \in {[r \in GenRegs |->
                       IF prog # 0 THEN 0
                       ELSE CASE r = 1 -> v1 [] r = 4 -> v4 [] r = 2 -> SC_Add
                              [] OTHER -> 0] : v1, v4 \in Values}
  /\ hi = 0 /\ lo = 0
  /\ pc = 0 /\ nextPC = 4
  /\ loadReg = 0 /\ loadValue = 0
  /\ memory \in Contents
  /\ status = "running"
  /\ ins \in {[op |-> "none", rs |-> 0, rt |-> 0, rd |-> 0, extra |-> 0]}
  /\ fuel = IF prog = 0 THEN Fuel ELSE TextFuel

Next == Interrupt \/ \E i \in Fetched : OneInstruction(i)

Spec == Init /\ [][Next]_vars

-----------------------------------------------------------------------------
(* The refinement: the pending load is done already. *)

Arch == INSTANCE MipsArch WITH
  reg <- [r \in GenRegs |-> IF r = loadReg /\ r # 0 THEN loadValue ELSE registers[r]]

\* Whatever instructions a program executes within the rules of Allowed, and
\* wherever an interrupt comes between them, the registers with the pending load, the memory and the
\* program counters are those of the manual: the delayed loads, the shift and
\* add multiplication, the sign tests for overflow and the masks of the
\* unaligned loads and stores compute what they should.
ImplementsArch == Arch!Spec

\* The comment of test/start.S: a stub places the code into r2 and "leaves the
\* arguments to the system call alone", and "the return value is in r2".  The
\* call comes back to its caller with the handler's answer in register 2 and the
\* arguments as they were loaded, although the second load is still pending when
\* the stub begins; main comes back to __start, and a program that returns from
\* main ends in Exit(0).  Interrupts may come between any two instructions.
StubsReturn ==
  LET sc == Stubs[prog]
      first == ReadMem(0, 4)
      second == ReadMem(4, 4)
  IN  prog # 0 =>
        /\ pc = 8 =>
             /\ registers[4] = first /\ registers[5] = second
             /\ registers[2] \in (IF sc = SC_Add THEN {Wrap(first + second)} ELSE Results)
        /\ status = "halted" => sc = 0
        /\ status = "dead" => sc \notin Handled \cup {0, SC_Exit, SC_Add}
        /\ status = "exited" /\ sc # SC_Exit => registers[4] = 0
        /\ fuel = 0 => status # "running"
=============================================================================
