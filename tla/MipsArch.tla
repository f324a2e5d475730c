------------------------------ MODULE MipsArch -------------------------------
(***************************************************************************)
(* What a user program may rely on: the MIPS instructions as the manual    *)
(* gives them.  Arithmetic is on integers, memory is bytes, logic is on    *)
(* single bits, and the value of a load is in its register when the load   *)
(* is done.  Mips (machine/mipssim.cc) is shown to implement it.           *)
(*                                                                         *)
(* A word is four bytes of ByteBits bits.  Registers 2, 4 and 5 pass the   *)
(* result and the arguments of a system call, 31 the return address.       *)
(***************************************************************************)
EXTENDS Integers, Sequences, FiniteSetsExt

CONSTANTS ByteBits,  \* bits of a byte, 8 in the machine
          MemSize,   \* bytes of the address space of the program
          SC_Add,    \* the number of the system call that adds
          SC_Exit,   \* the number of the system call that ends the program
          Handled,   \* the numbers of the other system calls
          Results    \* what they may return

VARIABLES reg, hi, lo, pc, nextPC, memory, status, ins

archVars == <<reg, hi, lo, pc, nextPC, memory, status, ins>>

Regs == {0, 1, 2, 4, 5, 31}
WordBits == 4 * ByteBits
ByteSize == 2 ^ ByteBits
HalfSize == 2 ^ (2 * ByteBits)
WordSize == 2 ^ WordBits

Fit(n) == n % WordSize
AsInt(x) == IF 2 * x >= WordSize THEN x - WordSize ELSE x
Representable(n) == -WordSize <= 2 * n /\ 2 * n < WordSize

BytesOf(x) == [j \in 0 .. 3 |-> (x \div ByteSize ^ j) % ByteSize]
FromBytes(b, S) == MapThenSumSet(LAMBDA j : b[j] * ByteSize ^ j, S)
FromBits(P(_)) == MapThenSumSet(LAMBDA k : IF P(k) THEN 2 ^ k ELSE 0,
                                0 .. WordBits - 1)
Bit(x, k) == (x \div 2 ^ k) % 2 = 1

\* An immediate operand as a number: signed, unless the operation is logical.
Imm(i) == IF 2 * i.extra >= HalfSize THEN i.extra - HalfSize ELSE i.extra

Target(i) == Fit(reg[i.rs] + Imm(i))
Base(i) == Target(i) - (Target(i) % 4)

Quotient(a, b) == LET q == (IF a < 0 THEN -a ELSE a) \div (IF b < 0 THEN -b ELSE b)
                  IN  IF (a < 0) = (b < 0) THEN q ELSE -q

\* The register an instruction sets and the value it gets; loads included.
Value(i) ==
  LET a == reg[i.rs]
      b == reg[i.rt]
      byte(k) == memory[Target(i) + k]
      byteAt == Target(i) % 4
      old == BytesOf(b)
      word == [j \in 0 .. 3 |-> memory[Base(i) + j]]
  IN  CASE i.op \in {"ADD", "ADDU"} -> Fit(AsInt(a) + AsInt(b))
        [] i.op \in {"ADDI", "ADDIU"} -> Fit(AsInt(a) + Imm(i))
        [] i.op \in {"SUB", "SUBU"} -> Fit(AsInt(a) - AsInt(b))
        [] i.op = "AND" -> FromBits(LAMBDA k : Bit(a, k) /\ Bit(b, k))
        [] i.op = "ANDI" -> FromBits(LAMBDA k : Bit(a, k) /\ Bit(i.extra, k))
        [] i.op = "OR" -> FromBits(LAMBDA k : Bit(a, k) \/ Bit(b, k))
        [] i.op = "ORI" -> FromBits(LAMBDA k : Bit(a, k) \/ Bit(i.extra, k))
        [] i.op = "XOR" -> FromBits(LAMBDA k : Bit(a, k) # Bit(b, k))
        [] i.op = "XORI" -> FromBits(LAMBDA k : Bit(a, k) # Bit(i.extra, k))
        [] i.op = "NOR" -> FromBits(LAMBDA k : ~Bit(a, k) /\ ~Bit(b, k))
        [] i.op = "LUI" -> i.extra * HalfSize
        [] i.op = "SLL" -> Fit(b * 2 ^ i.extra)
        [] i.op = "SLLV" -> Fit(b * 2 ^ (a % WordBits))
        [] i.op = "SRL" -> b \div 2 ^ i.extra
        [] i.op = "SRLV" -> b \div 2 ^ (a % WordBits)
        [] i.op = "SRA" -> Fit(AsInt(b) \div 2 ^ i.extra)
        [] i.op = "SRAV" -> Fit(AsInt(b) \div 2 ^ (a % WordBits))
        [] i.op = "SLT" -> IF AsInt(a) < AsInt(b) THEN 1 ELSE 0
        [] i.op = "SLTI" -> IF AsInt(a) < Imm(i) THEN 1 ELSE 0
        [] i.op = "SLTU" -> IF a < b THEN 1 ELSE 0
        [] i.op = "SLTIU" -> IF a < Fit(Imm(i)) THEN 1 ELSE 0
        [] i.op = "MFHI" -> hi
        [] i.op = "MFLO" -> lo
        [] i.op = "LB" -> IF 2 * byte(0) >= ByteSize
                          THEN Fit(byte(0) - ByteSize) ELSE byte(0)
        [] i.op = "LBU" -> byte(0)
        [] i.op = "LH" -> LET h == byte(0) + ByteSize * byte(1)
                          IN  IF 2 * h >= HalfSize THEN Fit(h - HalfSize) ELSE h
        [] i.op = "LHU" -> byte(0) + ByteSize * byte(1)
        [] i.op = "LW" -> FromBytes(word, 0 .. 3)
        [] i.op = "LWL" ->    \* the bytes up to the address, to the high end
             FromBytes([j \in 0 .. 3 |-> IF j >= 3 - byteAt
                                         THEN word[j - (3 - byteAt)]
                                         ELSE old[j]], 0 .. 3)
        [] i.op = "LWR" ->    \* the bytes from the address on, to the low end
             FromBytes([j \in 0 .. 3 |-> IF j <= 3 - byteAt
                                         THEN word[j + byteAt]
                                         ELSE old[j]], 0 .. 3)

ToRd == {"ADD", "ADDU", "SUB", "SUBU", "AND", "OR", "XOR", "NOR", "SLL", "SLLV",
         "SRL", "SRLV", "SRA", "SRAV", "SLT", "SLTU", "MFHI", "MFLO"}
ToRt == {"ADDI", "ADDIU", "ANDI", "ORI", "XORI", "LUI", "SLTI", "SLTIU"}
Loads == {"LB", "LBU", "LH", "LHU", "LW", "LWL", "LWR"}
Stores == {"SB", "SH", "SW", "SWL", "SWR"}
Branches == {"BEQ", "BNE", "BGEZ", "BGEZAL", "BGTZ", "BLEZ", "BLTZ", "BLTZAL"}
Jumps == {"J", "JAL", "JR", "JALR"}
ToHiLo == {"MULT", "MULTU", "DIV", "DIVU", "MTHI", "MTLO"}
Illegal == {"RES", "UNIMP"}

\* What the system does not survive: the kernel stops on every exception that
\* is not a system call.  The quotient that no word holds stops the simulator.
Stops(i) ==
  LET a == AsInt(reg[i.rs])
      b == AsInt(reg[i.rt])
      unaligned(n) == Target(i) % n # 0
  IN  \/ i.op = "ADD" /\ ~Representable(a + b)
      \/ i.op = "ADDI" /\ ~Representable(a + Imm(i))
      \/ i.op = "SUB" /\ ~Representable(a - b)
      \/ i.op \in {"LH", "LHU", "SH"} /\ unaligned(2)
      \/ i.op \in {"LW", "SW"} /\ unaligned(4)
      \/ i.op \in Loads \cup Stores /\ Target(i) >= MemSize
      \/ i.op = "DIV" /\ b # 0 /\ ~Representable(Quotient(a, b))
      \/ i.op \in Illegal
      \/ pc % 4 # 0

\* The bytes of memory a store replaces.
Stored(i) ==
  LET v == BytesOf(reg[i.rt])
      t == Target(i)
      k == t % 4
  IN  CASE i.op = "SB" -> [x \in {t} |-> v[0]]
        [] i.op = "SH" -> [x \in t .. t + 1 |-> v[x - t]]
        [] i.op = "SW" -> [x \in t .. t + 3 |-> v[x - t]]
        [] i.op = "SWL" -> [x \in t - k .. t |-> v[x - t + 3]]
        [] i.op = "SWR" -> [x \in t .. t - k + 3 |-> v[x - t]]

Taken(i) ==
  LET a == AsInt(reg[i.rs])
  IN  CASE i.op = "BEQ" -> reg[i.rs] = reg[i.rt]
        [] i.op = "BNE" -> reg[i.rs] # reg[i.rt]
        [] i.op \in {"BGEZ", "BGEZAL"} -> a >= 0
        [] i.op \in {"BLTZ", "BLTZAL"} -> a < 0
        [] i.op = "BGTZ" -> a > 0
        [] i.op = "BLEZ" -> a <= 0

\* Where the instruction after the next one is: the next one is in the delay
\* slot of a branch or jump and is executed in any case.
After(i) ==
  LET region == WordSize \div 16
      next == Fit(nextPC + 4)
  IN  CASE i.op \in Branches -> IF Taken(i) THEN Fit(nextPC + 4 * Imm(i)) ELSE next
        [] i.op \in {"J", "JAL"} -> next - (next % region) + 4 * i.extra
        [] i.op \in {"JR", "JALR"} -> reg[i.rs]
        [] OTHER -> next

Links(i) == i.op \in {"BGEZAL", "BLTZAL", "JAL", "JALR"}

HiLo(i) ==
  LET a == reg[i.rs]
      b == reg[i.rt]
      p == AsInt(a) * AsInt(b)
  IN  CASE i.op = "MULT" -> <<Fit(p \div WordSize), Fit(p)>>
        [] i.op = "MULTU" -> <<(a * b) \div WordSize, Fit(a * b)>>
        [] i.op = "DIV" ->
             IF b = 0 THEN <<0, 0>>
             ELSE LET q == Quotient(AsInt(a), AsInt(b))
                  IN  <<Fit(AsInt(a) - q * AsInt(b)), Fit(q)>>
        [] i.op = "DIVU" -> IF b = 0 THEN <<0, 0>> ELSE <<a % b, a \div b>>
        [] i.op = "MTHI" -> <<a, lo>>
        [] i.op = "MTLO" -> <<hi, a>>
        [] OTHER -> <<hi, lo>>

\* Register 0 is always zero.
Set(r, v) == reg' = [reg EXCEPT ![r] = IF r = 0 THEN 0 ELSE v]

Call(i) ==
  /\ \/ reg[2] = 0 /\ status' = "halted" /\ UNCHANGED <<reg, pc, nextPC>>
     \/ reg[2] = SC_Exit /\ status' = "exited" /\ UNCHANGED <<reg, pc, nextPC>>
     \/ /\ \/ reg[2] = SC_Add /\ Set(2, Fit(reg[4] + reg[5]))
           \/ reg[2] \in Handled /\ \E v \in Results : Set(2, v)
        /\ pc' = nextPC /\ nextPC' = Fit(nextPC + 4)
        /\ UNCHANGED status
     \/ reg[2] \notin Handled \cup {0, SC_Exit, SC_Add} /\ status' = "dead" /\ UNCHANGED <<reg, pc, nextPC>>
  /\ UNCHANGED <<hi, lo, memory>>

Execute(i) ==
  /\ status = "running" /\ ins' = i
  /\ \/ /\ Stops(i)
        /\ status' = "dead" /\ UNCHANGED <<reg, hi, lo, pc, nextPC, memory>>
     \/ ~Stops(i) /\ i.op = "SYSCALL" /\ Call(i)
     \/ /\ ~Stops(i) /\ i.op # "SYSCALL"
        /\ \/ i.op \in ToRd /\ Set(i.rd, Value(i))
           \/ i.op \in ToRt \cup Loads /\ Set(i.rt, Value(i))
           \/ Links(i) /\ Set(IF i.op = "JALR" THEN i.rd ELSE 31, Fit(nextPC + 4))
           \/ /\ i.op \in Stores \cup Branches \cup Jumps \cup ToHiLo /\ ~Links(i)
              /\ UNCHANGED reg
        /\ memory' = IF i.op \in Stores
                     THEN [x \in DOMAIN memory |->
                             IF x \in DOMAIN Stored(i) THEN Stored(i)[x]
                             ELSE memory[x]]
                     ELSE memory
        /\ hi' = HiLo(i)[1] /\ lo' = HiLo(i)[2]
        /\ pc' = nextPC /\ nextPC' = After(i)
        /\ UNCHANGED status

Init ==
  /\ status = "running" /\ pc = 0 /\ nextPC = 4 /\ reg[0] = 0

\* The program is whatever the machine finds at pc.
Spec == Init /\ [][Execute(ins')]_archVars
=============================================================================
