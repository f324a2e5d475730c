------------------------------- MODULE MCMips --------------------------------
(* Mips for TLC: every operation, on operands around the limits of a word,   *)
(* and a call of each of seven stubs: Halt, Add, Exit, Exec, ExecV, Join and *)
(* ThreadYield, which has no handler.                                        *)
EXTENDS Mips

I(ops, rss, rts, rds, extras) ==
  [op : ops, rs : rss, rt : rts, rd : rds, extra : extras]

MCInstrs ==
  I(ToRd \ {"SLL", "SRL", "SRA", "MFHI", "MFLO"}, {1}, {4}, {5}, {0})
  \cup I({"ADDU"}, {0}, {1}, {2}, {0})
  \cup I({"ADDU"}, {4}, {0}, {0}, {0})
  \cup I({"SLL", "SRL", "SRA"}, {0}, {4}, {5}, {0, 3})
  \cup I({"MFHI", "MFLO"}, {0}, {0}, {5}, {0})
  \cup I(ToRt, {1}, {5}, {0}, {5, 62})
  \cup I({"MULT", "MULTU", "DIV", "DIVU", "MTHI", "MTLO"}, {1}, {4}, {0}, {0})
  \cup I({"BEQ", "BNE", "BGEZ", "BGEZAL", "BGTZ", "BLEZ", "BLTZ", "BLTZAL"},
         {1}, {4}, {0}, {2, 63})
  \cup I({"J", "JAL"}, {0}, {0}, {0}, {1})
  \cup I({"JR", "JALR"}, {1}, {0}, {5}, {0})
  \cup I({"LB", "LBU", "LH", "LHU", "LW"}, {1}, {4}, {0}, {0, 63})
  \cup I({"LWL", "LWR"}, {1}, {4}, {0}, {0, 3})
  \cup I({"SB", "SH", "SW", "SWL", "SWR"}, {1}, {4}, {0}, {0, 63})
  \cup I({"SYSCALL", "RES", "UNIMP"}, {0}, {0}, {0}, {0})

MCContents == {[a \in 0 .. 7 |-> <<0, 1, 4, 7, 7, 0, 1, 3>>[a + 1]]}

MCStubs == <<0, 30, 1, 2, 13, 3, 12>>
=============================================================================
