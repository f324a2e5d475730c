------------------------------ MODULE MCMemory -------------------------------
(* Memory for TLC: COFF files with every kind of section, one with more      *)
(* read-only data than code, one with more code and data behind it, one      *)
(* whose .bss lies outside the space and two with two .bss, behind one       *)
(* another and apart.  The memory holds three small ones, a small one and    *)
(* the tables, or the large one.                                             *)
EXTENDS Memory, TLC

CONSTANTS p1, p2, p3

MCProcs == {p1, p2, p3}

Section(name, addr, size, ptr) ==
  [s_name |-> name, s_paddr |-> addr, s_size |-> size, s_scnptr |-> ptr]
CoffFile(sections, length, bigEndian) ==
  [f_magic |-> MIPSELMAGIC, magic |-> OMAGIC, sections |-> sections, length |-> length,
   bigEndian |-> bigEndian]

MCPrograms == {"small", "tables", "large", "apart", "twice", "gap"}

MCCoff ==
  [small |-> CoffFile(<<Section(".text", 0, 1, 1)>>, 1, TRUE),
   tables |-> CoffFile(<<Section(".text", 0, 1, 1), Section(".rdata", 1, 2, 2),
                         Section(".sbss", 3, 0, 1)>>, 3, FALSE),
   large |-> CoffFile(<<Section(".text", 0, 2, 1), Section(".rdata", 2, 1, 3),
                        Section(".data", 3, 2, 4)>>, 5, TRUE),
   apart |-> CoffFile(<<Section(".text", 0, 1, 1), Section(".bss", 5, 1, 1)>>, 1, TRUE),
   twice |-> CoffFile(<<Section(".text", 0, 1, 1), Section(".bss", 1, 1, 1),
                        Section(".bss", 2, 1, 1)>>, 1, TRUE),
   gap |-> CoffFile(<<Section(".text", 0, 1, 1), Section(".bss", 1, 1, 1),
                      Section(".bss", 3, 1, 1)>>, 1, FALSE)]

Symmetry == Permutations(MCProcs)
=============================================================================
