------------------------------- MODULE Memory --------------------------------
(***************************************************************************)
(* Physical memory and address spaces: AddrSpace (userprog/addrspace.cc),  *)
(* Machine::ReadMem, WriteMem and Translate (machine/translate.cc), the    *)
(* bitmap of frames Machine::pageTableMap, and the points of the scheduler *)
(* where they meet: RestoreState after a switch, the destruction of a      *)
(* finished thread by the thread that runs next, and Load in RunProcess.   *)
(*                                                                         *)
(* The unit is the page.  A program is a COFF file, converted by           *)
(* Coff2noff; the stack is one page.  fault means that the kernel wrote    *)
(* outside its memory or stopped in an ASSERT, from where nothing is       *)
(* claimed.                                                                *)
(***************************************************************************)
EXTENDS Coff2noff, Switch, FiniteSets

CONSTANTS NoProc,        \* no thread, no page table, no file
          NumPhysPages,  \* number of frames
          HostBigEndian  \* HOST_IS_BIG_ENDIAN of the build of the kernel

ASSUME FramesAssumption == NumPhysPages \in Nat
ASSUME HostAssumption == HostBigEndian \in BOOLEAN
ASSUME ProcsAssumption == NoProc \notin Procs \cup Programs

Frames == 0 .. NumPhysPages - 1

\* What a page holds: a page of the COFF file, zeros, or the arguments.
Zero == 0
Args == -1

VARIABLES
  pageTableMap,  \* frames marked in the bitmap
  numPages,      \* AddrSpace::numPages, 0 when the thread has no space
  pageTable,     \* AddrSpace::pageTable: the frame of each page
  program,       \* the file a thread was forked to run
  pc,            \* "none", "new", "begun", "user", "zombie", "badzombie"
  cpu,           \* the running thread
  pageTableReg,  \* Machine::pageTable: the thread whose table the machine has
  registers,     \* Machine::registers: the thread whose computation they hold
  userRegisters, \* Thread::userRegisters, the same of what was saved
  mainMemory,    \* what each frame holds: the thread that wrote it and what
  fault

vars == <<pageTableMap, numPages, pageTable, program, pc, cpu, pageTableReg,
          registers, userRegisters, mainMemory, fault, switchVars>>
context == <<registers, userRegisters>>

Pages(p) == 0 .. numPages[p] - 1
FramesOf(p) == {pageTable[p][v] : v \in Pages(p)}

Empty == [v \in {} |-> 0]

\* CheckEndian: the constructor of the machine stops in an ASSERT unless the host
\* stores words the way the build says.
CheckEndian ==
  LoadBytes(<<1, 2, 3, 4>>, HostBigEndian) =
    IF HostBigEndian THEN ((1 * Byte + 2) * Byte + 3) * Byte + 4
                     ELSE ((4 * Byte + 3) * Byte + 2) * Byte + 1

Init ==
  /\ CheckEndian
  /\ pageTableMap = {}
  /\ numPages = [p \in Procs |-> 0]
  /\ pageTable = [p \in Procs |-> Empty]
  /\ program = [p \in Procs |-> NoProc]
  /\ pc = [p \in Procs |-> "none"]
  /\ cpu = NoProc
  /\ pageTableReg = NoProc
  /\ registers = NoProc
  /\ userRegisters = [p \in Procs |-> NoProc]
  /\ mainMemory = [f \in Frames |-> [by |-> NoProc, what |-> Zero]]
  /\ fault = FALSE
  /\ SwitchInit

-----------------------------------------------------------------------------
(* Loading *)

\* The kernel's own WordToHost and SwapHeader.
KernelWordToHost(w) == WordToHost(w, HostBigEndian)
KernelSwapHeader(noff) == EachWord(noff, KernelWordToHost)

\* The header of each file as Load has it: read by the host and swapped when
\* that makes the magic number right.
Header ==
  [name \in Programs |->
     LET g == EachWord(Noff[name], LAMBDA b : LoadBytes(b, HostBigEndian))
     IN  IF g.noffMagic # NOFFMAGIC /\ KernelWordToHost(g.noffMagic) = NOFFMAGIC
         THEN KernelSwapHeader(g) ELSE g]

\* The size of the address space, the stack included.
Size(g) == g.code.size + g.ro.size + g.init.size + g.uninit.size + 1

\* Where in the file page v of a segment comes from.
FilePos(seg, v) == seg.inFileAddr + v - seg.virtualAddr

\* The pages a loop of n steps over a segment fills: behind the end of the
\* file ReadAt reads nothing.
Filled(g, seg, n) ==
  {v \in seg.virtualAddr .. seg.virtualAddr + n - 1 :
     seg.size > 0 /\ FilePos(seg, v) < Len(g.body)}
FilePage(g, seg, v) == g.body[FilePos(seg, v) + 1]

FilledCode(g) == Filled(g, g.code, g.code.size)
FilledInit(g) == Filled(g, g.init, g.init.size)
Zeroed(g) == g.uninit.virtualAddr .. g.uninit.virtualAddr + g.uninit.size - 1

\* The loop over the read-only segment runs to its virtual address instead of
\* its size: it ends early when the segment is larger than what precedes it,
\* and otherwise goes on into what follows in the file.
FilledRo(g) == Filled(g, g.ro, g.ro.virtualAddr)

\* Mutant of Image: the loop over the initialised data is left out.
ImageNoInit(g, v) ==
  IF v = Size(g) - 1 THEN Args
  ELSE IF v \in FilledRo(g) THEN FilePage(g, g.ro, v)
  ELSE IF v \in Zeroed(g) THEN Zero
  ELSE IF v \in FilledCode(g) THEN FilePage(g, g.code, v)
  ELSE Zero

\* What Load leaves in page v.  It writes zeros, the code, zeros for the
\* uninitialised data, the initialised data, the read-only data and the
\* arguments on the stack, in this order; the last one to write stays.
Image(g, v) ==
  IF v = Size(g) - 1 THEN Args
  ELSE IF v \in FilledRo(g) THEN FilePage(g, g.ro, v)
  ELSE IF v \in FilledInit(g) THEN FilePage(g, g.init, v)
  ELSE IF v \in Zeroed(g) THEN Zero
  ELSE IF v \in FilledCode(g) THEN FilePage(g, g.code, v)
  ELSE Zero

\* A segment reaches beyond the page table: Load takes what lies behind it for
\* a frame number.
WritesOutside(g) ==
  ~(FilledCode(g) \cup FilledInit(g) \cup FilledRo(g) \cup Zeroed(g)
      \subseteq 0 .. Size(g) - 1)

\* Mutant of FindAndSet: the search for the next frame does not pass over
\* frames that are in use.
FindAnySet(i) == i

\* The frame the call number i of FindAndSet in a row returns, counted from
\* zero: each takes the lowest clear bit.
FindAndSet(i) ==
  CHOOSE f \in Frames \ pageTableMap :
    Cardinality({g \in Frames \ pageTableMap : g < f}) = i

\* AddrSpace::InitRegisters.
InitRegisters(p) == registers' = p

\* AddrSpace::RestoreState.
RestoreState(p) == pageTableReg' = p

\* AddrSpace::Execute.
Execute(p) == InitRegisters(p) /\ RestoreState(p)

\* AllocateMemory and Load; then Execute.
LoadProgram(p) ==
  LET g == Header[Argument(p)]
      space == 0 .. Size(g) - 1
      pt == [v \in space |-> FindAndSet(v)]
  IN  /\ cpu = p /\ pc[p] = "begun"
      /\ g.exists /\ g.noffMagic = NOFFMAGIC /\ ~WritesOutside(g)
      /\ Size(g) \in 0 .. Cardinality(Frames \ pageTableMap)
      /\ pageTable' = [pageTable EXCEPT ![p] = pt]
      /\ pageTableMap' = pageTableMap \cup {pt[v] : v \in space}
      /\ mainMemory' =
           [f \in Frames |->
              IF \E v \in space : pt[v] = f
              THEN [by |-> p, what |-> Image(g, CHOOSE v \in space : pt[v] = f)]
              ELSE mainMemory[f]]
      /\ numPages' = [numPages EXCEPT ![p] = Size(g)]
      /\ pc' = [pc EXCEPT ![p] = "user"]
      /\ Execute(p)
      /\ UNCHANGED <<program, cpu, userRegisters, fault, switchVars>>

\* FindAndSet has returned -1, and AllocateMemory clears "frame" -1: it writes
\* before mainMemory.  (A program larger than the memory gets here before the
\* ASSERT that would refuse it.)  Or the segments reach outside the space, or
\* the ASSERT on the magic number fails.
LoadTooLarge(p) ==
  /\ cpu = p /\ pc[p] = "begun"
  /\ LET g == Header[Argument(p)]
     IN  /\ g.exists
         /\ \/ g.noffMagic # NOFFMAGIC
            \/ Size(g) > Cardinality(Frames \ pageTableMap)
            \/ WritesOutside(g)
  /\ fault' = TRUE
  /\ UNCHANGED <<pageTableMap, numPages, pageTable, program, pc, cpu, pageTableReg,
                 context, mainMemory, switchVars>>

\* The file cannot be opened, or the converter left none: RunProcess returns
\* and the thread finishes with an AddrSpace whose numPages and pageTable were
\* never set.
LoadFails(p) ==
  /\ cpu = p /\ pc[p] = "begun"
  /\ WhenDone = Code("Finish")
  /\ pc' = [pc EXCEPT ![p] = "badzombie"]
  /\ cpu' = NoProc
  /\ SwitchFrom(p)
  /\ UNCHANGED <<pageTableMap, numPages, pageTable, program, pageTableReg, context,
                 mainMemory, fault>>

-----------------------------------------------------------------------------
(* Threads *)

\* PCB::Exec makes a thread; it may run any program.
Fork(p) ==
  /\ pc[p] = "none"
  /\ pc' = [pc EXCEPT ![p] = "new"]
  /\ \E g \in Programs : /\ program' = [program EXCEPT ![p] = g]
                         /\ StackAllocate(p, "RunProcess", g)
  /\ UNCHANGED <<pageTableMap, numPages, pageTable, cpu, pageTableReg, context, mainMemory,
                 fault>>

\* Mutant of SaveUserState: the registers are not saved.
SaveNothing(p) == UNCHANGED context

\* Thread::SaveUserState, called by Scheduler::Run for a thread with a space.
SaveUserState(p) ==
  /\ userRegisters' = IF pc[p] = "user" THEN [userRegisters EXCEPT ![p] = registers]
                      ELSE userRegisters
  /\ UNCHANGED registers

\* Yield, or Sleep in a system call.
Yield(p) ==
  /\ cpu = p
  /\ cpu' = NoProc
  /\ SaveUserState(p)
  /\ SwitchFrom(p)
  /\ UNCHANGED <<pageTableMap, numPages, pageTable, program, pc, pageTableReg,
                 mainMemory, fault>>

\* SC_Exit: Thread::Finish; the next thread will destroy this one.
Exit(p) ==
  /\ cpu = p /\ pc[p] = "user"
  /\ pc' = [pc EXCEPT ![p] = "zombie"]
  /\ cpu' = NoProc
  /\ SaveUserState(p)
  /\ SwitchFrom(p)
  /\ UNCHANGED <<pageTableMap, numPages, pageTable, program, pageTableReg, mainMemory,
                 fault>>

Zombies == {p \in Procs : pc[p] = "zombie"}
BadZombies == {p \in Procs : pc[p] = "badzombie"}

\* Mutant of ReapAndRestore: RestoreState is left out.
ReapOnly(q) ==
  /\ pageTableMap' = pageTableMap \ UNION {FramesOf(z) : z \in Zombies}
  /\ numPages' = [p \in Procs |-> IF p \in Zombies THEN 0 ELSE numPages[p]]
  /\ pageTable' = [p \in Procs |-> IF p \in Zombies THEN Empty ELSE pageTable[p]]
  /\ pageTableReg' = IF pageTableReg \in Zombies THEN NoProc ELSE pageTableReg

\* Mutant of ReapAndRestore: the destructor does not clear the bitmap.
ReapLeaks(q) ==
  /\ pageTableMap' = pageTableMap
  /\ numPages' = [p \in Procs |-> IF p \in Zombies THEN 0 ELSE numPages[p]]
  /\ pageTable' = [p \in Procs |-> IF p \in Zombies THEN Empty ELSE pageTable[p]]
  /\ pageTableReg' = IF pc[q] = "user" THEN q
                     ELSE IF pageTableReg \in Zombies THEN NoProc ELSE pageTableReg

\* What the thread that comes next does: CheckToBeDestroyed, which ends in
\* AddrSpace::~AddrSpace, and RestoreState when it has an address space.
\* A deleted page table the machine still points to is NoProc.
ReapAndRestore(q) ==
  /\ pageTableMap' = pageTableMap \ UNION {FramesOf(z) : z \in Zombies}
  /\ numPages' = [p \in Procs |-> IF p \in Zombies THEN 0 ELSE numPages[p]]
  /\ pageTable' = [p \in Procs |-> IF p \in Zombies THEN Empty ELSE pageTable[p]]
  /\ pageTableReg' = IF pc[q] = "user" THEN q
                     ELSE IF pageTableReg \in Zombies THEN NoProc ELSE pageTableReg

\* Thread::RestoreUserState, for a thread with a space; a deleted thread's
\* saved registers are gone.
RestoreUserState(q) ==
  /\ registers' = IF pc[q] = "user" THEN userRegisters[q] ELSE registers
  /\ userRegisters' = [p \in Procs |-> IF p \in Zombies \cup BadZombies THEN NoProc
                                       ELSE userRegisters[p]]

\* Scheduler::Run: q gets the CPU; a new thread starts in Begin.  Destroying an
\* AddrSpace that was not loaded clears bits of a page table that is not there.
Run(q) ==
  /\ cpu = NoProc /\ pc[q] \in {"new", "begun", "user"}
  /\ cpu' = q
  /\ ReapAndRestore(q)
  /\ RestoreUserState(q)
  /\ SwitchTo(q, Zombies \cup BadZombies)
  /\ pc' = [p \in Procs |-> IF p \in Zombies \cup BadZombies THEN "none"
                            ELSE IF p = q /\ pc[q] = "new" THEN "begun" ELSE pc[p]]
  /\ program' = [p \in Procs |-> IF p \in Zombies \cup BadZombies THEN NoProc
                                 ELSE program[p]]
  /\ fault' \in (IF BadZombies = {} THEN {FALSE} ELSE BOOLEAN)
  /\ UNCHANGED mainMemory

-----------------------------------------------------------------------------
(* Memory accesses, by the program or by User2System and System2User *)

\* Machine::Translate finds a frame for page v.
Translate(v) == pageTableReg # NoProc /\ v \in Pages(pageTableReg)

\* WriteMem.
Write(p, v) ==
  /\ cpu = p /\ pc[p] = "user"
  /\ Translate(v)
  /\ mainMemory' = [mainMemory EXCEPT ![pageTable[pageTableReg][v]].by = p]
  /\ UNCHANGED <<pageTableMap, numPages, pageTable, program, pc, cpu, pageTableReg, context,
                 fault, switchVars>>

\* ReadMem or WriteMem without a translation: ExceptionHandler knows only
\* system calls and stops the kernel.
Trap(p, v) ==
  /\ cpu = p /\ pc[p] = "user"
  /\ ~Translate(v)
  /\ fault' = TRUE
  /\ UNCHANGED <<pageTableMap, numPages, pageTable, program, pc, cpu, pageTableReg,
                 context, mainMemory, switchVars>>

-----------------------------------------------------------------------------

Next ==
  /\ ~fault
  /\ \E p \in Procs : \/ Fork(p) \/ Yield(p) \/ Exit(p) \/ Run(p)
                      \/ LoadProgram(p) \/ LoadTooLarge(p) \/ LoadFails(p)
                      \/ \E v \in 0 .. NumPhysPages : Write(p, v) \/ Trap(p, v)

Spec == Init /\ [][Next]_vars

-----------------------------------------------------------------------------
(* Properties. *)

Loaded == {p \in Procs : pc[p] \in {"user", "zombie"}}

TypeOK ==
  /\ pageTableMap \in SUBSET Frames
  /\ numPages \in [Procs -> Nat]
  /\ \A p \in Procs : pageTable[p] \in [Pages(p) -> Frames]
  /\ program \in [Procs -> Programs \cup {NoProc}]
  /\ pc \in [Procs -> {"none", "new", "begun", "user", "zombie", "badzombie"}]
  /\ cpu \in Procs \cup {NoProc}
  /\ {pageTableReg, registers} \subseteq Procs \cup {NoProc}
  /\ userRegisters \in [Procs -> Procs \cup {NoProc}]
  /\ mainMemory \in [Frames -> [by : Procs \cup {NoProc}, what : Int]]
  /\ fault \in BOOLEAN
  /\ cpuRegs \in [Registers -> {NULL, Code("RunProcess"), Code("Finish")}
                                \cup {Esp(p) : p \in Procs}]

\* The bitmap has exactly the frames of the address spaces that exist: nothing
\* leaks when a thread exits and nothing is given back while it is in use.
MapExact ==
  pageTableMap = UNION {FramesOf(p) : p \in Procs}

\* Whoever runs finds its own kernel registers and stack, with the argument it
\* was forked with and the way to Finish; and whoever runs in user mode runs on
\* its own page table and in its own user registers.  The host and the machine
\* have one of each, set by the thread that comes next, and page tables are
\* deleted by others: Scheduler::Run and SWITCH must save and restore on every
\* path, also past a thread that has no address space yet.
OwnContext ==
  \A p \in Procs : cpu = p =>
    /\ cpuRegs["esp"] = Esp(p) /\ cpuRegs["ebp"] = Esp(p)
    /\ Argument(p) = program[p] /\ WhenDone = Code("Finish")
    /\ pc[p] = "user" => pageTableReg = p /\ registers = p

\* Every page of a program was last written by the program itself: it sees
\* nothing that an earlier or another program left.
Isolation ==
  \A p \in Procs : \A v \in Pages(p) : mainMemory[pageTable[p][v]].by = p

\* Where section i ends in memory.
EndOf(c, i) == IF i = 0 THEN 0 ELSE c.sections[i].s_paddr + c.sections[i].s_size

\* Sections with contents, one of a kind, behind one another from address 0, and
\* then uninitialised data, which may be in several sections with gaps before
\* them.  Gapless: as the linker of test/script puts them.
Linked(c) ==
  LET S == c.sections
  IN  \A i \in 1 .. Len(S) :
        /\ S[i].s_paddr >= EndOf(c, i - 1)
        /\ S[i].s_name # ".bss" => S[i].s_paddr = EndOf(c, i - 1)
        /\ \A j \in 1 .. i - 1 : S[j].s_name \in {S[i].s_name, ".bss"} => S[i].s_name = ".bss"
Gapless(c) == \A i \in 1 .. Len(c.sections) : c.sections[i].s_paddr = EndOf(c, i - 1)

\* Of read-only data Load reads no more than there are pages before it.
Reached(s, j) == s.s_name # ".rdata" \/ j < s.s_paddr

\* A program that runs has at the address of each of its sections what the
\* compiler put there, through the conversion and the loading, and zeros in its
\* uninitialised data.  Two things come out otherwise, and only they: in the part
\* of the read-only data that the loop over the wrong bound does not reach there
\* are zeros, never what another program or another section had; and of a program
\* whose uninitialised data does not follow what is before it, the end of that
\* data may be the stack or lie outside the space, as the sizes are added up over
\* the gap.
SegmentsLoaded ==
  \A p \in Loaded : Linked(Coff[program[p]]) =>
    \A i \in 1 .. Len(Coff[program[p]].sections) :
      LET s == Coff[program[p]].sections[i]
      IN  \A j \in 0 .. s.s_size - 1 :
            \/ /\ s.s_paddr + j \in Pages(p)
               /\ mainMemory[pageTable[p][s.s_paddr + j]].what =
                    IF s.s_name # ".bss" /\ Reached(s, j) THEN s.s_scnptr + j ELSE Zero
            \/ /\ s.s_name = ".bss" /\ ~Gapless(Coff[program[p]])
               /\ s.s_paddr + j >= numPages[p] - 1
=============================================================================
