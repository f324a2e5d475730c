----------------------------- MODULE MemoryProofs -----------------------------
(***************************************************************************)
(* Proofs about Memory and Switch, for any number of frames, threads and   *)
(* programs.                                                               *)
(*                                                                         *)
(* The inductive invariant has four parts: which thread may run (Running), *)
(* that no two pages have the same frame and the bitmap has exactly those  *)
(* (Mapped), that a thread with an address space finds its page table and  *)
(* its user registers (UserContext), and what lies on the kernel stack of  *)
(* a thread that is new, running or switched out (KernelContext).          *)
(* Isolation needs all of the first three: a write goes to the frame of    *)
(* the writer because the machine has the writer's page table.             *)
(*                                                                         *)
(* The last part follows a program from the compiler's file, through the   *)
(* converter and a file in the byte order of the machine, to the header    *)
(* that Load has, and to the segments that Load puts into memory.          *)
(***************************************************************************)
EXTENDS Memory, FiniteSetTheorems, SequenceTheorems, WellFoundedInduction, TLAPS

Running ==
  /\ pc \in [Procs -> {"none", "new", "begun", "user", "zombie", "badzombie"}]
  /\ cpu \in Procs \cup {NoProc}
  /\ cpu \in Procs => pc[cpu] \in {"begun", "user"}

Mapped ==
  /\ numPages \in [Procs -> Nat]
  /\ pageTable = [p \in Procs |-> pageTable[p]]
  /\ \A p \in Procs : \A v \in Pages(p) : pageTable[p][v] \in Frames
  /\ \A p \in Procs : pc[p] \notin {"user", "zombie"} => numPages[p] = 0
  /\ \A p, q \in Procs : \A v \in Pages(p), w \in Pages(q) :
       pageTable[p][v] = pageTable[q][w] => p = q /\ v = w
  /\ MapExact

UserContext ==
  /\ userRegisters = [p \in Procs |-> userRegisters[p]]
  /\ \A p \in Procs : pc[p] = "user" =>
       IF cpu = p THEN pageTableReg = p /\ registers = p ELSE userRegisters[p] = p

\* Kernel stacks: as StackAllocate makes it, in a thread's function, and in
\* SWITCH called from there.
NewStack == <<NULL, Code("ThreadRoot")>>
RunStack(x) == <<Code("ThreadRoot"), NULL, Arg(x)>>
SwitchedStack(p, x) == RunStack(x) \o <<NULL, Esp(p), Code("Run")>>

NewContext(p) ==
  /\ stack[p] = NewStack
  /\ machineState[p].esp = Esp(p) /\ machineState[p].pc = Code("ThreadRoot")
  /\ machineState[p].ebp = NULL /\ machineState[p].edx = Arg(program[p])
  /\ machineState[p].edi = Code("Finish")

CpuContext(p) ==
  /\ stack[p] = RunStack(program[p])
  /\ cpuRegs["esp"] = Esp(p) /\ cpuRegs["ebp"] = Esp(p)
  /\ cpuRegs["edi"] = Code("Finish")

SavedContext(p) ==
  /\ stack[p] = SwitchedStack(p, program[p])
  /\ machineState[p].esp = Esp(p) /\ machineState[p].ebp = Esp(p)
  /\ machineState[p].edi = Code("Finish") /\ machineState[p].pc = Code("Run")

KernelContext ==
  /\ machineState = [p \in Procs |-> machineState[p]]
  /\ stack = [p \in Procs |-> stack[p]]
  /\ program = [p \in Procs |-> program[p]]
  /\ \A p \in Procs :
       /\ pc[p] = "new" => NewContext(p)
       /\ pc[p] \in {"begun", "user"} => IF cpu = p THEN CpuContext(p) ELSE SavedContext(p)

MemoryShape ==
  \A f \in Frames : mainMemory[f] = [by |-> mainMemory[f].by, what |-> mainMemory[f].what]

IInv ==
  /\ Running /\ Mapped /\ UserContext /\ KernelContext
  /\ mainMemory = [f \in Frames |-> mainMemory[f]] /\ MemoryShape
  /\ Isolation

-----------------------------------------------------------------------------
(* Bitmap::FindAndSet *)

\* A set of natural numbers with a member has a least one.
LEMMA LeastNat ==
  ASSUME NEW S, S \subseteq Nat, S # {}
  PROVE  \E x \in S : \A y \in S : x =< y
<1>1. PICK x \in S : \A y \in S : ~ (<<y, x>> \in OpToRel(<, Nat))
  BY NatLessThanWellFounded, WFMin, Zenon
<1>2. ASSUME NEW y \in S PROVE x =< y
  <2>1. <<y, x>> \in Nat \X Nat /\ ~ (<<y, x>> \in OpToRel(<, Nat))
    BY <1>1
  <2>2. ~ (y < x)
    BY <2>1 DEF OpToRel
  <2>3. QED
    BY <2>2
<1>3. QED
  BY <1>2

\* A set of frames with a member has a greatest one.
LEMMA GreatestFrame ==
  ASSUME NEW S, S \subseteq Frames, S # {}
  PROVE  \E x \in S : \A y \in S : y =< x
<1> DEFINE U == {u \in Nat : \A y \in S : y =< u}
<1>1. S \subseteq Nat /\ \A y \in S : y =< NumPhysPages
  BY FramesAssumption DEF Frames
<1>2. U \subseteq Nat /\ U # {}
  BY <1>1, FramesAssumption
<1>3. PICK u \in U : \A w \in U : u =< w
  BY <1>2, LeastNat
<1>4. u \in S
  <2>1. SUFFICES ASSUME u \notin S PROVE FALSE
    OBVIOUS
  <2>2. \A y \in S : y < u
    BY <1>1, <1>3, <2>1
  <2>3. u > 0 /\ u - 1 \in Nat
    <3>1. PICK y \in S : y \in Nat /\ y < u
      BY <1>1, <2>2
    <3>2. u \in Nat
      BY <1>3
    <3>3. QED
      BY <3>1, <3>2
  <2>4. u - 1 \in U
    BY <1>1, <2>2, <2>3
  <2>5. QED
    BY <1>3, <2>3, <2>4
<1>5. QED
  BY <1>3, <1>4

\* Among the free frames there is one with i free frames below it, for each i
\* less than their number.
LEMMA RankExists ==
  ASSUME NEW F, F \subseteq Frames, NEW i \in Nat, i < Cardinality(F)
  PROVE  \E f \in F : Cardinality({g \in F : g < f}) = i
<1> DEFINE Below(f) == {g \in F : g < f}
           High == {f \in F : Cardinality(Below(f)) >= i}
<1>1. F \subseteq Nat /\ IsFiniteSet(F)
  <2>1. IsFiniteSet(Frames) /\ Frames \subseteq Nat
    BY FS_Interval, FramesAssumption DEF Frames
  <2>2. QED
    BY <2>1, FS_Subset
<1>2. ASSUME NEW f \in F PROVE IsFiniteSet(Below(f)) /\ Cardinality(Below(f)) \in Nat
  BY <1>1, FS_Subset, FS_CardinalityType
<1>3. ASSUME NEW S, S \subseteq F, NEW h \in S, \A y \in S : y =< h,
             \A y \in F : y < h => y \in S
      PROVE  Cardinality(Below(h)) = Cardinality(S) - 1
  <2>1. Below(h) = S \ {h}
    <3>1. ASSUME NEW g \in F, g < h PROVE g \in S /\ g # h
      BY <1>1, <1>3, <3>1
    <3>2. ASSUME NEW g \in S, g # h PROVE g \in F /\ g < h
      <4>1. g \in Nat /\ h \in Nat /\ g =< h
        BY <1>1, <1>3
      <4>2. QED
        BY <4>1, <3>2, <1>3
    <3>3. QED
      BY <3>1, <3>2
  <2>2. IsFiniteSet(S)
    BY <1>1, <1>3, FS_Subset
  <2>3. QED
    BY <2>1, <2>2, <1>3, FS_RemoveElement
<1>4. High # {}
  <2>1. F # {}
    BY FS_EmptySet
  <2>2. PICK m \in F : \A y \in F : y =< m
    BY <2>1, GreatestFrame
  <2>3. Cardinality(Below(m)) = Cardinality(F) - 1
    BY <2>2, <1>3
  <2>4. Cardinality(F) \in Nat
    BY <1>1, FS_CardinalityType
  <2>5. QED
    BY <2>2, <2>3, <2>4
<1>5. PICK f \in High : \A y \in High : f =< y
  BY <1>1, <1>4, LeastNat
<1>6. ASSUME Cardinality(Below(f)) > i PROVE FALSE
  <2>1. Below(f) # {} /\ Below(f) \subseteq F
    BY <1>6, FS_EmptySet
  <2>2. PICK h \in Below(f) : \A y \in Below(f) : y =< h
    BY <2>1, GreatestFrame
  <2>3. h \in F /\ h < f /\ h \in Nat /\ f \in Nat
    BY <1>1, <1>5, <2>2
  <2>4. \A y \in F : y < h => y \in Below(f)
    BY <1>1, <2>3
  <2>5. Cardinality(Below(h)) = Cardinality(Below(f)) - 1
    BY <2>1, <2>2, <2>4, <1>3
  <2>6. Cardinality(Below(f)) \in Nat
    BY <1>2, <1>5
  <2>7. h \in High
    BY <1>6, <2>3, <2>5, <2>6
  <2>8. QED
    BY <1>5, <2>3, <2>7
<1>7. f \in F /\ Cardinality(Below(f)) \in Nat /\ Cardinality(Below(f)) >= i
  BY <1>2, <1>5
<1>8. Cardinality(Below(f)) = i
  BY <1>6, <1>7
<1>9. QED
  BY <1>7, <1>8

\* The frames that calls of FindAndSet in a row return are free, and two calls
\* never return the same one.
LEMMA FindAndSetFree ==
  ASSUME pageTableMap \subseteq Frames,
         NEW n \in 0 .. Cardinality(Frames \ pageTableMap)
  PROVE  /\ \A i \in 0 .. n - 1 : FindAndSet(i) \in Frames \ pageTableMap
         /\ \A i, j \in 0 .. n - 1 : FindAndSet(i) = FindAndSet(j) => i = j
<1> DEFINE F == Frames \ pageTableMap
<1>1. IsFiniteSet(F) /\ Cardinality(F) \in Nat
  <2>1. IsFiniteSet(Frames)
    BY FS_Interval, FramesAssumption DEF Frames
  <2>2. IsFiniteSet(F)
    BY <2>1, FS_Subset
  <2>3. QED
    BY <2>2, FS_CardinalityType
<1>2. ASSUME NEW i \in 0 .. n - 1
      PROVE  FindAndSet(i) \in F /\ Cardinality({g \in F : g < FindAndSet(i)}) = i
  <2>1. i \in Nat /\ i < Cardinality(F)
    BY <1>1
  <2>2. \E f \in F : Cardinality({g \in F : g < f}) = i
    BY <2>1, RankExists
  <2>3. QED
    BY <2>2 DEF FindAndSet
<1>3. QED
  BY <1>2

-----------------------------------------------------------------------------
(* SWITCH *)

\* Two words pushed on a stack of one (ThreadRoot).
LEMMA PushTwo ==
  ASSUME NEW a, NEW b, NEW c
  PROVE  <<a>> \o <<b, c>> = <<a, b, c>>
<1> DEFINE S == {a, b, c}
           s == <<a>>
           t == <<b, c>>
           u == <<a, b, c>>
<1>1. /\ s \in Seq(S) /\ t \in Seq(S) /\ u \in Seq(S)
      /\ Len(s) = 1 /\ Len(t) = 2 /\ Len(u) = 3
      /\ s[1] = a /\ t[1] = b /\ t[2] = c /\ u[1] = a /\ u[2] = b /\ u[3] = c
  OBVIOUS
<1> HIDE DEF s, t, u, S
<1>2. /\ s \o t \in Seq(S) /\ Len(s \o t) = 3
      /\ \A i \in 1 .. 3 : (s \o t)[i] = IF i <= 1 THEN s[i] ELSE t[i - 1]
  <2>1. /\ s \o t \in Seq(S) /\ Len(s \o t) = Len(s) + Len(t)
        /\ \A i \in 1 .. Len(s) + Len(t) :
             (s \o t)[i] = IF i <= Len(s) THEN s[i] ELSE t[i - Len(s)]
    BY <1>1, ConcatProperties
  <2>2. QED
    BY <1>1, <2>1
<1>3. ASSUME NEW i \in 1 .. 3 PROVE (s \o t)[i] = u[i]
  <2>1. i = 1 \/ i = 2 \/ i = 3
    OBVIOUS
  <2>2. QED
    BY <1>1, <1>2, <2>1
<1>4. s \o t = u
  BY <1>1, <1>2, <1>3, SeqEqual
<1>5. QED
  BY <1>4 DEF s, t, u

\* One of two words popped (ret to ThreadRoot).
LEMMA FrontOfTwo == ASSUME NEW a, NEW b PROVE Front(<<a, b>>) = <<a>>
<1> DEFINE S == {a,b}
           s == <<a,b>>
           t == <<a>>
<1>1. s \in Seq(S) /\ t \in Seq(S) /\ Len(s) = 2 /\ Len(t) = 1 /\ s[1] = a /\ t[1] = a
  OBVIOUS
<1> HIDE DEF s, t, S
<1>2. SubSeq(s,1,1) \in Seq(S) /\ Len(SubSeq(s,1,1)) = 1 /\ SubSeq(s,1,1)[1] = a
  BY <1>1
<1>3. SubSeq(s,1,1) = t
  BY <1>1, <1>2, SeqEqual
<1>4. QED
  BY <1>1, <1>3 DEF s, t, Front

\* The three words that a call of SWITCH pushes are those that its return pops,
\* with the word before the last overwritten.
LEMMA PopThree ==
  ASSUME NEW S, NEW s \in Seq(S), NEW a \in S, NEW b \in S, NEW c \in S, NEW x \in S
  PROVE  LET w == s \o <<a, b, c>>
             r == Front(ReplaceAt(w, Len(w) - 1, x))
         IN  Last(w) = c /\ SubSeq(r, 1, Len(r) - 2) = s
<1> DEFINE t == <<a, b, c>>
           w == s \o t
           e == [w EXCEPT ![Len(w) - 1] = x]
           r == SubSeq(e, 1, Len(e) - 1)
<1>1. t \in Seq(S) /\ Len(t) = 3 /\ t[3] = c
  OBVIOUS
<1> HIDE DEF t
<1>2. /\ w \in Seq(S) /\ Len(w) = Len(s) + 3
      /\ \A i \in 1 .. Len(s) : w[i] = s[i]
      /\ w[Len(s) + 3] = c
  <2>1. /\ w \in Seq(S) /\ Len(w) = Len(s) + 3
        /\ \A i \in 1 .. Len(s) + 3 : w[i] = IF i <= Len(s) THEN s[i] ELSE t[i - Len(s)]
    <3>1. /\ w \in Seq(S) /\ Len(w) = Len(s) + Len(t)
          /\ \A i \in 1 .. Len(s) + Len(t) : w[i] = IF i <= Len(s) THEN s[i] ELSE t[i - Len(s)]
      BY <1>1, ConcatProperties
    <3> HIDE DEF w
    <3>2. QED
      BY <1>1, <3>1
  <2>2. Len(s) \in Nat
    OBVIOUS
  <2> HIDE DEF w
  <2>3. \A i \in 1 .. Len(s) : w[i] = s[i]
    BY <2>1, <2>2
  <2>4. w[Len(s) + 3] = t[3]
    BY <2>1, <2>2
  <2>5. QED
    BY <1>1, <2>1, <2>3, <2>4
<1> HIDE DEF w
<1>3. /\ e \in Seq(S) /\ Len(e) = Len(s) + 3
      /\ \A i \in 1 .. Len(s) : e[i] = s[i]
  BY <1>2
<1> HIDE DEF e
<1>4. /\ r \in Seq(S) /\ Len(r) = Len(s) + 2
      /\ \A i \in 1 .. Len(s) : r[i] = s[i]
  BY <1>3
<1> HIDE DEF r
<1>5. /\ SubSeq(r, 1, Len(r) - 2) \in Seq(S) /\ Len(SubSeq(r, 1, Len(r) - 2)) = Len(s)
      /\ \A i \in 1 .. Len(s) : SubSeq(r, 1, Len(r) - 2)[i] = s[i]
  BY <1>4
<1>6. SubSeq(r, 1, Len(r) - 2) = s
  BY <1>5, SeqEqual
<1>7. QED
  BY <1>2, <1>6 DEF t, w, e, r, Front, ReplaceAt, Last

\* A new thread starts in ThreadRoot, which finds the argument and leaves it on
\* the stack.
LEMMA SwitchToNew ==
  ASSUME NEW q \in Procs, NewContext(q)
  PROVE  /\ Target(q) = Code("ThreadRoot")
         /\ ThreadRoot(q).stack = RunStack(program[q])
         /\ ThreadRoot(q).regs["esp"] = Esp(q) /\ ThreadRoot(q).regs["ebp"] = Esp(q)
         /\ ThreadRoot(q).regs["edi"] = Code("Finish")
<1>1. stack[q] = <<NULL, Code("ThreadRoot")>>
  BY DEF NewContext, NewStack
<1>2. Target(q) = Code("ThreadRoot")
  BY <1>1 DEF Target, Last
<1>3. Returned(q) = <<Code("ThreadRoot")>>
  <2>1. Returned(q) = Front(ReplaceAt(<<NULL, Code("ThreadRoot")>>, 1, Code("ThreadRoot")))
    BY <1>1 DEF Returned, NewContext
  <2>2. ReplaceAt(<<NULL, Code("ThreadRoot")>>, 1, Code("ThreadRoot"))
          = <<Code("ThreadRoot"), Code("ThreadRoot")>>
    BY DEF ReplaceAt
  <2>3. QED
    BY <2>1, <2>2, FrontOfTwo
<1>4. /\ Restored(q).ebp = NULL /\ Restored(q).edx = Arg(program[q])
      /\ Restored(q).esp = Esp(q) /\ Restored(q).edi = Code("Finish")
  BY DEF Restored, Registers, NewContext
<1>5. ThreadRoot(q).stack = RunStack(program[q])
  <2>1. ThreadRoot(q).stack = <<Code("ThreadRoot")>> \o <<NULL, Arg(program[q])>>
    BY <1>3, <1>4 DEF ThreadRoot
  <2>2. QED
    BY <2>1, PushTwo DEF RunStack
<1>6. QED
  BY <1>2, <1>4, <1>5 DEF ThreadRoot, Registers, CallerSaved

\* A thread that once called SWITCH returns from it to where it was.
LEMMA SwitchToSaved ==
  ASSUME NEW q \in Procs, SavedContext(q)
  PROVE  /\ Target(q) # Code("ThreadRoot")
         /\ Resumed(q).stack = RunStack(program[q])
         /\ Resumed(q).regs["esp"] = Esp(q) /\ Resumed(q).regs["ebp"] = Esp(q)
         /\ Resumed(q).regs["edi"] = Code("Finish")
<1> DEFINE run == RunStack(program[q])
           S == {NULL, Esp(q), Code("Run"), Code("ThreadRoot"), Arg(program[q])}
<1>1. run \in Seq(S) /\ NULL \in S /\ Esp(q) \in S /\ Code("Run") \in S
  BY DEF RunStack
<1>2. stack[q] = run \o <<NULL, Esp(q), Code("Run")>> /\ machineState[q].pc = Code("Run")
  BY DEF SavedContext, SwitchedStack
<1> HIDE DEF run, S
<1>3. Last(stack[q]) = Code("Run")
  BY <1>1, <1>2, PopThree
<1>4. Target(q) # Code("ThreadRoot")
  BY <1>3 DEF Target, Code
<1>5. Resumed(q).stack = run
  <2> DEFINE w == run \o <<NULL, Esp(q), Code("Run")>>
             r == Front(ReplaceAt(w, Len(w) - 1, Code("Run")))
  <2>1. SubSeq(r, 1, Len(r) - 2) = run
    <3> DEFINE a == NULL
               b == Esp(q)
               c == Code("Run")
    <3>1. a \in S /\ b \in S /\ c \in S
      BY <1>1
    <3> HIDE DEF a, b, c
    <3>2. LET v == run \o <<a, b, c>>
              u == Front(ReplaceAt(v, Len(v) - 1, c))
          IN  SubSeq(u, 1, Len(u) - 2) = run
      BY <1>1, <3>1, PopThree
    <3>3. QED
      BY <3>2 DEF a, b, c
  <2>2. Returned(q) = r
    BY <1>2 DEF Returned
  <2> HIDE DEF r
  <2>3. QED
    BY <2>1, <2>2 DEF Resumed
<1>6. QED
  BY <1>4, <1>5 DEF run, Resumed, Restored, Registers, SavedContext

\* SwitchTo in either case, for a thread that may run; the others keep theirs.
LEMMA SwitchToContext ==
  ASSUME NEW q \in Procs, NEW gone \in SUBSET Procs, q \notin gone,
         NewContext(q) \/ SavedContext(q), SwitchTo(q, gone)
  PROVE  /\ stack'[q] = RunStack(program[q])
         /\ cpuRegs'["esp"] = Esp(q) /\ cpuRegs'["ebp"] = Esp(q)
         /\ cpuRegs'["edi"] = Code("Finish")
         /\ \A p \in Procs \ gone : /\ machineState'[p] = machineState[p]
                                    /\ p # q => stack'[p] = stack[p]
<1> DEFINE next == IF Target(q) = Code("ThreadRoot") THEN ThreadRoot(q) ELSE Resumed(q)
<1>1. /\ next.stack = RunStack(program[q])
      /\ next.regs["esp"] = Esp(q) /\ next.regs["ebp"] = Esp(q)
      /\ next.regs["edi"] = Code("Finish")
  <2>1. CASE NewContext(q)
    BY <2>1, SwitchToNew
  <2>2. CASE SavedContext(q)
    BY <2>2, SwitchToSaved
  <2>3. QED
    BY <2>1, <2>2
<1>2. /\ machineState' = [p \in Procs |-> IF p \in gone THEN NoState ELSE machineState[p]]
      /\ stack' = [p \in Procs |-> IF p = q THEN next.stack
                                   ELSE IF p \in gone THEN <<>> ELSE stack[p]]
      /\ cpuRegs' = next.regs
  BY DEF SwitchTo
<1> HIDE DEF next
<1>3. QED
  BY <1>1, <1>2

\* The first half of SWITCH saves the context of the thread that runs.
LEMMA SwitchFromContext ==
  ASSUME NEW p \in Procs, KernelContext, CpuContext(p), SwitchFrom(p)
  PROVE  /\ stack'[p] = SwitchedStack(p, program[p])
         /\ machineState'[p].esp = Esp(p) /\ machineState'[p].ebp = Esp(p)
         /\ machineState'[p].edi = Code("Finish") /\ machineState'[p].pc = Code("Run")
         /\ \A q \in Procs : q # p => stack'[q] = stack[q] /\ machineState'[q] = machineState[q]
<1> DEFINE m == [r \in Slots |-> IF r = "pc" THEN Code("Run") ELSE cpuRegs[r]]
           s == stack[p] \o <<NULL, Esp(p), Code("Run")>>
<1>1. machineState' = [machineState EXCEPT ![p] = m] /\ stack' = [stack EXCEPT ![p] = s]
  BY DEF SwitchFrom
<1>2. /\ m.esp = cpuRegs["esp"] /\ m.ebp = cpuRegs["ebp"]
      /\ m.edi = cpuRegs["edi"] /\ m.pc = Code("Run")
  BY DEF Slots, Registers
<1>3. s = SwitchedStack(p, program[p])
  BY DEF CpuContext, SwitchedStack
<1>4. p \in DOMAIN machineState /\ p \in DOMAIN stack
      /\ DOMAIN machineState = Procs /\ DOMAIN stack = Procs
  BY DEF KernelContext
<1> HIDE DEF m, s
<1>5. QED
  BY <1>1, <1>2, <1>3, <1>4 DEF CpuContext
-----------------------------------------------------------------------------
(* The steps, by what they do to the parts of the invariant *)

\* The initial state.
LEMMA InitIInv == Init => IInv
<1> SUFFICES ASSUME Init PROVE IInv
  OBVIOUS
<1>1. \A p \in Procs : Pages(p) = {} /\ FramesOf(p) = {}
  BY DEF Init, Pages, FramesOf
<1>2. Running
  BY ProcsAssumption DEF Init, Running
<1>3. Mapped
  <2>1. MapExact
    BY <1>1 DEF Init, MapExact
  <2>2. QED
    BY <1>1, <2>1 DEF Init, Mapped
<1>4. UserContext
  BY DEF Init, UserContext
<1>5. KernelContext
  BY DEF Init, KernelContext, SwitchInit
<1>6. mainMemory = [f \in Frames |-> mainMemory[f]] /\ MemoryShape
  BY DEF Init, MemoryShape
<1>7. Isolation
  BY <1>1 DEF Isolation
<1>8. QED
  BY <1>2, <1>3, <1>4, <1>5, <1>6, <1>7 DEF IInv

\* Who runs is a thread that was forked and has not finished.
LEMMA RunningStep ==
  ASSUME Running, NEW p \in Procs,
         \/ Fork(p) \/ Yield(p) \/ Exit(p) \/ Run(p)
         \/ LoadProgram(p) \/ LoadTooLarge(p) \/ LoadFails(p)
         \/ \E v \in 0 .. NumPhysPages : Write(p, v) \/ Trap(p, v)
  PROVE  Running'
<1>1. CASE Fork(p)
  BY <1>1 DEF Running, Fork
<1>2. CASE Yield(p)
  BY <1>2, ProcsAssumption DEF Running, Yield
<1>3. CASE Exit(p)
  BY <1>3, ProcsAssumption DEF Running, Exit
<1>4. CASE Run(p)
  BY <1>4 DEF Running, Run, Zombies, BadZombies
<1>5. CASE LoadProgram(p)
  BY <1>5 DEF Running, LoadProgram
<1>6. CASE LoadFails(p)
  BY <1>6, ProcsAssumption DEF Running, LoadFails
<1>7. CASE LoadTooLarge(p) \/ \E v \in 0 .. NumPhysPages : Write(p, v) \/ Trap(p, v)
  BY <1>7 DEF Running, LoadTooLarge, Write, Trap
<1>8. QED
  BY <1>1, <1>2, <1>3, <1>4, <1>5, <1>6, <1>7

\* A thread's user registers are in the machine while it runs and saved while
\* it does not, and the machine has its page table while it runs.
LEMMA UserContextStep ==
  ASSUME Running, UserContext, NEW p \in Procs,
         \/ Fork(p) \/ Yield(p) \/ Exit(p) \/ Run(p)
         \/ LoadProgram(p) \/ LoadTooLarge(p) \/ LoadFails(p)
         \/ \E v \in 0 .. NumPhysPages : Write(p, v) \/ Trap(p, v)
  PROVE  UserContext'
<1>0. NoProc \notin Procs
  BY ProcsAssumption
<1>1. CASE Fork(p)
  BY <1>1 DEF Running, UserContext, Fork, context
<1>2. CASE Yield(p)
  BY <1>0, <1>2 DEF Running, UserContext, Yield, SaveUserState
<1>3. CASE Exit(p)
  BY <1>0, <1>3 DEF Running, UserContext, Exit, SaveUserState
<1>4. CASE Run(p)
  <2>1. ASSUME NEW q \in Procs, pc'[q] = "user"
        PROVE  pc[q] = "user" /\ q \notin Zombies \cup BadZombies /\ cpu # q
    BY <1>0, <1>4, <2>1 DEF Running, Run, Zombies, BadZombies
  <2>2. /\ userRegisters' = [q \in Procs |-> IF q \in Zombies \cup BadZombies THEN NoProc
                                             ELSE userRegisters[q]]
        /\ registers' = IF pc[p] = "user" THEN userRegisters[p] ELSE registers
        /\ pc[p] = "user" => pageTableReg' = p
        /\ cpu' = p
    BY <1>4 DEF Run, RestoreUserState, ReapAndRestore
  <2>3. \A q \in Procs : pc[q] = "user" /\ cpu # q => userRegisters[q] = q
    BY DEF UserContext
  <2>4. ASSUME NEW q \in Procs, pc'[q] = "user"
        PROVE  IF cpu' = q THEN pageTableReg' = q /\ registers' = q ELSE userRegisters'[q] = q
    BY <2>1, <2>2, <2>3, <2>4
  <2>5. userRegisters' = [q \in Procs |-> userRegisters'[q]]
    BY <2>2
  <2>6. QED
    BY <2>4, <2>5 DEF UserContext
<1>5. CASE LoadProgram(p)
  <2>1. /\ cpu = p /\ cpu' = p /\ pc' = [pc EXCEPT ![p] = "user"]
        /\ pageTableReg' = p /\ registers' = p /\ userRegisters' = userRegisters
    BY <1>5 DEF LoadProgram, Execute, InitRegisters, RestoreState
  <2>2. QED
    BY <2>1 DEF Running, UserContext
<1>6. CASE LoadFails(p)
  BY <1>0, <1>6 DEF Running, UserContext, LoadFails, context
<1>7. CASE LoadTooLarge(p) \/ \E v \in 0 .. NumPhysPages : Write(p, v) \/ Trap(p, v)
  BY <1>7 DEF UserContext, LoadTooLarge, Write, Trap, context
<1>8. QED
  BY <1>1, <1>2, <1>3, <1>4, <1>5, <1>6, <1>7

\* What SWITCH leaves of a thread is what it finds when the thread is next.
LEMMA KernelContextStep ==
  ASSUME Running, KernelContext, NEW p \in Procs,
         \/ Fork(p) \/ Yield(p) \/ Exit(p) \/ Run(p)
         \/ LoadProgram(p) \/ LoadTooLarge(p) \/ LoadFails(p)
         \/ \E v \in 0 .. NumPhysPages : Write(p, v) \/ Trap(p, v)
  PROVE  KernelContext'
<1>0. NoProc \notin Procs
  BY ProcsAssumption
<1>1. CASE Fork(p)
  <2>1. PICK g \in Programs : program' = [program EXCEPT ![p] = g] /\ StackAllocate(p, "RunProcess", g)
    BY <1>1 DEF Fork
  <2> DEFINE m == [NoState EXCEPT !.esp = Esp(p), !.pc = Code("ThreadRoot"),
                                  !.ecx = Code("Begin"), !.esi = Code("RunProcess"),
                                  !.edx = Arg(g), !.edi = Code("Finish")]
  <2>2. /\ m.esp = Esp(p) /\ m.pc = Code("ThreadRoot") /\ m.edx = Arg(g)
        /\ m.edi = Code("Finish") /\ m.ebp = NULL
    BY DEF NoState, Slots, Registers
  <2>3. /\ machineState' = [machineState EXCEPT ![p] = m]
        /\ stack' = [stack EXCEPT ![p] = NewStack]
        /\ cpuRegs' = cpuRegs /\ cpu' = cpu /\ pc' = [pc EXCEPT ![p] = "new"]
        /\ pc[p] = "none"
    BY <1>1, <2>1 DEF Fork, StackAllocate, NewStack
  <2> HIDE DEF m
  <2>4. /\ machineState'[p] = m /\ stack'[p] = NewStack /\ program'[p] = g /\ pc'[p] = "new"
        /\ \A q \in Procs : q # p => /\ machineState'[q] = machineState[q] /\ stack'[q] = stack[q]
                                     /\ program'[q] = program[q] /\ pc'[q] = pc[q]
    BY <2>1, <2>3 DEF KernelContext, Running
  <2>5. NewContext(p)'
    BY <2>2, <2>4 DEF NewContext, NewStack
  <2>6. ASSUME NEW q \in Procs, q # p
        PROVE  /\ NewContext(q) => NewContext(q)'
               /\ CpuContext(q) => CpuContext(q)'
               /\ SavedContext(q) => SavedContext(q)'
    BY <2>3, <2>4, <2>6 DEF NewContext, CpuContext, SavedContext, SwitchedStack, RunStack, NewStack
  <2>7. /\ machineState' = [q \in Procs |-> machineState'[q]]
        /\ stack' = [q \in Procs |-> stack'[q]]
        /\ program' = [q \in Procs |-> program'[q]]
    BY <2>1, <2>3 DEF KernelContext
  <2>8. ASSUME NEW q \in Procs
        PROVE  /\ pc'[q] = "new" => NewContext(q)'
               /\ pc'[q] \in {"begun", "user"} => IF cpu' = q THEN CpuContext(q)' ELSE SavedContext(q)'
    BY <2>3, <2>4, <2>5, <2>6 DEF KernelContext
  <2>9. QED
    BY <2>7, <2>8 DEF KernelContext
<1>2. CASE Yield(p) \/ Exit(p) \/ LoadFails(p)
  <2>1. /\ cpu = p /\ cpu' = NoProc /\ SwitchFrom(p) /\ program' = program
        /\ pc[p] \in {"begun", "user"}
        /\ \A q \in Procs : q # p => pc'[q] = pc[q]
        /\ pc'[p] # "new"
    BY <1>2 DEF Yield, Exit, LoadFails, Running
  <2>2. CpuContext(p)
    BY <2>1 DEF KernelContext
  <2>3. /\ stack'[p] = SwitchedStack(p, program[p])
        /\ machineState'[p].esp = Esp(p) /\ machineState'[p].ebp = Esp(p)
        /\ machineState'[p].edi = Code("Finish") /\ machineState'[p].pc = Code("Run")
        /\ \A q \in Procs : q # p => stack'[q] = stack[q] /\ machineState'[q] = machineState[q]
    BY <2>1, <2>2, SwitchFromContext
  <2>4. SavedContext(p)'
    BY <2>1, <2>3 DEF SavedContext, SwitchedStack, RunStack
  <2>5. ASSUME NEW q \in Procs, q # p
        PROVE  /\ NewContext(q) => NewContext(q)'
               /\ SavedContext(q) => SavedContext(q)'
    BY <2>1, <2>3, <2>5 DEF NewContext, SavedContext, SwitchedStack, RunStack, NewStack
  <2>6. /\ machineState' = [q \in Procs |-> machineState'[q]]
        /\ stack' = [q \in Procs |-> stack'[q]]
        /\ program' = [q \in Procs |-> program'[q]]
    BY <2>1 DEF KernelContext, SwitchFrom
  <2>7. ASSUME NEW q \in Procs
        PROVE  /\ pc'[q] = "new" => NewContext(q)'
               /\ pc'[q] \in {"begun", "user"} => IF cpu' = q THEN CpuContext(q)' ELSE SavedContext(q)'
    BY <1>0, <2>1, <2>4, <2>5 DEF KernelContext
  <2>8. QED
    BY <2>6, <2>7 DEF KernelContext
<1>3. CASE Run(p)
  <2> DEFINE gone == Zombies \cup BadZombies
  <2>1. /\ cpu = NoProc /\ cpu' = p /\ SwitchTo(p, gone) /\ p \notin gone
        /\ pc[p] \in {"new", "begun", "user"} /\ gone \in SUBSET Procs
        /\ pc'[p] \in {"begun", "user"}
        /\ \A q \in gone : pc'[q] = "none"
        /\ \A q \in Procs \ gone : q # p => pc'[q] = pc[q]
        /\ program' = [q \in Procs |-> IF q \in gone THEN NoProc ELSE program[q]]
    BY <1>3 DEF Run, Zombies, BadZombies, Running
  <2> HIDE DEF gone
  <2>2. NewContext(p) \/ SavedContext(p)
    BY <1>0, <2>1 DEF KernelContext
  <2>3. /\ stack'[p] = RunStack(program[p])
        /\ cpuRegs'["esp"] = Esp(p) /\ cpuRegs'["ebp"] = Esp(p)
        /\ cpuRegs'["edi"] = Code("Finish")
        /\ \A q \in Procs \ gone : /\ machineState'[q] = machineState[q]
                                   /\ q # p => stack'[q] = stack[q]
    BY <2>1, <2>2, SwitchToContext
  <2>4. CpuContext(p)'
    BY <2>1, <2>3 DEF CpuContext, RunStack
  <2>5. ASSUME NEW q \in Procs \ gone, q # p
        PROVE  /\ NewContext(q) => NewContext(q)'
               /\ SavedContext(q) => SavedContext(q)'
    BY <2>1, <2>3, <2>5 DEF NewContext, SavedContext, SwitchedStack, RunStack, NewStack
  <2>6. /\ machineState' = [q \in Procs |-> machineState'[q]]
        /\ stack' = [q \in Procs |-> stack'[q]]
        /\ program' = [q \in Procs |-> program'[q]]
    BY <2>1 DEF SwitchTo
  <2>7. ASSUME NEW q \in Procs
        PROVE  /\ pc'[q] = "new" => NewContext(q)'
               /\ pc'[q] \in {"begun", "user"} => IF cpu' = q THEN CpuContext(q)' ELSE SavedContext(q)'
    BY <1>0, <2>1, <2>4, <2>5 DEF KernelContext
  <2>8. QED
    BY <2>6, <2>7 DEF KernelContext
<1>4. CASE LoadProgram(p) \/ LoadTooLarge(p) \/ \E v \in 0 .. NumPhysPages : Write(p, v) \/ Trap(p, v)
  <2>1. /\ cpu = p /\ cpu' = cpu /\ program' = program /\ UNCHANGED switchVars
        /\ pc' = pc \/ (pc[p] = "begun" /\ pc' = [pc EXCEPT ![p] = "user"])
    BY <1>4 DEF LoadProgram, LoadTooLarge, Write, Trap
  <2>2. ASSUME NEW q \in Procs
        PROVE  /\ NewContext(q) => NewContext(q)'
               /\ CpuContext(q) => CpuContext(q)'
               /\ SavedContext(q) => SavedContext(q)'
    BY <2>1 DEF NewContext, CpuContext, SavedContext, SwitchedStack, RunStack, NewStack, switchVars
  <2>3. /\ machineState' = [q \in Procs |-> machineState'[q]]
        /\ stack' = [q \in Procs |-> stack'[q]]
        /\ program' = [q \in Procs |-> program'[q]]
    BY <2>1 DEF KernelContext, switchVars
  <2>4. ASSUME NEW q \in Procs
        PROVE  /\ pc'[q] = "new" => NewContext(q)'
               /\ pc'[q] \in {"begun", "user"} => IF cpu' = q THEN CpuContext(q)' ELSE SavedContext(q)'
    BY <2>1, <2>2 DEF KernelContext, Running
  <2>5. QED
    BY <2>3, <2>4 DEF KernelContext
<1>5. QED
  BY <1>1, <1>2, <1>3, <1>4

\* Steps that neither load a program nor destroy a thread leave the frames of
\* all address spaces alone.
LEMMA MappedSame ==
  ASSUME Mapped, UNCHANGED <<pageTableMap, numPages, pageTable>>,
         \A p \in Procs : pc'[p] \notin {"user", "zombie"} => numPages[p] = 0
  PROVE  Mapped'
<1>1. \A p \in Procs : Pages(p)' = Pages(p) /\ FramesOf(p)' = FramesOf(p)
  BY DEF Pages, FramesOf
<1>2. MapExact'
  BY <1>1 DEF Mapped, MapExact
<1>3. QED
  BY <1>1, <1>2 DEF Mapped

\* AllocateMemory gives a program frames that no other has, and the destructor
\* of a thread's address space gives back its frames and no other.
LEMMA MappedStep ==
  ASSUME Running, Mapped, NEW p \in Procs,
         \/ Fork(p) \/ Yield(p) \/ Exit(p) \/ Run(p)
         \/ LoadProgram(p) \/ LoadTooLarge(p) \/ LoadFails(p)
         \/ \E v \in 0 .. NumPhysPages : Write(p, v) \/ Trap(p, v)
  PROVE  Mapped'
<1>1. CASE Fork(p)
  BY <1>1, MappedSame DEF Fork, Mapped, Running
<1>2. CASE Yield(p) \/ Exit(p) \/ LoadFails(p)
  BY <1>2, MappedSame DEF Yield, Exit, LoadFails, Mapped, Running
<1>3. CASE LoadTooLarge(p) \/ \E v \in 0 .. NumPhysPages : Write(p, v) \/ Trap(p, v)
  BY <1>3, MappedSame DEF LoadTooLarge, Write, Trap, Mapped
<1>4. CASE Run(p)
  <2>1. /\ pageTableMap' = pageTableMap \ UNION {FramesOf(z) : z \in Zombies}
        /\ numPages' = [q \in Procs |-> IF q \in Zombies THEN 0 ELSE numPages[q]]
        /\ pageTable' = [q \in Procs |-> IF q \in Zombies THEN Empty ELSE pageTable[q]]
        /\ \A q \in Procs : q \notin Zombies /\ pc'[q] \notin {"user", "zombie"}
             => pc[q] \notin {"user", "zombie"}
        /\ Zombies \subseteq Procs
    BY <1>4 DEF Run, ReapAndRestore, Zombies, BadZombies, Running
  <2>2. \A q \in Procs : Pages(q)' = IF q \in Zombies THEN {} ELSE Pages(q)
    BY <2>1 DEF Pages
  <2>3. \A q \in Procs : FramesOf(q)' = IF q \in Zombies THEN {} ELSE FramesOf(q)
    <3>1. ASSUME NEW q \in Procs, q \in Zombies PROVE FramesOf(q)' = {}
      BY <2>2, <3>1 DEF FramesOf
    <3>2. ASSUME NEW q \in Procs, q \notin Zombies PROVE FramesOf(q)' = FramesOf(q)
      BY <2>1, <2>2, <3>2 DEF FramesOf
    <3>3. QED
      BY <3>1, <3>2
  <2>4. \A q, r \in Procs : q # r => FramesOf(q) \cap FramesOf(r) = {}
    BY DEF Mapped, FramesOf
  <2>5. MapExact'
    <3>1. pageTableMap = UNION {FramesOf(q) : q \in Procs}
      BY DEF Mapped, MapExact
    <3>2. pageTableMap' = UNION {FramesOf(q)' : q \in Procs}
      <4>1. ASSUME NEW f \in pageTableMap' PROVE f \in UNION {FramesOf(q)' : q \in Procs}
        BY <2>1, <2>3, <3>1
      <4>2. ASSUME NEW q \in Procs, NEW f \in FramesOf(q)' PROVE f \in pageTableMap'
        <5>1. q \notin Zombies /\ f \in FramesOf(q)
          BY <2>3, <4>2
        <5>2. \A z \in Zombies : f \notin FramesOf(z)
          BY <2>1, <2>4, <5>1
        <5>3. QED
          BY <2>1, <3>1, <5>1, <5>2
      <4>3. QED
        BY <4>1, <4>2
    <3>3. QED
      BY <3>2 DEF MapExact
  <2>6. /\ numPages' \in [Procs -> Nat]
        /\ pageTable' = [q \in Procs |-> pageTable'[q]]
    BY <2>1 DEF Mapped
  <2>7. \A q \in Procs : \A v \in Pages(q)' : pageTable'[q][v] \in Frames
    BY <2>1, <2>2 DEF Mapped
  <2>8. \A q \in Procs : pc'[q] \notin {"user", "zombie"} => numPages'[q] = 0
    BY <2>1 DEF Mapped
  <2>9. \A q, r \in Procs : \A v \in Pages(q)', w \in Pages(r)' :
          pageTable'[q][v] = pageTable'[r][w] => q = r /\ v = w
    BY <2>1, <2>2 DEF Mapped
  <2>10. QED
    BY <2>5, <2>6, <2>7, <2>8, <2>9 DEF Mapped
<1>5. CASE LoadProgram(p)
  <2> DEFINE n == Size(Header[Argument(p)])
             pt == [v \in 0 .. n - 1 |-> FindAndSet(v)]
  <2>1. /\ n \in 0 .. Cardinality(Frames \ pageTableMap)
        /\ pageTable' = [pageTable EXCEPT ![p] = pt]
        /\ pageTableMap' = pageTableMap \cup {pt[v] : v \in 0 .. n - 1}
        /\ numPages' = [numPages EXCEPT ![p] = n]
        /\ pc' = [pc EXCEPT ![p] = "user"] /\ pc[p] = "begun"
    BY <1>5 DEF LoadProgram
  <2>2. pageTableMap = UNION {FramesOf(q) : q \in Procs} /\ pageTableMap \subseteq Frames
    <3>1. pageTableMap = UNION {FramesOf(q) : q \in Procs}
      BY DEF Mapped, MapExact
    <3>2. \A q \in Procs : FramesOf(q) \subseteq Frames
      BY DEF Mapped, FramesOf
    <3>3. QED
      BY <3>1, <3>2
  <2>3. /\ \A i \in 0 .. n - 1 : FindAndSet(i) \in Frames \ pageTableMap
        /\ \A i, j \in 0 .. n - 1 : FindAndSet(i) = FindAndSet(j) => i = j
    <3> HIDE DEF n
    <3>1. QED
      BY <2>1, <2>2, FindAndSetFree
  <2>4. n \in Nat
    <3> HIDE DEF n
    <3>1. QED
      BY <2>1
  <2> HIDE DEF n
  <2>5. /\ \A v \in 0 .. n - 1 : pt[v] \in Frames \ pageTableMap
        /\ \A v, w \in 0 .. n - 1 : pt[v] = pt[w] => v = w
    BY <2>3
  <2> HIDE DEF pt
  <2>6. FramesOf(p) = {} /\ numPages[p] = 0
    <3>1. numPages[p] = 0
      BY <2>1 DEF Mapped
    <3>2. QED
      BY <3>1 DEF FramesOf, Pages
  <2>7. /\ Pages(p)' = 0 .. n - 1 /\ pageTable'[p] = pt
        /\ \A q \in Procs : q # p => /\ Pages(q)' = Pages(q) /\ pageTable'[q] = pageTable[q]
                                     /\ FramesOf(q)' = FramesOf(q)
    BY <2>1 DEF Mapped, Pages, FramesOf
  <2>8. FramesOf(p)' = {pt[v] : v \in 0 .. n - 1}
    BY <2>7 DEF FramesOf
  <2>9. MapExact'
    <3>1. pageTableMap' = UNION {FramesOf(q)' : q \in Procs}
      <4>1. ASSUME NEW f \in pageTableMap' PROVE f \in UNION {FramesOf(q)' : q \in Procs}
        <5>1. CASE f \in pageTableMap
          <6>1. PICK q \in Procs : f \in FramesOf(q)
            BY <2>2, <5>1
          <6>2. QED
            BY <2>6, <2>7, <6>1
        <5>2. CASE f \in {pt[v] : v \in 0 .. n - 1}
          BY <2>8, <5>2
        <5>3. QED
          BY <2>1, <5>1, <5>2
      <4>2. ASSUME NEW q \in Procs, NEW f \in FramesOf(q)' PROVE f \in pageTableMap'
        BY <2>1, <2>2, <2>7, <2>8
      <4>3. QED
        BY <4>1, <4>2
    <3>2. QED
      BY <3>1 DEF MapExact
  <2>10. /\ numPages' \in [Procs -> Nat]
         /\ pageTable' = [q \in Procs |-> pageTable'[q]]
    BY <2>1, <2>4 DEF Mapped
  <2>11. \A q \in Procs : \A v \in Pages(q)' : pageTable'[q][v] \in Frames
    BY <2>5, <2>7 DEF Mapped
  <2>12. \A q \in Procs : pc'[q] \notin {"user", "zombie"} => numPages'[q] = 0
    BY <2>1 DEF Mapped, Running
  <2>13. ASSUME NEW q \in Procs, NEW r \in Procs, NEW v \in Pages(q)', NEW w \in Pages(r)',
                pageTable'[q][v] = pageTable'[r][w]
         PROVE  q = r /\ v = w
    <3>1. \A s \in Procs : \A x \in Pages(s) : pageTable[s][x] \in pageTableMap
      BY <2>2 DEF FramesOf
    <3>2. CASE q = p /\ r = p
      BY <2>5, <2>7, <2>13, <3>2
    <3>3. CASE q = p /\ r # p
      BY <2>5, <2>7, <2>13, <3>1, <3>3
    <3>4. CASE q # p /\ r = p
      BY <2>5, <2>7, <2>13, <3>1, <3>4
    <3>5. CASE q # p /\ r # p
      BY <2>7, <2>13, <3>5 DEF Mapped
    <3>6. QED
      BY <3>2, <3>3, <3>4, <3>5
  <2>14. QED
    BY <2>9, <2>10, <2>11, <2>12, <2>13 DEF Mapped
<1>6. QED
  BY <1>1, <1>2, <1>3, <1>4, <1>5

\* A page of a program is written by the program, by Load on its behalf, or by
\* nobody: neither WriteMem nor Load reaches a frame of another program.
LEMMA IsolationStep ==
  ASSUME IInv, NEW p \in Procs,
         \/ Fork(p) \/ Yield(p) \/ Exit(p) \/ Run(p)
         \/ LoadProgram(p) \/ LoadTooLarge(p) \/ LoadFails(p)
         \/ \E v \in 0 .. NumPhysPages : Write(p, v) \/ Trap(p, v)
  PROVE  /\ mainMemory' = [f \in Frames |-> mainMemory'[f]]
         /\ MemoryShape' /\ Isolation'
<1>0. /\ Running /\ Mapped /\ UserContext
      /\ mainMemory = [f \in Frames |-> mainMemory[f]] /\ MemoryShape /\ Isolation
  BY DEF IInv
<1>1. CASE \/ Fork(p) \/ Yield(p) \/ Exit(p) \/ LoadFails(p) \/ LoadTooLarge(p)
           \/ \E v \in 0 .. NumPhysPages : Trap(p, v)
  <2>1. UNCHANGED <<mainMemory, numPages, pageTable>>
    BY <1>1 DEF Fork, Yield, Exit, LoadFails, LoadTooLarge, Trap
  <2>2. QED
    BY <1>0, <2>1 DEF MemoryShape, Isolation, Pages
<1>2. CASE Run(p)
  <2>1. /\ mainMemory' = mainMemory
        /\ numPages' = [q \in Procs |-> IF q \in Zombies THEN 0 ELSE numPages[q]]
        /\ pageTable' = [q \in Procs |-> IF q \in Zombies THEN Empty ELSE pageTable[q]]
    BY <1>2 DEF Run, ReapAndRestore
  <2>2. \A q \in Procs : Pages(q)' = IF q \in Zombies THEN {} ELSE Pages(q)
    BY <2>1 DEF Pages
  <2>3. QED
    BY <1>0, <2>1, <2>2 DEF MemoryShape, Isolation
<1>3. CASE LoadProgram(p)
  <2> DEFINE g == Header[Argument(p)]
             n == Size(g)
             pt == [v \in 0 .. n - 1 |-> FindAndSet(v)]
             page(f) == Image(g, CHOOSE v \in 0 .. n - 1 : pt[v] = f)
  <2>1. /\ mainMemory' = [f \in Frames |-> IF \E v \in 0 .. n - 1 : pt[v] = f
                                           THEN [by |-> p, what |-> page(f)]
                                           ELSE mainMemory[f]]
        /\ n \in 0 .. Cardinality(Frames \ pageTableMap)
        /\ pageTable' = [pageTable EXCEPT ![p] = pt]
        /\ numPages' = [numPages EXCEPT ![p] = n]
    BY <1>3 DEF LoadProgram
  <2> HIDE DEF n, page
  <2>2. pageTableMap = UNION {FramesOf(q) : q \in Procs} /\ pageTableMap \subseteq Frames
    <3>1. pageTableMap = UNION {FramesOf(q) : q \in Procs}
      BY <1>0 DEF Mapped, MapExact
    <3>2. \A q \in Procs : FramesOf(q) \subseteq Frames
      BY <1>0 DEF Mapped, FramesOf
    <3>3. QED
      BY <3>1, <3>2
  <2>3. \A v \in 0 .. n - 1 : pt[v] \in Frames \ pageTableMap
    BY <2>1, <2>2, FindAndSetFree
  <2> HIDE DEF pt
  <2>4. /\ Pages(p)' = 0 .. n - 1 /\ pageTable'[p] = pt
        /\ \A q \in Procs : q # p => Pages(q)' = Pages(q) /\ pageTable'[q] = pageTable[q]
    BY <1>0, <2>1 DEF Mapped, Pages
  <2>5. MemoryShape'
    <3>1. ASSUME NEW f \in Frames
          PROVE  mainMemory'[f] = [by |-> mainMemory'[f].by, what |-> mainMemory'[f].what]
      <4>1. CASE \E v \in 0 .. n - 1 : pt[v] = f
        <5>1. mainMemory'[f] = [by |-> p, what |-> page(f)]
          BY <2>1, <4>1
        <5>2. QED
          BY <5>1
      <4>2. CASE ~ \E v \in 0 .. n - 1 : pt[v] = f
        <5>1. mainMemory'[f] = mainMemory[f]
          BY <2>1, <4>2
        <5>2. QED
          BY <1>0, <5>1 DEF MemoryShape
      <4>3. QED
        BY <4>1, <4>2
    <3>2. QED
      BY <3>1 DEF MemoryShape
  <2>6. ASSUME NEW q \in Procs, NEW v \in Pages(q)' PROVE mainMemory'[pageTable'[q][v]].by = q
    <3>1. CASE q = p
      <4>1. v \in 0 .. n - 1 /\ pageTable'[q][v] = pt[v] /\ pt[v] \in Frames
        BY <2>3, <2>4, <2>6, <3>1
      <4>2. mainMemory'[pt[v]] = [by |-> p, what |-> page(pt[v])]
        BY <2>1, <4>1
      <4>3. QED
        BY <3>1, <4>1, <4>2
    <3>2. CASE q # p
      <4>1. v \in Pages(q) /\ pageTable'[q][v] = pageTable[q][v]
        BY <2>4, <2>6, <3>2
      <4>2. pageTable[q][v] \in pageTableMap /\ pageTable[q][v] \in Frames
        BY <2>2, <4>1 DEF FramesOf
      <4>3. mainMemory'[pageTable[q][v]] = mainMemory[pageTable[q][v]]
        BY <2>1, <2>3, <4>2
      <4>4. QED
        BY <1>0, <4>1, <4>3 DEF Isolation
    <3>3. QED
      BY <3>1, <3>2
  <2>7. QED
    BY <2>1, <2>5, <2>6 DEF Isolation
<1>4. ASSUME NEW u \in 0 .. NumPhysPages, Write(p, u)
      PROVE  /\ mainMemory' = [f \in Frames |-> mainMemory'[f]]
             /\ MemoryShape' /\ Isolation'
  <2>1. /\ UNCHANGED <<numPages, pageTable>> /\ cpu = p /\ pc[p] = "user"
        /\ mainMemory' = [mainMemory EXCEPT ![pageTable[pageTableReg][u]].by = p]
        /\ u \in Pages(pageTableReg)
    BY <1>4 DEF Write, Translate
  <2>2. pageTableReg = p
    BY <1>0, <2>1 DEF UserContext
  <2> DEFINE h == pageTable[p][u]
  <2>3. h \in Frames /\ u \in Pages(p)
    BY <1>0, <2>1, <2>2 DEF Mapped
  <2>4. mainMemory[h] = [by |-> mainMemory[h].by, what |-> mainMemory[h].what]
    BY <1>0, <2>3 DEF MemoryShape
  <2>5. /\ mainMemory' = [mainMemory EXCEPT ![h] = [mainMemory[h] EXCEPT !.by = p]]
        /\ DOMAIN mainMemory = Frames
    BY <1>0, <2>1, <2>2
  <2> HIDE DEF h
  <2>6. [mainMemory[h] EXCEPT !.by = p] = [by |-> p, what |-> mainMemory[h].what]
    BY <2>4
  <2>7. /\ mainMemory'[h] = [by |-> p, what |-> mainMemory[h].what]
        /\ \A f \in Frames : f # h => mainMemory'[f] = mainMemory[f]
        /\ mainMemory' = [f \in Frames |-> mainMemory'[f]]
    BY <2>3, <2>5, <2>6
  <2>8. MemoryShape'
    <3>1. ASSUME NEW f \in Frames
          PROVE  mainMemory'[f] = [by |-> mainMemory'[f].by, what |-> mainMemory'[f].what]
      <4>1. CASE f = h
        BY <2>7, <4>1
      <4>2. CASE f # h
        BY <1>0, <2>7, <4>2 DEF MemoryShape
      <4>3. QED
        BY <4>1, <4>2
    <3>2. QED
      BY <3>1 DEF MemoryShape
  <2>9. ASSUME NEW q \in Procs, NEW v \in Pages(q) PROVE mainMemory'[pageTable[q][v]].by = q
    <3>1. CASE pageTable[q][v] = h
      <4>1. q = p
        BY <1>0, <2>3, <2>9, <3>1 DEF Mapped, h
      <4>2. QED
        BY <2>7, <3>1, <4>1
    <3>2. CASE pageTable[q][v] # h
      <4>1. pageTable[q][v] \in Frames
        BY <1>0 DEF Mapped
      <4>2. QED
        BY <1>0, <2>7, <3>2, <4>1 DEF Isolation
    <3>3. QED
      BY <3>1, <3>2
  <2>10. QED
    BY <2>1, <2>7, <2>8, <2>9 DEF Isolation, Pages
<1>5. QED
  BY <1>1, <1>2, <1>3, <1>4

\* The invariant is inductive.
LEMMA NextIInv == IInv /\ [Next]_vars => IInv'
<1> SUFFICES ASSUME IInv, [Next]_vars PROVE IInv'
  OBVIOUS
<1>1. CASE Next
  <2>1. PICK p \in Procs : \/ Fork(p) \/ Yield(p) \/ Exit(p) \/ Run(p)
                           \/ LoadProgram(p) \/ LoadTooLarge(p) \/ LoadFails(p)
                           \/ \E v \in 0 .. NumPhysPages : Write(p, v) \/ Trap(p, v)
    BY <1>1 DEF Next
  <2>2. Running /\ Mapped /\ UserContext /\ KernelContext
    BY DEF IInv
  <2>3. Running'
    BY <2>1, <2>2, RunningStep
  <2>4. Mapped'
    BY <2>1, <2>2, MappedStep
  <2>5. UserContext'
    BY <2>1, <2>2, UserContextStep
  <2>6. KernelContext'
    BY <2>1, <2>2, KernelContextStep
  <2>7. /\ mainMemory' = [f \in Frames |-> mainMemory'[f]]
        /\ MemoryShape' /\ Isolation'
    BY <2>1, IsolationStep
  <2>8. QED
    BY <2>3, <2>4, <2>5, <2>6, <2>7 DEF IInv
<1>2. CASE UNCHANGED vars
  <2>1. /\ UNCHANGED <<pageTableMap, numPages, pageTable, program, pc, cpu>>
        /\ UNCHANGED <<pageTableReg, registers, userRegisters, mainMemory>>
        /\ UNCHANGED <<cpuRegs, machineState, stack>>
    BY <1>2 DEF vars, switchVars
  <2>2. Running' /\ UserContext'
    BY <2>1 DEF IInv, Running, UserContext
  <2>3. Mapped'
    BY <2>1, MappedSame DEF IInv, Mapped
  <2>4. KernelContext'
    <3>1. ASSUME NEW q \in Procs
          PROVE  /\ NewContext(q) => NewContext(q)'
                 /\ CpuContext(q) => CpuContext(q)'
                 /\ SavedContext(q) => SavedContext(q)'
      BY <2>1 DEF NewContext, CpuContext, SavedContext, SwitchedStack, RunStack, NewStack
    <3>2. QED
      BY <2>1, <3>1 DEF IInv, KernelContext
  <2>5. /\ mainMemory' = [f \in Frames |-> mainMemory'[f]]
        /\ MemoryShape' /\ Isolation'
    BY <2>1 DEF IInv, MemoryShape, Isolation, Pages
  <2>6. QED
    BY <2>2, <2>3, <2>4, <2>5 DEF IInv
<1>3. QED
  BY <1>1, <1>2

\* The invariant holds in every reachable state.
LEMMA AlwaysIInv == Spec => []IInv
  BY InitIInv, NextIInv, PTL DEF Spec

\* Whoever runs has its own context.
LEMMA OwnContextHolds == IInv => OwnContext
<1> SUFFICES ASSUME IInv, NEW p \in Procs, cpu = p
             PROVE  /\ cpuRegs["esp"] = Esp(p) /\ cpuRegs["ebp"] = Esp(p)
                    /\ Argument(p) = program[p] /\ WhenDone = Code("Finish")
                    /\ pc[p] = "user" => pageTableReg = p /\ registers = p
  BY DEF OwnContext
<1>1. CpuContext(p)
  BY DEF IInv, Running, KernelContext
<1>2. Last(stack[p]) = Arg(program[p])
  <2>1. stack[p] = <<Code("ThreadRoot"), NULL, Arg(program[p])>>
    BY <1>1 DEF CpuContext, RunStack
  <2>2. QED
    BY <2>1 DEF Last
<1>3. Argument(p) = program[p]
  BY <1>2 DEF Argument, Arg
<1>4. pc[p] = "user" => pageTableReg = p /\ registers = p
  BY DEF IInv, UserContext
<1>5. QED
  BY <1>1, <1>3, <1>4 DEF CpuContext, WhenDone

-----------------------------------------------------------------------------
(* What Load leaves in memory *)

\* A header with which Load goes through.
Loadable(g) == g.exists /\ g.noffMagic = NOFFMAGIC /\ ~WritesOutside(g)

\* A thread was forked to run a program, and once it is loaded each of its pages
\* is what Load left there.
Forked == \A p \in Procs : pc[p] # "none" => program[p] \in Programs
ImageKept ==
  \A p \in Loaded :
    /\ Loadable(Header[program[p]]) /\ numPages[p] = Size(Header[program[p]])
    /\ \A v \in Pages(p) : mainMemory[pageTable[p][v]].what = Image(Header[program[p]], v)
LoadedImage == Forked /\ ImageKept

\* Forked is kept by every step.
LEMMA ForkedStep ==
  ASSUME IInv, Forked, NEW p \in Procs,
         \/ Fork(p) \/ Yield(p) \/ Exit(p) \/ Run(p)
         \/ LoadProgram(p) \/ LoadTooLarge(p) \/ LoadFails(p)
         \/ \E v \in 0 .. NumPhysPages : Write(p, v) \/ Trap(p, v)
  PROVE  Forked'
<1>1. pc \in [Procs -> {"none", "new", "begun", "user", "zombie", "badzombie"}]
      /\ program = [q \in Procs |-> program[q]]
  BY DEF IInv, Running, KernelContext
<1>2. CASE Fork(p)
  <2>1. PICK x \in Programs : program' = [program EXCEPT ![p] = x]
    BY <1>2 DEF Fork
  <2>2. pc' = [pc EXCEPT ![p] = "new"]
    BY <1>2 DEF Fork
  <2>3. QED
    BY <1>1, <2>1, <2>2 DEF Forked
<1>3. CASE Run(p)
  <2>1. /\ pc' = [q \in Procs |-> IF q \in Zombies \cup BadZombies THEN "none"
                                  ELSE IF q = p /\ pc[p] = "new" THEN "begun" ELSE pc[q]]
        /\ program' = [q \in Procs |-> IF q \in Zombies \cup BadZombies THEN NoProc ELSE program[q]]
    BY <1>3 DEF Run
  <2>2. QED
    BY <1>1, <2>1 DEF Forked
<1>4. CASE \/ Yield(p) \/ LoadTooLarge(p) \/ \E v \in 0 .. NumPhysPages : Write(p, v) \/ Trap(p, v)
  BY <1>4 DEF Yield, LoadTooLarge, Write, Trap, Forked
<1>5. CASE Exit(p) \/ LoadProgram(p) \/ LoadFails(p)
  <2>1. program' = program /\ pc[p] # "none" /\ \A q \in Procs : q # p => pc'[q] = pc[q]
    BY <1>1, <1>5 DEF Exit, LoadProgram, LoadFails
  <2>2. QED
    BY <2>1 DEF Forked
<1>6. QED
  BY <1>2, <1>3, <1>4, <1>5

\* What is loaded stays so as long as page table, program and contents do.
LEMMA ImageSame ==
  ASSUME ImageKept,
         \A q \in Procs : pc'[q] \in {"user", "zombie"} =>
           /\ pc[q] \in {"user", "zombie"} /\ program'[q] = program[q]
           /\ numPages'[q] = numPages[q] /\ pageTable'[q] = pageTable[q]
           /\ \A v \in Pages(q) : mainMemory'[pageTable[q][v]].what = mainMemory[pageTable[q][v]].what
  PROVE  ImageKept'
<1>1. ASSUME NEW q \in Procs, pc'[q] \in {"user", "zombie"}
      PROVE  /\ Loadable(Header[program'[q]]) /\ numPages'[q] = Size(Header[program'[q]])
             /\ \A v \in Pages(q)' : mainMemory'[pageTable'[q][v]].what = Image(Header[program'[q]], v)
  <2>1. q \in Loaded /\ Pages(q)' = Pages(q)
    BY <1>1 DEF Loaded, Pages
  <2>2. QED
    BY <1>1, <2>1 DEF ImageKept
<1>2. QED
  BY <1>1 DEF ImageKept, Loaded

\* Load fills the pages of the program it loads and no others.
LEMMA ImageLoad ==
  ASSUME IInv, ImageKept, NEW p \in Procs, LoadProgram(p)
  PROVE  ImageKept'
<1> DEFINE g == Header[program[p]]
           n == Size(g)
           pt == [v \in 0 .. n - 1 |-> FindAndSet(v)]
<1>1. /\ Running /\ Mapped /\ Argument(p) = program[p]
  BY OwnContextHolds DEF IInv, OwnContext, LoadProgram
<1>2. /\ mainMemory' = [f \in Frames |->
                          IF \E v \in 0 .. n - 1 : pt[v] = f
                          THEN [by |-> p, what |-> Image(g, CHOOSE v \in 0 .. n - 1 : pt[v] = f)]
                          ELSE mainMemory[f]]
      /\ n \in 0 .. Cardinality(Frames \ pageTableMap) /\ Loadable(g)
      /\ pageTable' = [pageTable EXCEPT ![p] = pt]
      /\ numPages' = [numPages EXCEPT ![p] = n]
      /\ pc' = [pc EXCEPT ![p] = "user"] /\ program' = program
  BY <1>1 DEF LoadProgram, Loadable
<1> HIDE DEF n, g
<1>3. pageTableMap = UNION {FramesOf(q) : q \in Procs} /\ pageTableMap \subseteq Frames
  <2>1. pageTableMap = UNION {FramesOf(q) : q \in Procs}
    BY <1>1 DEF Mapped, MapExact
  <2>2. \A q \in Procs : FramesOf(q) \subseteq Frames
    BY <1>1 DEF Mapped, FramesOf
  <2>3. QED
    BY <2>1, <2>2
<1>4. /\ \A v \in 0 .. n - 1 : pt[v] \in Frames \ pageTableMap
      /\ \A v, w \in 0 .. n - 1 : pt[v] = pt[w] => v = w
  BY <1>2, <1>3, FindAndSetFree
<1> HIDE DEF pt
<1>5. /\ Pages(p)' = 0 .. n - 1 /\ pageTable'[p] = pt /\ numPages'[p] = n
      /\ \A q \in Procs : q # p => /\ Pages(q)' = Pages(q) /\ pageTable'[q] = pageTable[q]
                                   /\ numPages'[q] = numPages[q] /\ pc'[q] = pc[q]
  BY <1>1, <1>2 DEF Mapped, Running, Pages
<1>6. ASSUME NEW q \in Procs, pc'[q] \in {"user", "zombie"}
      PROVE  /\ Loadable(Header[program[q]]) /\ numPages'[q] = Size(Header[program[q]])
             /\ \A v \in Pages(q)' : mainMemory'[pageTable'[q][v]].what = Image(Header[program[q]], v)
  <2>1. CASE q = p
    <3>1. ASSUME NEW v \in 0 .. n - 1 PROVE mainMemory'[pt[v]].what = Image(g, v)
      <4> DEFINE w == CHOOSE u \in 0 .. n - 1 : pt[u] = pt[v]
      <4>1. w \in 0 .. n - 1 /\ pt[w] = pt[v]
        OBVIOUS
      <4>2. w = v
        <5> HIDE DEF w
        <5>1. QED
          BY <1>4, <4>1
      <4>3. pt[v] \in Frames /\ \E u \in 0 .. n - 1 : pt[u] = pt[v]
        BY <1>4
      <4>4. mainMemory'[pt[v]] = [by |-> p, what |-> Image(g, w)]
        BY <1>2, <4>3
      <4> HIDE DEF w
      <4>5. QED
        BY <4>2, <4>4
    <3>2. QED
      BY <1>2, <1>5, <2>1, <3>1 DEF g, n
  <2>2. CASE q # p
    <3>1. q \in Loaded /\ Pages(q)' = Pages(q) /\ pageTable'[q] = pageTable[q]
          /\ numPages'[q] = numPages[q]
      BY <1>5, <1>6, <2>2 DEF Loaded
    <3>2. ASSUME NEW v \in Pages(q) PROVE mainMemory'[pageTable[q][v]] = mainMemory[pageTable[q][v]]
      <4>1. pageTable[q][v] \in pageTableMap /\ pageTable[q][v] \in Frames
        BY <1>3, <3>2 DEF FramesOf
      <4>2. QED
        BY <1>2, <1>4, <4>1
    <3>3. QED
      BY <3>1, <3>2 DEF ImageKept
  <2>3. QED
    BY <2>1, <2>2
<1>7. QED
  BY <1>2, <1>6 DEF ImageKept, Loaded

\* Every other step leaves what is loaded.
LEMMA ImageStep ==
  ASSUME IInv, ImageKept, NEW p \in Procs,
         \/ Fork(p) \/ Yield(p) \/ Exit(p) \/ Run(p)
         \/ LoadProgram(p) \/ LoadTooLarge(p) \/ LoadFails(p)
         \/ \E v \in 0 .. NumPhysPages : Write(p, v) \/ Trap(p, v)
  PROVE  ImageKept'
<1>1. /\ pc \in [Procs -> {"none", "new", "begun", "user", "zombie", "badzombie"}]
      /\ program = [q \in Procs |-> program[q]] /\ numPages \in [Procs -> Nat]
      /\ pageTable = [q \in Procs |-> pageTable[q]]
  BY DEF IInv, Running, KernelContext, Mapped
<1>2. CASE Fork(p) \/ LoadFails(p)
  <2>1. /\ UNCHANGED <<numPages, pageTable, mainMemory>> /\ pc[p] \in {"none", "begun"}
        /\ pc'[p] \in {"new", "badzombie"}
        /\ \A q \in Procs : q # p => pc'[q] = pc[q] /\ program'[q] = program[q]
    BY <1>1, <1>2 DEF Fork, LoadFails
  <2>2. QED
    BY <2>1, ImageSame
<1>3. CASE Yield(p) \/ LoadTooLarge(p) \/ \E v \in 0 .. NumPhysPages : Trap(p, v)
  <2>1. UNCHANGED <<numPages, pageTable, mainMemory, pc, program>>
    BY <1>3 DEF Yield, LoadTooLarge, Trap
  <2>2. QED
    BY <2>1, ImageSame
<1>4. CASE Exit(p)
  <2>1. /\ UNCHANGED <<numPages, pageTable, mainMemory, program>> /\ pc[p] = "user"
        /\ \A q \in Procs : q # p => pc'[q] = pc[q]
    BY <1>1, <1>4 DEF Exit
  <2>2. QED
    BY <2>1, ImageSame
<1>5. CASE Run(p)
  <2>1. /\ mainMemory' = mainMemory
        /\ numPages' = [q \in Procs |-> IF q \in Zombies THEN 0 ELSE numPages[q]]
        /\ pageTable' = [q \in Procs |-> IF q \in Zombies THEN Empty ELSE pageTable[q]]
        /\ pc' = [q \in Procs |-> IF q \in Zombies \cup BadZombies THEN "none"
                                  ELSE IF q = p /\ pc[p] = "new" THEN "begun" ELSE pc[q]]
        /\ program' = [q \in Procs |-> IF q \in Zombies \cup BadZombies THEN NoProc ELSE program[q]]
    BY <1>5 DEF Run, ReapAndRestore
  <2>2. ASSUME NEW q \in Procs, pc'[q] \in {"user", "zombie"}
        PROVE  /\ pc[q] \in {"user", "zombie"} /\ program'[q] = program[q]
               /\ numPages'[q] = numPages[q] /\ pageTable'[q] = pageTable[q]
    <3>1. q \notin Zombies \cup BadZombies
      BY <2>1, <2>2
    <3>2. QED
      BY <2>1, <2>2, <3>1
  <2>3. QED
    BY <2>1, <2>2, ImageSame
<1>6. ASSUME NEW u \in 0 .. NumPhysPages, Write(p, u) PROVE ImageKept'
  <2>1. /\ UNCHANGED <<numPages, pageTable, pc, program>>
        /\ mainMemory' = [mainMemory EXCEPT ![pageTable[pageTableReg][u]].by = p]
    BY <1>6 DEF Write
  <2> DEFINE h == pageTable[pageTableReg][u]
  <2>2. ASSUME NEW q \in Procs, NEW v \in Pages(q)
        PROVE  mainMemory'[pageTable[q][v]].what = mainMemory[pageTable[q][v]].what
    <3> DEFINE f == pageTable[q][v]
    <3>1. f \in Frames /\ DOMAIN mainMemory = Frames
      BY DEF IInv, Mapped
    <3>2. mainMemory[f] = [by |-> mainMemory[f].by, what |-> mainMemory[f].what]
      BY <3>1 DEF IInv, MemoryShape
    <3> HIDE DEF f, h
    <3>3. mainMemory'[f] = IF f = h THEN [mainMemory[f] EXCEPT !.by = p] ELSE mainMemory[f]
      BY <2>1, <3>1 DEF h
    <3>4. [mainMemory[f] EXCEPT !.by = p].what = mainMemory[f].what
      BY <3>2
    <3>5. QED
      BY <3>3, <3>4 DEF f
  <2>3. QED
    BY <2>1, <2>2, ImageSame
<1>7. QED
  BY <1>2, <1>3, <1>4, <1>5, <1>6, ImageLoad

-----------------------------------------------------------------------------
(* From the compiler's file to the header that Load has *)

\* The word that four bytes make up.
WordOf(a, b, c, d) == a + b * 16 + c * 256 + d * 4096

\* A word is made up of its bytes.
LEMMA WordDigits ==
  ASSUME NEW w \in Word
  PROVE  \E a, b, c, d \in 0 .. 15 : w = WordOf(a, b, c, d) /\ BytesOf(w) = <<a, b, c, d>>
<1> DEFINE a == w % 16
           b == (w \div 16) % 16
           c == (w \div 256) % 16
           d == (w \div 4096) % 16
<1>1. w \in Nat /\ w < 65536
  BY DEF Word, Byte
<1>2. a \in 0 .. 15 /\ b \in 0 .. 15 /\ c \in 0 .. 15 /\ d \in 0 .. 15
  BY <1>1
<1>3. w = WordOf(a, b, c, d)
  BY <1>1 DEF WordOf
<1>4. 16 * 16 = 256 /\ 16 * 16 * 16 = 4096
  OBVIOUS
<1>5. BytesOf(w) = <<a, b, c, d>>
  BY <1>4 DEF BytesOf, Byte
<1> HIDE DEF a, b, c, d
<1>6. QED
  BY <1>2, <1>3, <1>5, Zenon

\* The bytes of what was made up of bytes.
LEMMA DigitsOf ==
  \A a, b, c, d \in 0 .. 15 : BytesOf(WordOf(a, b, c, d)) = <<a, b, c, d>>
<1> TAKE a, b, c, d \in 0 .. 15
<1> DEFINE w == WordOf(a, b, c, d)
<1>1. /\ w % 16 = a /\ (w \div 16) % 16 = b
      /\ (w \div 256) % 16 = c /\ (w \div 4096) % 16 = d
  BY DEF WordOf
<1>2. 16 * 16 = 256 /\ 16 * 16 * 16 = 4096
  OBVIOUS
<1> HIDE DEF w
<1>3. BytesOf(w) = <<a, b, c, d>>
  BY <1>1, <1>2 DEF BytesOf, Byte
<1>4. QED
  BY <1>3 DEF w

\* What the conversions make of a word w and of v, which has its bytes in the
\* other order.
Turns(w, v) ==
  /\ LoadBytes(BytesOf(w), FALSE) = w /\ LoadBytes(BytesOf(w), TRUE) = v
  /\ WordToHost(v, TRUE) = w /\ WordToHost(w, TRUE) = v /\ WordToHost(w, FALSE) = w
  /\ StoreBytes(v, TRUE) = BytesOf(w) /\ StoreBytes(w, FALSE) = BytesOf(w)

\* They turn the one into the other.
LEMMA BytesTurned ==
  ASSUME NEW a \in Int, NEW b \in Int, NEW c \in Int, NEW d \in Int, NEW w, NEW v,
         w = WordOf(a, b, c, d), v = WordOf(d, c, b, a),
         BytesOf(w) = <<a, b, c, d>>, BytesOf(v) = <<d, c, b, a>>
  PROVE  Turns(w, v)
<1>1. 16 * 16 = 256 /\ 16 * 16 * 16 = 4096
  OBVIOUS
<1>2. Turned(BytesOf(w)) = <<d, c, b, a>> /\ Turned(BytesOf(v)) = <<a, b, c, d>>
  BY DEF Turned
<1>3. LoadBytes(BytesOf(w), FALSE) = w
  BY <1>1 DEF LoadBytes, Byte, WordOf
<1>4. LoadBytes(BytesOf(w), TRUE) = v
  BY <1>1, <1>2 DEF LoadBytes, Byte, WordOf
<1>5. WordToHost(v, TRUE) = w
  BY <1>1 DEF WordToHost, Byte, WordOf
<1>6. WordToHost(w, TRUE) = v
  BY <1>1 DEF WordToHost, Byte, WordOf
<1>7. WordToHost(w, FALSE) = w
  BY DEF WordToHost
<1>8. StoreBytes(v, TRUE) = BytesOf(w) /\ StoreBytes(w, FALSE) = BytesOf(w)
  BY <1>2 DEF StoreBytes
<1>9. QED
  BY <1>3, <1>4, <1>5, <1>6, <1>7, <1>8, Zenon DEF Turns

\* The conversions of words: the converter reads what the file has and writes the
\* same bytes on a host of either byte order, and so does the kernel.
LEMMA WordsKept ==
  ASSUME NEW w \in Word
  PROVE  /\ ReadWord(w, TRUE) = w /\ ReadWord(w, FALSE) = w
         /\ StoreBytes(WordToHost(w, TRUE), TRUE) = BytesOf(w)
         /\ StoreBytes(WordToHost(w, FALSE), FALSE) = BytesOf(w)
         /\ LoadBytes(BytesOf(w), FALSE) = w
         /\ WordToHost(LoadBytes(BytesOf(w), TRUE), TRUE) = w
<1>1. PICK a \in 0 .. 15, b \in 0 .. 15, c \in 0 .. 15, d \in 0 .. 15 :
           w = WordOf(a, b, c, d) /\ BytesOf(w) = <<a, b, c, d>>
  BY WordDigits, Zenon
<1>2. PICK v : v = WordOf(d, c, b, a) /\ BytesOf(v) = <<d, c, b, a>>
  <2>1. BytesOf(WordOf(d, c, b, a)) = <<d, c, b, a>>
    BY <1>1, DigitsOf
  <2>2. QED
    BY <2>1, Zenon
<1>3. Turns(w, v)
  <2>1. a \in Int /\ b \in Int /\ c \in Int /\ d \in Int
    OBVIOUS
  <2>2. QED
    BY <1>1, <1>2, <2>1, BytesTurned
<1>4. QED
  BY <1>3, Zenon DEF ReadWord, Turns

\* The headers whose numbers are all words.
Segment == [virtualAddr : Word, inFileAddr : Word, size : Word]
NoffFile ==
  [exists : BOOLEAN, noffMagic : {NOFFMAGIC}, code : Segment, init : Segment,
   ro : Segment, uninit : Segment, body : Seq(Int)]

\* The conversions of one segment.
SwapSegment(seg, big) == EachOf(seg, LAMBDA w : WordToHost(w, big))
StoreSegment(seg, big) == EachOf(seg, LAMBDA w : StoreBytes(w, big))
LoadSegment(seg, big) == EachOf(seg, LAMBDA b : LoadBytes(b, big))

\* What the converter on a host of the byte order big does to a segment, and the
\* kernel on a host of the byte order host.
Travelled(seg, big, host) ==
  LoadSegment(StoreSegment(SwapSegment(seg, big), big), host)

\* A segment arrives as it was sent.
LEMMA SegmentKept ==
  ASSUME NEW seg \in Segment, NEW big \in BOOLEAN
  PROVE  /\ Travelled(seg, big, FALSE) = seg
         /\ SwapSegment(Travelled(seg, big, TRUE), TRUE) = seg
<1> DEFINE v == seg.virtualAddr
           i == seg.inFileAddr
           s == seg.size
<1>1. v \in Word /\ i \in Word /\ s \in Word
      /\ seg = [virtualAddr |-> v, inFileAddr |-> i, size |-> s]
  BY DEF Segment
<1> HIDE DEF v, i, s
<1> DEFINE bytes == [virtualAddr |-> BytesOf(v), inFileAddr |-> BytesOf(i), size |-> BytesOf(s)]
<1>2. ASSUME NEW w \in Word PROVE StoreBytes(WordToHost(w, big), big) = BytesOf(w)
  <2>1. big = TRUE \/ big = FALSE
    OBVIOUS
  <2>2. QED
    BY <2>1, WordsKept, Zenon
<1>3. StoreSegment(SwapSegment(seg, big), big) =
        [virtualAddr |-> StoreBytes(WordToHost(v, big), big),
         inFileAddr |-> StoreBytes(WordToHost(i, big), big),
         size |-> StoreBytes(WordToHost(s, big), big)]
  BY <1>1 DEF StoreSegment, SwapSegment, EachOf
<1>4. StoreSegment(SwapSegment(seg, big), big) = bytes
  BY <1>1, <1>2, <1>3
<1>5. Travelled(seg, big, FALSE) =
        [virtualAddr |-> LoadBytes(BytesOf(v), FALSE), inFileAddr |-> LoadBytes(BytesOf(i), FALSE),
         size |-> LoadBytes(BytesOf(s), FALSE)]
  BY <1>4 DEF Travelled, LoadSegment, EachOf
<1>6. SwapSegment(Travelled(seg, big, TRUE), TRUE) =
        [virtualAddr |-> WordToHost(LoadBytes(BytesOf(v), TRUE), TRUE),
         inFileAddr |-> WordToHost(LoadBytes(BytesOf(i), TRUE), TRUE),
         size |-> WordToHost(LoadBytes(BytesOf(s), TRUE), TRUE)]
  <2> DEFINE t == [virtualAddr |-> LoadBytes(BytesOf(v), TRUE),
                   inFileAddr |-> LoadBytes(BytesOf(i), TRUE),
                   size |-> LoadBytes(BytesOf(s), TRUE)]
  <2>1. Travelled(seg, big, TRUE) = t
    BY <1>4 DEF Travelled, LoadSegment, EachOf
  <2>2. SwapSegment(t, TRUE) =
          [virtualAddr |-> WordToHost(t.virtualAddr, TRUE),
           inFileAddr |-> WordToHost(t.inFileAddr, TRUE),
           size |-> WordToHost(t.size, TRUE)]
    BY DEF SwapSegment, EachOf
  <2>3. /\ t.virtualAddr = LoadBytes(BytesOf(v), TRUE)
        /\ t.inFileAddr = LoadBytes(BytesOf(i), TRUE) /\ t.size = LoadBytes(BytesOf(s), TRUE)
    OBVIOUS
  <2> HIDE DEF t
  <2>4. QED
    BY <2>1, <2>2, <2>3, Zenon
<1>7. \A w \in Word : LoadBytes(BytesOf(w), FALSE) = w /\ WordToHost(LoadBytes(BytesOf(w), TRUE), TRUE) = w
  BY WordsKept, Zenon
<1> HIDE DEF bytes
<1>8. QED
  BY <1>1, <1>5, <1>6, <1>7, Zenon

\* The magic number is not its own mirror image.
LEMMA MagicKept ==
  /\ NOFFMAGIC \in Word
  /\ LoadBytes(BytesOf(NOFFMAGIC), FALSE) = NOFFMAGIC
  /\ LoadBytes(BytesOf(NOFFMAGIC), TRUE) # NOFFMAGIC
  /\ WordToHost(LoadBytes(BytesOf(NOFFMAGIC), TRUE), TRUE) = NOFFMAGIC
  /\ \A big \in BOOLEAN : StoreBytes(WordToHost(NOFFMAGIC, big), big) = BytesOf(NOFFMAGIC)
<1>1. NOFFMAGIC \in Word
  BY DEF NOFFMAGIC, Word, Byte
<1>2. BytesOf(NOFFMAGIC) = <<10, 13, 11, 0>>
  <2>1. NOFFMAGIC = WordOf(10, 13, 11, 0)
    BY DEF NOFFMAGIC, WordOf
  <2>2. 10 \in 0 .. 15 /\ 13 \in 0 .. 15 /\ 11 \in 0 .. 15 /\ 0 \in 0 .. 15
    OBVIOUS
  <2>3. BytesOf(WordOf(10, 13, 11, 0)) = <<10, 13, 11, 0>>
    BY <2>2, DigitsOf, Zenon
  <2>4. QED
    BY <2>1, <2>3
<1>3. LoadBytes(<<10, 13, 11, 0>>, TRUE) # NOFFMAGIC
  BY DEF LoadBytes, Turned, Byte, NOFFMAGIC
<1>4. LoadBytes(BytesOf(NOFFMAGIC), TRUE) # NOFFMAGIC
  BY <1>2, <1>3
<1>5. \A big \in BOOLEAN : big = TRUE \/ big = FALSE
  OBVIOUS
<1>6. QED
  BY <1>1, <1>4, <1>5, WordsKept, Zenon

\* Load finds the header that the converter set up, whatever the byte orders of
\* the two hosts.
LEMMA HeaderKept ==
  ASSUME NEW name \in Programs, Copied(Coff[name]) \in NoffFile
  PROVE  Header[name] = Copied(Coff[name])
<1> DEFINE n == Copied(Coff[name])
           big == Coff[name].bigEndian
           e == n.exists
           c == n.code
           i == n.init
           r == n.ro
           u == n.uninit
           b == n.body
           M == NOFFMAGIC
<1>1. big \in BOOLEAN
  BY ProgramsAssumption
<1>2. /\ c \in Segment /\ i \in Segment /\ r \in Segment /\ u \in Segment
      /\ n = [exists |-> e, noffMagic |-> M, code |-> c, init |-> i, ro |-> r,
              uninit |-> u, body |-> b]
  BY DEF NoffFile
<1>3. Noff[name] = WriteHeader(SwapHeader(n, big), big)
  BY DEF Noff, Convert
<1>h. HostBigEndian \in BOOLEAN
  BY HostAssumption
<1> DEFINE g(host) == EachWord(Noff[name], LAMBDA w : LoadBytes(w, host))
<1>4. Header[name] = IF g(HostBigEndian).noffMagic # M /\ WordToHost(g(HostBigEndian).noffMagic, HostBigEndian) = M
                     THEN SwapHeader(g(HostBigEndian), HostBigEndian) ELSE g(HostBigEndian)
  BY DEF Header, KernelWordToHost, KernelSwapHeader, SwapHeader
<1> HIDE DEF n, big, e, c, i, r, u, b, M
<1> DEFINE n1 == [exists |-> e, noffMagic |-> WordToHost(M, big), code |-> SwapSegment(c, big),
                  init |-> SwapSegment(i, big), ro |-> SwapSegment(r, big),
                  uninit |-> SwapSegment(u, big), body |-> b]
           n2 == [exists |-> e, noffMagic |-> StoreBytes(WordToHost(M, big), big),
                  code |-> StoreSegment(SwapSegment(c, big), big),
                  init |-> StoreSegment(SwapSegment(i, big), big),
                  ro |-> StoreSegment(SwapSegment(r, big), big),
                  uninit |-> StoreSegment(SwapSegment(u, big), big), body |-> b]
           n3(host) == [exists |-> e, noffMagic |-> LoadBytes(StoreBytes(WordToHost(M, big), big), host),
                  code |-> Travelled(c, big, host), init |-> Travelled(i, big, host),
                  ro |-> Travelled(r, big, host), uninit |-> Travelled(u, big, host), body |-> b]
<1>5. SwapHeader(n, big) = n1
  BY <1>2 DEF SwapHeader, EachWord, SwapSegment, EachOf
<1>6. WriteHeader(n1, big) = n2
  BY DEF WriteHeader, EachWord, StoreSegment, EachOf
<1>7. Noff[name] = n2
  BY <1>3, <1>5, <1>6
<1>8. \A host \in BOOLEAN : g(host) = n3(host)
  BY <1>7 DEF EachWord, LoadSegment, EachOf, Travelled
<1>9. StoreBytes(WordToHost(M, big), big) = BytesOf(M)
  BY <1>1, MagicKept DEF M
<1>10. \A host \in BOOLEAN : n3(host).noffMagic = LoadBytes(BytesOf(M), host)
  BY <1>9
<1>11. CASE HostBigEndian = FALSE
  <2>1. n3(FALSE) = n
    <3>1. /\ Travelled(c, big, FALSE) = c /\ Travelled(i, big, FALSE) = i
          /\ Travelled(r, big, FALSE) = r /\ Travelled(u, big, FALSE) = u
      BY <1>1, <1>2, SegmentKept
    <3>2. LoadBytes(StoreBytes(WordToHost(M, big), big), FALSE) = M
      BY <1>9, MagicKept, Zenon DEF M
    <3>3. QED
      BY <1>2, <3>1, <3>2, Zenon
  <2>2. g(FALSE) = n
    BY <1>8, <2>1
  <2>3. n.noffMagic = M
    BY <1>2
  <2> HIDE DEF g, n3
  <2>4. QED
    BY <1>4, <1>11, <2>2, <2>3, Zenon DEF n
<1>12. CASE HostBigEndian = TRUE
  <2>1. SwapHeader(n3(TRUE), TRUE) = n
    <3>1. /\ SwapSegment(Travelled(c, big, TRUE), TRUE) = c
          /\ SwapSegment(Travelled(i, big, TRUE), TRUE) = i
          /\ SwapSegment(Travelled(r, big, TRUE), TRUE) = r
          /\ SwapSegment(Travelled(u, big, TRUE), TRUE) = u
      BY <1>1, <1>2, SegmentKept
    <3>2. WordToHost(LoadBytes(StoreBytes(WordToHost(M, big), big), TRUE), TRUE) = M
      BY <1>9, MagicKept, Zenon DEF M
    <3>3. SwapHeader(n3(TRUE), TRUE) =
            [exists |-> e,
             noffMagic |-> WordToHost(LoadBytes(StoreBytes(WordToHost(M, big), big), TRUE), TRUE),
             code |-> SwapSegment(Travelled(c, big, TRUE), TRUE),
             init |-> SwapSegment(Travelled(i, big, TRUE), TRUE),
             ro |-> SwapSegment(Travelled(r, big, TRUE), TRUE),
             uninit |-> SwapSegment(Travelled(u, big, TRUE), TRUE), body |-> b]
      BY DEF SwapHeader, EachWord, SwapSegment, EachOf
    <3>4. QED
      BY <1>2, <3>1, <3>2, <3>3, Zenon
  <2>2. /\ g(TRUE).noffMagic # M
        /\ WordToHost(g(TRUE).noffMagic, TRUE) = M
    <3>1. g(TRUE).noffMagic = LoadBytes(BytesOf(M), TRUE)
      BY <1>8, <1>10
    <3> HIDE DEF g, n3
    <3>2. QED
      BY <3>1, MagicKept, Zenon DEF M
  <2>3. SwapHeader(g(TRUE), TRUE) = n
    BY <1>8, <2>1
  <2> HIDE DEF g, n3
  <2>4. QED
    BY <1>4, <1>12, <2>2, <2>3, Zenon DEF n
<1>13. QED
  BY <1>h, <1>11, <1>12

\* The converter has the section headers as they are in the file.
LEMMA ScnhdrKept ==
  ASSUME NEW s \in Scnhdr, NEW big \in BOOLEAN
  PROVE  ReadScnhdr(s, big) = s
<1>1. \A w \in Word : ReadWord(w, big) = w
  <2>1. big = TRUE \/ big = FALSE
    OBVIOUS
  <2>2. QED
    BY <2>1, WordsKept, Zenon
<1>2. s.s_paddr \in Word /\ s.s_size \in Word /\ s.s_scnptr \in Word
      /\ s = [s_name |-> s.s_name, s_paddr |-> s.s_paddr, s_size |-> s.s_size, s_scnptr |-> s.s_scnptr]
  BY DEF Scnhdr
<1>3. ReadWord(s.s_paddr, big) = s.s_paddr /\ ReadWord(s.s_size, big) = s.s_size
      /\ ReadWord(s.s_scnptr, big) = s.s_scnptr
  BY <1>1, <1>2
<1>4. QED
  BY <1>2, <1>3 DEF ReadScnhdr

\* A COFF file, as the assumption on the programs has it.
IsCoff(c) == c.sections \in Seq(Scnhdr) /\ c.length \in Nat /\ c.bigEndian \in BOOLEAN

\* The segment of each kind of section that has contents.
Kinds == {".text", ".data", ".rdata"}
SegmentOf == [x \in Kinds |-> IF x = ".text" THEN "code" ELSE IF x = ".data" THEN "init" ELSE "ro"]

\* What the header n says of a section that was copied to where it is linked.
Placed(s) == [virtualAddr |-> s.s_paddr, inFileAddr |-> s.s_paddr, size |-> s.s_size]

\* Section s is in the NOFF file n as the loader will look for it.
Laid(n, s) ==
  s.s_size > 0 =>
    \/ /\ s.s_name \in Kinds /\ n[SegmentOf[s.s_name]] = Placed(s)
       /\ s.s_paddr + s.s_size =< Len(n.body)
       /\ \A k \in 0 .. s.s_size - 1 : n.body[s.s_paddr + k + 1] = s.s_scnptr + k
    \/ s.s_name = ".bss" /\ Len(n.body) =< s.s_paddr

\* The loop of the converter after i sections of c, with the NOFF file n.
NoneYet(c, i, x) == \A j \in 1 .. i : c.sections[j].s_name # x
Comes(c, j, x, seg) == c.sections[j].s_name = x /\ seg = Placed(c.sections[j])
Straight(c, i, n) ==
  /\ n.uninit.size > 0 => n.uninit.virtualAddr = Len(n.body)
  /\ Len(n.body) + n.uninit.size = EndOf(c, i)
Fits(c, i, n) ==
  /\ \A j \in 1 .. i : Laid(n, c.sections[j])
  /\ \A x \in Kinds : n[SegmentOf[x]].virtualAddr = n[SegmentOf[x]].inFileAddr
  /\ \A x \in Kinds : n[SegmentOf[x]].size > 0 => \E j \in 1 .. i : Comes(c, j, x, n[SegmentOf[x]])
  /\ n.code.size + n.ro.size + n.init.size = Len(n.body)
  /\ n.uninit.size > 0 => Len(n.body) =< n.uninit.virtualAddr
  /\ Len(n.body) =< EndOf(c, i)
  /\ NoneYet(c, i, ".bss") => n.uninit.size = 0 /\ Len(n.body) = EndOf(c, i)
  /\ Gapless(c) => Straight(c, i, n)
Done(c, i, n) == n \in NoffFile /\ (n.exists => Fits(c, i, n))

\* A file whose segment y is set and whose contents become b.
WithSegment(n, y, seg, b) == [n EXCEPT ![y] = seg, !.body = b]
SegmentSet(n, m, y, seg, b) ==
  /\ m \in NoffFile /\ m[y] = seg /\ m.body = b /\ m.uninit = n.uninit /\ m.exists = n.exists
  /\ \A z \in {"code", "init", "ro"} : z # y => m[z] = n[z]

\* Its other parts stay.
LEMMA SetSegment ==
  ASSUME NEW n \in NoffFile, NEW y \in {"code", "init", "ro"}, NEW seg \in Segment, NEW b \in Seq(Int)
  PROVE  SegmentSet(n, WithSegment(n, y, seg, b), y, seg, b)
  BY DEF NoffFile, WithSegment, SegmentSet

\* The numbers of a section header.
LEMMA ScnhdrNumbers ==
  ASSUME NEW s \in Scnhdr
  PROVE  /\ s.s_paddr \in Word /\ s.s_size \in Word /\ s.s_scnptr \in Word
         /\ s.s_paddr \in Nat /\ s.s_size \in Nat /\ s.s_scnptr \in Nat
<1>1. s.s_paddr \in Word /\ s.s_size \in Word /\ s.s_scnptr \in Word
  BY DEF Scnhdr
<1>2. Word \subseteq Nat
  BY DEF Word, Byte
<1>3. QED
  BY <1>1, <1>2

\* Where the linker has put section i.
LEMMA LinkedAt ==
  ASSUME NEW c, IsCoff(c), Linked(c), NEW i \in 1 .. Len(c.sections)
  PROVE  /\ c.sections[i] \in Scnhdr /\ c.sections[i].s_paddr >= EndOf(c, i - 1)
         /\ c.sections[i].s_name # ".bss" =>
              /\ NoneYet(c, i - 1, ".bss") /\ NoneYet(c, i - 1, c.sections[i].s_name)
              /\ c.sections[i].s_paddr = EndOf(c, i - 1)
         /\ Gapless(c) => c.sections[i].s_paddr = EndOf(c, i - 1)
<1> DEFINE S == c.sections
<1>1. S \in Seq(Scnhdr) /\ Len(S) \in Nat
  BY DEF IsCoff
<1>2. S[i] \in Scnhdr
  BY <1>1, ElementOfSeq
<1>3. /\ S[i].s_paddr >= EndOf(c, i - 1)
      /\ S[i].s_name # ".bss" => S[i].s_paddr = EndOf(c, i - 1)
      /\ \A j \in 1 .. i - 1 : S[j].s_name \in {S[i].s_name, ".bss"} => S[i].s_name = ".bss"
  BY DEF Linked
<1>4. Gapless(c) => S[i].s_paddr = EndOf(c, i - 1)
  BY DEF Gapless
<1>5. QED
  BY <1>2, <1>3, <1>4 DEF NoneYet

\* A section ends at a natural number.
LEMMA EndOfNat ==
  ASSUME NEW c, IsCoff(c), NEW i \in 0 .. Len(c.sections)
  PROVE  EndOf(c, i) \in Nat
<1>1. CASE i = 0
  BY <1>1 DEF EndOf
<1>2. CASE i # 0
  <2>1. i \in 1 .. Len(c.sections)
    BY <1>2
  <2>2. c.sections[i] \in Scnhdr
    BY <2>1, ElementOfSeq DEF IsCoff
  <2>3. c.sections[i].s_paddr \in Nat /\ c.sections[i].s_size \in Nat
    BY <2>2, ScnhdrNumbers
  <2>4. QED
    BY <1>2, <2>3 DEF EndOf
<1>3. QED
  BY <1>1, <1>2

\* What a section is in a file that goes on behind the first one.
LEMMA LaidOn ==
  ASSUME NEW n \in NoffFile, NEW m \in NoffFile, NEW t \in Seq(Int), NEW s \in Scnhdr,
         m.body = n.body \o t, Laid(n, s),
         s.s_name # ".bss", s.s_name \in Kinds => m[SegmentOf[s.s_name]] = n[SegmentOf[s.s_name]]
  PROVE  Laid(m, s)
<1>1. SUFFICES ASSUME s.s_size > 0, s.s_name \in Kinds,
                      n[SegmentOf[s.s_name]] = Placed(s),
                      s.s_paddr + s.s_size =< Len(n.body),
                      \A k \in 0 .. s.s_size - 1 : n.body[s.s_paddr + k + 1] = s.s_scnptr + k
               PROVE  /\ s.s_paddr + s.s_size =< Len(m.body)
                      /\ \A k \in 0 .. s.s_size - 1 : m.body[s.s_paddr + k + 1] = s.s_scnptr + k
  BY DEF Laid
<1>2. n.body \in Seq(Int) /\ Len(n.body) \in Nat /\ Len(t) \in Nat
  BY LenProperties DEF NoffFile
<1>3. Len(m.body) = Len(n.body) + Len(t) /\ \A k \in 1 .. Len(n.body) : m.body[k] = n.body[k]
  BY <1>2, ConcatProperties
<1> DEFINE a == s.s_paddr
           z == s.s_size
           l == Len(n.body)
<1>4. a \in Nat /\ z \in Nat
  BY ScnhdrNumbers
<1>5. a + z =< Len(m.body)
  BY <1>1, <1>2, <1>3, <1>4
<1>6. ASSUME NEW k \in 0 .. z - 1 PROVE a + k + 1 \in 1 .. l
  <2> HIDE DEF a, z, l
  <2>1. a + z =< l /\ l \in Nat
    BY <1>1, <1>2 DEF a, z, l
  <2>2. QED
    BY <1>4, <2>1
<1>7. QED
  BY <1>1, <1>3, <1>5, <1>6

\* A refused file.
LEMMA Refused ==
  ASSUME NEW c, NEW i, NEW n \in NoffFile
  PROVE  Done(c, i, Refuse(n))
  BY DEF Done, Refuse, NoffFile

\* A sequence of pages behind another one.
LEMMA PagesBehind ==
  ASSUME NEW z \in Nat, NEW p \in Nat, NEW b \in Seq(Int), NEW t, t = [j \in 1 .. z |-> p + j - 1]
  PROVE  /\ t \in Seq(Int) /\ b \o t \in Seq(Int) /\ Len(b \o t) = Len(b) + z
         /\ \A k \in 0 .. z - 1 : (b \o t)[Len(b) + k + 1] = p + k
<1>1. t \in [1 .. z -> Int]
  OBVIOUS
<1>2. t \in Seq(Int)
  <2>1. \E w \in Nat : t \in [1 .. w -> Int]
    BY <1>1
  <2>2. QED
    BY <2>1, SeqDef
<1>3. Len(t) = z
  BY <1>1, <1>2
<1>4. b \o t \in Seq(Int) /\ Len(b \o t) = Len(b) + z
  BY <1>2, <1>3, ConcatProperties
<1>5. ASSUME NEW k \in 0 .. z - 1 PROVE (b \o t)[Len(b) + k + 1] = p + k
  <2> DEFINE l == Len(b)
             x == l + k + 1
  <2>1. l \in Nat
    BY LenProperties
  <2> HIDE DEF l
  <2>2. x \in 1 .. l + z /\ ~(x =< l) /\ x - l = k + 1
    BY <2>1
  <2> HIDE DEF x
  <2>3. (b \o t)[x] = t[x - l]
    BY <1>2, <1>3, <2>2, ConcatProperties DEF l
  <2>4. t[k + 1] = p + k
    OBVIOUS
  <2>5. (b \o t)[x] = p + k
    BY <2>2, <2>3, <2>4
  <2>6. QED
    BY <2>5 DEF x, l
<1>6. QED
  BY <1>2, <1>4, <1>5

\* The invariant of the loop when a section is copied.
LEMMA CopyDone ==
  ASSUME NEW c, IsCoff(c), Linked(c), NEW i \in 1 .. Len(c.sections), NEW n \in NoffFile,
         n.exists, Fits(c, i - 1, n), NEW s, s = c.sections[i], s.s_size > 0, s.s_name \in Kinds
  PROVE  Done(c, i, CopySection(c, n, SegmentOf[s.s_name], s))
<1> DEFINE x == s.s_name
           y == SegmentOf[x]
           t == [j \in 1 .. s.s_size |-> s.s_scnptr + j - 1]
           m == [n EXCEPT ![y] = [virtualAddr |-> s.s_paddr, inFileAddr |-> Len(n.body), size |-> s.s_size],
                          !.body = @ \o t]
           l == Len(n.body)
           a == s.s_paddr
           z == s.s_size
<1>1. /\ s \in Scnhdr /\ a = EndOf(c, i - 1) /\ NoneYet(c, i - 1, ".bss") /\ NoneYet(c, i - 1, x)
  <2>1. x # ".bss"
    BY DEF Kinds
  <2>2. QED
    BY <2>1, LinkedAt
<1>2. a \in Word /\ z \in Word /\ a \in Nat /\ z \in Nat /\ s.s_scnptr \in Nat
  BY <1>1, ScnhdrNumbers
<1>3. l = a /\ n.uninit.size = 0 /\ n[y].size = 0
  <2>1. n.uninit.size = 0 /\ l = a /\ l \in Nat
    BY <1>1, LenProperties DEF Fits, NoffFile
  <2>2. ~ (n[y].size > 0)
    BY <1>1 DEF Fits, NoneYet, Comes
  <2>3. n[y].size \in Nat
    <3>1. y \in {"code", "init", "ro"}
      BY DEF SegmentOf
    <3>2. n[y].size \in Word
      BY <3>1 DEF NoffFile, Segment
    <3>3. Word \subseteq Nat
      BY DEF Word, Byte
    <3>4. QED
      BY <3>2, <3>3
  <2>4. QED
    BY <2>1, <2>2, <2>3
<1>4. SUFFICES Done(c, i, m)
  BY Refused DEF CopySection
<1>5. n.body \in Seq(Int)
  BY DEF NoffFile
<1>t. t = [j \in 1 .. z |-> s.s_scnptr + j - 1]
  OBVIOUS
<1>6. /\ t \in Seq(Int) /\ n.body \o t \in Seq(Int) /\ Len(n.body \o t) = l + z
      /\ \A k \in 0 .. z - 1 : (n.body \o t)[l + k + 1] = s.s_scnptr + k
  <2> DEFINE p == s.s_scnptr
             b == n.body
  <2>1. p \in Nat /\ b \in Seq(Int) /\ t = [j \in 1 .. z |-> p + j - 1]
    BY <1>2, <1>5, <1>t
  <2> HIDE DEF t, z, p, b
  <2>2. /\ t \in Seq(Int) /\ b \o t \in Seq(Int) /\ Len(b \o t) = Len(b) + z
        /\ \A k \in 0 .. z - 1 : (b \o t)[Len(b) + k + 1] = p + k
    BY <1>2, <2>1, PagesBehind
  <2>3. QED
    BY <2>2 DEF b, p
<1>7. y \in {"code", "init", "ro"}
  BY DEF SegmentOf
<1>8. \A w \in Kinds : w # x => SegmentOf[w] # y /\ SegmentOf[w] \in {"code", "init", "ro"}
  BY DEF SegmentOf, Kinds
<1>9. m = [n EXCEPT ![y] = Placed(s), !.body = n.body \o t] /\ Placed(s) \in Segment
  BY <1>2, <1>3, <1>7 DEF Placed, Segment, NoffFile
<1> HIDE DEF x, y, t, m, l, a, z
<1>10. /\ m \in NoffFile /\ m[y] = Placed(s) /\ m.body = n.body \o t /\ m.uninit = n.uninit
       /\ m.exists = n.exists
       /\ \A w \in {"code", "init", "ro"} : w # y => m[w] = n[w]
  <2> DEFINE b == n.body \o t
             seg == Placed(s)
  <2>1. m = WithSegment(n, y, seg, b) /\ b \in Seq(Int) /\ seg \in Segment
    BY <1>6, <1>9 DEF WithSegment
  <2> HIDE DEF b, seg
  <2>2. SegmentSet(n, m, y, seg, b)
    BY <1>7, <2>1, SetSegment
  <2>3. QED
    BY <2>2 DEF SegmentSet, b, seg
<1>11. \A j \in 1 .. i : Laid(m, c.sections[j])
  <2>1. ASSUME NEW j \in 1 .. i, j # i PROVE Laid(m, c.sections[j])
    <3>1. j \in 1 .. i - 1
      BY <2>1
    <3>2. Laid(n, c.sections[j]) /\ c.sections[j].s_name # x /\ c.sections[j].s_name # ".bss"
      BY <1>1, <3>1 DEF Fits, NoneYet
    <3>3. c.sections[j] \in Scnhdr
      BY ElementOfSeq DEF IsCoff
    <3>4. c.sections[j].s_name \in Kinds => m[SegmentOf[c.sections[j].s_name]] = n[SegmentOf[c.sections[j].s_name]]
      BY <1>8, <1>10, <3>2
    <3>5. QED
      BY <1>6, <1>10, <3>2, <3>3, <3>4, LaidOn
  <2>2. Laid(m, s)
    <3>1. Len(m.body) = a + z
      BY <1>3, <1>6, <1>10
    <3>2. \A k \in 0 .. z - 1 : m.body[a + k + 1] = s.s_scnptr + k
      BY <1>3, <1>6, <1>10
    <3>3. /\ s.s_name \in Kinds /\ m[SegmentOf[s.s_name]] = Placed(s)
          /\ s.s_paddr + s.s_size =< Len(m.body)
          /\ \A k \in 0 .. s.s_size - 1 : m.body[s.s_paddr + k + 1] = s.s_scnptr + k
      <4>1. a + z =< Len(m.body)
        BY <1>2, <3>1
      <4>2. x \in Kinds /\ m[SegmentOf[x]] = Placed(s)
        BY <1>10 DEF x, y
      <4>3. QED
        BY <3>2, <4>1, <4>2 DEF a, z, x
    <3>4. QED
      BY <3>3 DEF Laid
  <2>3. QED
    BY <2>1, <2>2
<1>12. \A w \in Kinds : m[SegmentOf[w]].virtualAddr = m[SegmentOf[w]].inFileAddr
  <2>1. m[y].virtualAddr = m[y].inFileAddr
    BY <1>10 DEF Placed
  <2>2. QED
    BY <1>8, <1>10, <2>1 DEF Fits, y
<1>13. ASSUME NEW w \in Kinds, m[SegmentOf[w]].size > 0
       PROVE  \E j \in 1 .. i : Comes(c, j, w, m[SegmentOf[w]])
  <2>1. CASE w = x
    <3>1. m[SegmentOf[w]] = Placed(s)
      BY <1>10, <2>1 DEF y
    <3>2. Comes(c, i, w, m[SegmentOf[w]])
      BY <2>1, <3>1 DEF Comes, x
    <3>3. QED
      BY <3>2
  <2>2. CASE w # x
    <3>1. m[SegmentOf[w]] = n[SegmentOf[w]]
      BY <1>8, <1>10, <2>2
    <3>2. PICK j \in 1 .. i - 1 : Comes(c, j, w, n[SegmentOf[w]])
      BY <1>13, <3>1 DEF Fits
    <3>3. QED
      BY <3>1, <3>2
  <2>3. QED
    BY <2>1, <2>2
<1>14. m.code.size + m.ro.size + m.init.size = Len(m.body)
  <2>1. m[y].size = z
    BY <1>10 DEF Placed, z
  <2>2. n.code.size \in Nat /\ n.ro.size \in Nat /\ n.init.size \in Nat
    <3>1. n.code.size \in Word /\ n.ro.size \in Word /\ n.init.size \in Word
      BY DEF NoffFile, Segment
    <3>2. Word \subseteq Nat
      BY DEF Word, Byte
    <3>3. QED
      BY <3>1, <3>2
  <2>3. n.code.size + n.ro.size + n.init.size = l
    BY DEF Fits, l
  <2>4. Len(m.body) = l + z
    BY <1>6, <1>10
  <2>5. CASE y = "code"
    <3>1. m.code.size = z /\ n.code.size = 0 /\ m.ro.size = n.ro.size /\ m.init.size = n.init.size
      BY <1>3, <1>10, <2>1, <2>5
    <3>2. QED
      BY <1>2, <2>2, <2>3, <2>4, <3>1
  <2>6. CASE y = "init"
    <3>1. m.init.size = z /\ n.init.size = 0 /\ m.ro.size = n.ro.size /\ m.code.size = n.code.size
      BY <1>3, <1>10, <2>1, <2>6
    <3>2. QED
      BY <1>2, <2>2, <2>3, <2>4, <3>1
  <2>7. CASE y = "ro"
    <3>1. m.ro.size = z /\ n.ro.size = 0 /\ m.code.size = n.code.size /\ m.init.size = n.init.size
      BY <1>3, <1>10, <2>1, <2>7
    <3>2. QED
      BY <1>2, <2>2, <2>3, <2>4, <3>1
  <2>8. QED
    BY <1>7, <2>5, <2>6, <2>7
<1>15. m.uninit.size = 0 /\ Len(m.body) + m.uninit.size = EndOf(c, i) /\ Len(m.body) = EndOf(c, i)
       /\ EndOf(c, i) \in Nat
  <2>1. m.uninit.size = 0 /\ Len(m.body) = a + z
    BY <1>3, <1>6, <1>10
  <2>2. a + z + 0 = EndOf(c, i) /\ a + z = EndOf(c, i)
    BY <1>2 DEF EndOf, a, z
  <2>3. QED
    BY <1>2, <2>1, <2>2
<1>16. Straight(c, i, m)
  BY <1>15 DEF Straight
<1>17. QED
  BY <1>10, <1>11, <1>12, <1>13, <1>14, <1>15, <1>16 DEF Done, Fits

\* The invariant of the loop when a section is empty.
LEMMA SkipDone ==
  ASSUME NEW c, IsCoff(c), Linked(c), NEW i \in 1 .. Len(c.sections), NEW n \in NoffFile,
         n.exists, Fits(c, i - 1, n), c.sections[i].s_size = 0
  PROVE  Done(c, i, n)
<1> DEFINE s == c.sections[i]
           l == Len(n.body)
           e == EndOf(c, i - 1)
<1>1. /\ s \in Scnhdr /\ s.s_paddr >= e
      /\ s.s_name # ".bss" => s.s_paddr = e
      /\ Gapless(c) => s.s_paddr = e
  BY LinkedAt
<1>2. EndOf(c, i) = s.s_paddr /\ s.s_paddr \in Nat
  <2>1. s.s_paddr \in Nat
    BY <1>1, ScnhdrNumbers
  <2>2. EndOf(c, i) = s.s_paddr + s.s_size
    BY DEF EndOf
  <2>3. QED
    BY <2>1, <2>2
<1>3. \A x : NoneYet(c, i, x) => NoneYet(c, i - 1, x)
  BY DEF NoneYet
<1>4. \A j \in 1 .. i : j = i \/ j \in 1 .. i - 1
  OBVIOUS
<1>5. Laid(n, s)
  BY DEF Laid
<1>6. \A j \in 1 .. i : Laid(n, c.sections[j])
  BY <1>4, <1>5 DEF Fits
<1>7. 1 .. i - 1 \subseteq 1 .. i
  OBVIOUS
<1>8. l \in Nat /\ e \in Nat /\ l =< e
  <2>1. e \in Nat
    BY EndOfNat
  <2>2. QED
    BY <2>1, LenProperties DEF NoffFile, Fits
<1>9. NoneYet(c, i, ".bss") => s.s_name # ".bss"
  BY DEF NoneYet
<1> HIDE DEF s
<1>10. Len(n.body) =< EndOf(c, i)
  <2> HIDE DEF l, e
  <2>1. l =< s.s_paddr
    BY <1>1, <1>2, <1>8
  <2>2. QED
    BY <1>2, <2>1 DEF l
<1>11. NoneYet(c, i, ".bss") => n.uninit.size = 0 /\ Len(n.body) = EndOf(c, i)
  BY <1>1, <1>2, <1>3, <1>9 DEF Fits
<1>12. Gapless(c) => Straight(c, i, n)
  BY <1>1, <1>2 DEF Fits, Straight
<1>13. QED
  BY <1>6, <1>7, <1>10, <1>11, <1>12 DEF Fits, Done

\* The invariant of the loop when the section is uninitialised data.
LEMMA BssDone ==
  ASSUME NEW c, IsCoff(c), Linked(c), NEW i \in 1 .. Len(c.sections), NEW n \in NoffFile,
         n.exists, Fits(c, i - 1, n), NEW s, s = c.sections[i], s.s_size > 0, s.s_name = ".bss"
  PROVE  Done(c, i, AddBss(n, s))
<1> DEFINE l == Len(n.body)
           o == n.uninit
           first == [virtualAddr |-> s.s_paddr, inFileAddr |-> o.inFileAddr, size |-> s.s_size]
           more == [virtualAddr |-> o.virtualAddr, inFileAddr |-> o.inFileAddr,
                    size |-> (o.size + s.s_size) % (Byte * Byte * Byte * Byte)]
<1>1. s \in Scnhdr /\ s.s_paddr >= EndOf(c, i - 1) /\ (Gapless(c) => s.s_paddr = EndOf(c, i - 1))
  BY LinkedAt
<1>2. s.s_paddr \in Word /\ s.s_size \in Word /\ s.s_paddr \in Nat /\ s.s_size \in Nat
  BY <1>1, ScnhdrNumbers
<1>3. o \in Segment /\ o.inFileAddr \in Word /\ o.virtualAddr \in Word /\ o.size \in Nat /\ l \in Nat
      /\ o.virtualAddr \in Nat
  <2>1. o \in Segment /\ n.body \in Seq(Int)
    BY DEF NoffFile
  <2>2. Word \subseteq Nat
    BY DEF Word, Byte
  <2>3. o.size \in Word /\ o.virtualAddr \in Word
    BY <2>1 DEF Segment
  <2>4. QED
    BY <2>1, <2>2, <2>3, LenProperties DEF Segment
<1>4. l =< s.s_paddr
  <2>1. EndOf(c, i - 1) \in Nat
    BY EndOfNat
  <2>2. l =< EndOf(c, i - 1)
    BY DEF Fits
  <2> HIDE DEF l
  <2>3. QED
    BY <1>1, <1>2, <1>3, <2>1, <2>2
<1> HIDE DEF l
<1>5. CASE o.size > 0 /\ s.s_paddr = o.virtualAddr + o.size
  <2>1. AddBss(n, s) = Refuse(n)
    BY <1>3, <1>5 DEF AddBss
  <2>2. QED
    BY <2>1, Refused
<1>6. ASSUME NEW u \in Segment, AddBss(n, s) = [n EXCEPT !.uninit = u], l =< u.virtualAddr,
             Gapless(c) => u.virtualAddr = l /\ l + u.size = s.s_paddr + s.s_size
      PROVE  Done(c, i, AddBss(n, s))
  <2> DEFINE m == [n EXCEPT !.uninit = u]
  <2>1. /\ m \in NoffFile /\ m.uninit = u /\ m.body = n.body /\ m.exists = n.exists
        /\ m.code = n.code /\ m.init = n.init /\ m.ro = n.ro
        /\ \A z \in {"code", "init", "ro"} : m[z] = n[z]
    BY DEF NoffFile
  <2> HIDE DEF m
  <2>2. \A x \in Kinds : SegmentOf[x] \in {"code", "init", "ro"}
    BY DEF SegmentOf, Kinds
  <2>3. Len(m.body) = l
    BY <2>1 DEF l
  <2>4. \A j \in 1 .. i : Laid(m, c.sections[j])
    <3>1. ASSUME NEW j \in 1 .. i, j # i PROVE Laid(m, c.sections[j])
      <4>1. Laid(n, c.sections[j])
        BY <3>1 DEF Fits
      <4>2. QED
        BY <2>1, <2>2, <4>1 DEF Laid
    <3>2. Laid(m, s)
      BY <1>4, <2>3 DEF Laid
    <3>3. QED
      BY <3>1, <3>2
  <2>5. 1 .. i - 1 \subseteq 1 .. i
    OBVIOUS
  <2>6. ~ NoneYet(c, i, ".bss")
    BY DEF NoneYet
  <2>7. EndOf(c, i) = s.s_paddr + s.s_size
    BY DEF EndOf
  <2>8. Len(m.body) =< EndOf(c, i)
    BY <1>2, <1>3, <1>4, <2>3, <2>7
  <2>9. \A x \in Kinds : m[SegmentOf[x]] = n[SegmentOf[x]]
    BY <2>1, <2>2
  <2>10. m.code.size + m.ro.size + m.init.size = Len(m.body)
    BY <2>1 DEF Fits
  <2>11. Gapless(c) => Straight(c, i, m)
    BY <1>6, <2>1, <2>3, <2>7 DEF Straight
  <2>12. m.uninit.size > 0 => Len(m.body) =< m.uninit.virtualAddr
    BY <1>6, <2>1, <2>3
  <2>13. Fits(c, i, m)
    BY <2>4, <2>5, <2>6, <2>8, <2>9, <2>10, <2>11, <2>12 DEF Fits
  <2>14. QED
    BY <1>6, <2>1, <2>13 DEF Done, m
<1>7. CASE ~ (o.size > 0)
  <2>1. o.size = 0
    BY <1>3, <1>7
  <2>2. first \in Segment
    BY <1>2, <1>3 DEF Segment
  <2>3. AddBss(n, s) = [n EXCEPT !.uninit = first]
    BY <2>1 DEF AddBss
  <2>4. Gapless(c) => l = s.s_paddr
    BY <1>1, <1>3, <2>1 DEF Fits, Straight, l
  <2>5. first.virtualAddr = s.s_paddr /\ first.size = s.s_size
    OBVIOUS
  <2> HIDE DEF first
  <2>6. QED
    BY <1>4, <1>6, <2>2, <2>3, <2>4, <2>5
<1>8. CASE o.size > 0 /\ s.s_paddr # o.virtualAddr + o.size
  <2>1. (o.size + s.s_size) % (Byte * Byte * Byte * Byte) \in Word
    <3> DEFINE w == Byte * Byte * Byte * Byte
               x == o.size + s.s_size
    <3>1. w \in Nat /\ w > 0 /\ Word = 0 .. w - 1
      BY DEF Byte, Word
    <3>2. x \in Nat
      BY <1>2, <1>3
    <3> HIDE DEF w, x
    <3>3. x % w \in 0 .. w - 1
      BY <3>1, <3>2
    <3>4. QED
      BY <3>1, <3>3 DEF w, x
  <2>2. more \in Segment
    BY <1>3, <2>1 DEF Segment
  <2>3. AddBss(n, s) = [n EXCEPT !.uninit = more]
    <3>1. o.size # 0
      BY <1>3, <1>8
    <3>2. AddBss(n, s) = [n EXCEPT !.uninit.size = (@ + s.s_size) % (Byte * Byte * Byte * Byte)]
      BY <1>8, <3>1 DEF AddBss
    <3>3. [o EXCEPT !.size = (@ + s.s_size) % (Byte * Byte * Byte * Byte)] = more
      BY <1>3 DEF Segment
    <3>4. QED
      BY <3>2, <3>3
  <2>4. ~ Gapless(c)
    <3>1. SUFFICES ASSUME Gapless(c) PROVE FALSE
      OBVIOUS
    <3>2. l + o.size = EndOf(c, i - 1) /\ o.virtualAddr = l
      BY <1>8, <3>1 DEF Fits, Straight, l
    <3>3. QED
      BY <1>1, <1>8, <3>1, <3>2
  <2>5. l =< o.virtualAddr
    BY <1>8 DEF Fits, l
  <2>6. more.virtualAddr = o.virtualAddr
    OBVIOUS
  <2> HIDE DEF more
  <2>7. QED
    BY <1>6, <2>2, <2>3, <2>4, <2>5, <2>6
<1>9. QED
  BY <1>3, <1>5, <1>7, <1>8

\* The invariant of the loop.
LEMMA SectionDone ==
  ASSUME NEW c, IsCoff(c), Linked(c), NEW i \in 1 .. Len(c.sections), NEW n, Done(c, i - 1, n)
  PROVE  Done(c, i, ConvertSection(c, n, c.sections[i]))
<1> DEFINE s == c.sections[i]
<1>1. s \in Scnhdr
  BY LinkedAt
<1>2. s.s_size \in Nat /\ s.s_name \in SectionNames
  BY <1>1, ScnhdrNumbers DEF Scnhdr
<1>3. n \in NoffFile /\ (n.exists => Fits(c, i - 1, n)) /\ n.exists \in BOOLEAN
  BY DEF Done, NoffFile
<1>4. CASE ~ n.exists
  BY <1>3, <1>4 DEF Done, ConvertSection
<1>5. CASE n.exists /\ s.s_size = 0
  <2>1. ConvertSection(c, n, s) = n
    BY <1>5 DEF ConvertSection
  <2>2. QED
    BY <1>3, <1>5, <2>1, SkipDone
<1>6. CASE n.exists /\ s.s_size > 0 /\ s.s_name \in Kinds
  <2>1. ConvertSection(c, n, s) = CopySection(c, n, SegmentOf[s.s_name], s)
    BY <1>2, <1>6 DEF ConvertSection, SegmentOf, Kinds
  <2>2. QED
    BY <1>3, <1>6, <2>1, CopyDone
<1>7. CASE n.exists /\ s.s_size > 0 /\ s.s_name = ".bss"
  <2>1. ConvertSection(c, n, s) = AddBss(n, s)
    BY <1>2, <1>7 DEF ConvertSection
  <2>2. QED
    BY <1>3, <1>7, <2>1, BssDone
<1>8. CASE n.exists /\ s.s_size > 0 /\ s.s_name = ".sbss"
  <2>1. ConvertSection(c, n, s) = Refuse(n)
    BY <1>2, <1>8 DEF ConvertSection
  <2>2. QED
    BY <1>3, <2>1, Refused
<1>9. QED
  BY <1>2, <1>3, <1>4, <1>5, <1>6, <1>7, <1>8 DEF SectionNames, Kinds

\* The files the loop begins, after each section.
Loop(c, m, f) ==
  [i \in 0 .. m |-> IF i = 0 THEN EmptyNoff
                    ELSE ConvertSection(c, f[i - 1], ReadScnhdr(c.sections[i], c.bigEndian))]

\* The definition of the loop by recursion has a solution.
LEMMA LoopExists ==
  ASSUME NEW c, NEW k \in Nat
  PROVE  \E f : f = Loop(c, k, f)
<1> DEFINE S == {m \in Nat : ~ \E f : f = Loop(c, m, f)}
           Next_(i, n) == ConvertSection(c, n, ReadScnhdr(c.sections[i], c.bigEndian))
<1>1. SUFFICES ASSUME S # {} PROVE FALSE
  OBVIOUS
<1>2. PICK x \in S : \A y \in S : x =< y
  BY <1>1, LeastNat
<1>3. x \in Nat /\ ~ \E f : f = Loop(c, x, f)
  BY <1>2
<1>4. CASE x = 0
  <2> DEFINE f == [i \in 0 .. x |-> EmptyNoff]
  <2>1. f = Loop(c, x, f)
    BY <1>4 DEF Loop
  <2>2. QED
    BY <1>3, <2>1
<1>5. CASE x # 0
  <2>1. x - 1 \in Nat /\ x - 1 \notin S
    BY <1>2, <1>3, <1>5
  <2>2. PICK f : f = Loop(c, x - 1, f)
    BY <2>1
  <2> DEFINE g == [i \in 0 .. x |-> IF i = x THEN Next_(x, f[x - 1]) ELSE f[i]]
  <2>3. \A i \in 0 .. x - 1 : f[i] = IF i = 0 THEN EmptyNoff ELSE Next_(i, f[i - 1])
    BY <2>2, <1>3 DEF Loop
  <2>4. ASSUME NEW i \in 0 .. x PROVE g[i] = IF i = 0 THEN EmptyNoff ELSE Next_(i, g[i - 1])
    <3> HIDE DEF Next_
    <3>1. CASE i = x
      <4>1. g[i] = Next_(x, f[x - 1]) /\ g[x - 1] = f[x - 1]
        BY <1>3, <1>5, <2>1, <3>1
      <4>2. QED
        BY <1>5, <3>1, <4>1
    <3>2. CASE i # x
      <4>1. i \in 0 .. x - 1 /\ g[i] = f[i]
        BY <1>3, <3>2
      <4>2. i # 0 => g[i - 1] = f[i - 1]
        BY <1>3, <3>2
      <4>3. QED
        BY <2>3, <4>1, <4>2
    <3>3. QED
      BY <3>1, <3>2
  <2> HIDE DEF Next_
  <2>5. g = [i \in 0 .. x |-> IF i = 0 THEN EmptyNoff ELSE Next_(i, g[i - 1])]
    <3>1. g = [i \in 0 .. x |-> g[i]]
      OBVIOUS
    <3> HIDE DEF g
    <3>2. QED
      BY <2>4, <3>1
  <2> HIDE DEF g
  <2>6. g = Loop(c, x, g)
    BY <2>5 DEF Loop, Next_
  <2>7. QED
    BY <1>3, <2>6
<1>6. QED
  BY <1>4, <1>5

\* The file as the loop begins it.
LEMMA EmptyDone ==
  ASSUME NEW c
  PROVE  Done(c, 0, EmptyNoff) /\ EmptyNoff \in NoffFile
<1>1. 0 \in Word
  BY DEF Word, Byte
<1>2. NoSegment \in Segment /\ NoSegment.size = 0 /\ NoSegment.virtualAddr = NoSegment.inFileAddr
  BY <1>1 DEF NoSegment, Segment
<1>3. <<>> \in Seq(Int) /\ Len(<<>>) = 0
  BY EmptySeq
<1>4. EmptyNoff \in NoffFile
  BY <1>2, <1>3 DEF EmptyNoff, NoffFile
<1>5. /\ EmptyNoff.uninit = NoSegment /\ EmptyNoff.code = NoSegment /\ EmptyNoff.init = NoSegment
      /\ EmptyNoff.ro = NoSegment /\ EmptyNoff.body = <<>>
  BY DEF EmptyNoff
<1>6. \A x \in Kinds : EmptyNoff[SegmentOf[x]] = NoSegment
  BY <1>5 DEF Kinds, SegmentOf
<1>7. EndOf(c, 0) = 0
  BY DEF EndOf
<1>8. EmptyNoff.code.size + EmptyNoff.ro.size + EmptyNoff.init.size = Len(EmptyNoff.body)
  BY <1>2, <1>3, <1>5
<1>9. /\ Len(EmptyNoff.body) + EmptyNoff.uninit.size = EndOf(c, 0) /\ ~ (0 > 0)
      /\ Len(EmptyNoff.body) = EndOf(c, 0) /\ Len(EmptyNoff.body) =< EndOf(c, 0)
  BY <1>2, <1>3, <1>5, <1>7
<1>s. Straight(c, 0, EmptyNoff)
  BY <1>2, <1>5, <1>9 DEF Straight
<1>e. Fits(c, 0, EmptyNoff)
  BY <1>2, <1>5, <1>6, <1>8, <1>9, <1>s DEF Fits
<1>10. QED
  BY <1>4, <1>e DEF Done

\* The converter leaves the sections of a linked program where it was told, or no
\* file.
LEMMA CopiedDone ==
  ASSUME NEW c, IsCoff(c), Linked(c)
  PROVE  Done(c, Len(c.sections), Copied(c))
<1> DEFINE N == Len(c.sections)
           f == CHOOSE g : g = Loop(c, N, g)
<1>1. N \in Nat
  BY LenProperties DEF IsCoff
<1>2. /\ Copied(c) = f[N] \/ Copied(c) = Refuse(EmptyNoff)
  BY DEF Copied, Loop
<1>3. f = Loop(c, N, f)
  BY <1>1, LoopExists, Zenon
<1> HIDE DEF f
<1>4. f[0] = EmptyNoff
  BY <1>1, <1>3 DEF Loop
<1>5. \A i \in 1 .. N : f[i] = ConvertSection(c, f[i - 1], c.sections[i])
  <2> TAKE i \in 1 .. N
  <2>1. c.sections[i] \in Scnhdr /\ c.bigEndian \in BOOLEAN
    BY ElementOfSeq DEF IsCoff
  <2>2. ReadScnhdr(c.sections[i], c.bigEndian) = c.sections[i]
    BY <2>1, ScnhdrKept
  <2>3. f[i] = ConvertSection(c, f[i - 1], ReadScnhdr(c.sections[i], c.bigEndian))
    BY <1>1, <1>3 DEF Loop
  <2>4. QED
    BY <2>2, <2>3
<1>6. Done(c, N, f[N])
  <2> DEFINE S == {i \in 0 .. N : ~ Done(c, i, f[i])}
  <2>1. SUFFICES ASSUME S # {} PROVE FALSE
    BY <1>1
  <2>2. S \subseteq Nat
    BY <1>1
  <2>3. PICK x \in S : \A y \in S : x =< y
    BY <2>1, <2>2, LeastNat
  <2>4. x \in 0 .. N /\ ~ Done(c, x, f[x])
    BY <2>3
  <2>5. x # 0
    BY <1>4, <2>4, EmptyDone
  <2>6. x \in 1 .. N /\ x - 1 \in 0 .. N /\ x - 1 \notin S
    BY <1>1, <2>3, <2>4, <2>5
  <2>7. Done(c, x - 1, f[x - 1])
    BY <2>6
  <2>8. Done(c, x, ConvertSection(c, f[x - 1], c.sections[x]))
    BY <2>6, <2>7, SectionDone
  <2>9. QED
    BY <1>5, <2>4, <2>6, <2>8
<1>7. QED
  BY <1>2, <1>6, EmptyDone, Refused

\* What a copied page of a segment is.
LEMMA FilledIs ==
  ASSUME NEW n \in NoffFile, NEW seg \in Segment, seg.virtualAddr = seg.inFileAddr,
         NEW v \in Nat, NEW w \in Nat
  PROVE  /\ v \in Filled(n, seg, w) <=>
              seg.virtualAddr =< v /\ v < seg.virtualAddr + w /\ seg.size > 0 /\ v < Len(n.body)
         /\ FilePage(n, seg, v) = n.body[v + 1]
<1> DEFINE a == seg.virtualAddr
<1>1. a \in Nat /\ FilePos(seg, v) = a + v - a
  <2>1. Word \subseteq Nat
    BY DEF Word, Byte
  <2>2. QED
    BY <2>1 DEF Segment, FilePos
<1> HIDE DEF a
<1>2. a + v - a = v
  BY <1>1
<1>3. FilePos(seg, v) = v
  BY <1>1, <1>2
<1>4. v \in a .. a + w - 1 <=> a =< v /\ v < a + w
  BY <1>1
<1>5. QED
  BY <1>3, <1>4 DEF Filled, FilePage, a

\* Sections do not overlap.
LEMMA SectionsOrdered ==
  ASSUME NEW c, IsCoff(c), Linked(c), NEW i \in 1 .. Len(c.sections), NEW j \in 1 .. Len(c.sections), i < j
  PROVE  c.sections[i].s_paddr + c.sections[i].s_size =< c.sections[j].s_paddr
<1> DEFINE N == Len(c.sections)
           A(k) == c.sections[k].s_paddr
           Z(k) == c.sections[k].s_size
           S == {k \in 1 .. N : i < k /\ ~ (A(i) + Z(i) =< A(k))}
<1>1. N \in Nat
  BY LenProperties DEF IsCoff
<1>2. \A k \in 1 .. N : A(k) \in Nat /\ Z(k) \in Nat
  BY LinkedAt, ScnhdrNumbers
<1>3. ASSUME NEW k \in 1 .. N, k > 1 PROVE A(k) >= A(k - 1) + Z(k - 1)
  BY <1>3, LinkedAt DEF EndOf
<1> HIDE DEF A, Z
<1>4. SUFFICES ASSUME S # {} PROVE FALSE
  <2>1. i < j /\ j \in 1 .. N
    OBVIOUS
  <2>2. A(i) + Z(i) =< A(j)
    BY <1>4, <2>1
  <2>3. QED
    BY <2>2 DEF A, Z
<1>5. S \subseteq Nat
  BY <1>1
<1>6. PICK x \in S : \A y \in S : x =< y
  BY <1>4, <1>5, LeastNat
<1>7. x \in 1 .. N /\ i < x /\ ~ (A(i) + Z(i) =< A(x)) /\ x > 1 /\ i \in 1 .. N
  BY <1>1, <1>6
<1>8. A(x) >= A(x - 1) + Z(x - 1) /\ x - 1 \in 1 .. N /\ x - 1 \notin S
  BY <1>1, <1>3, <1>6, <1>7
<1>9. CASE i = x - 1
  BY <1>2, <1>7, <1>8, <1>9
<1>10. CASE i # x - 1
  <2>1. A(i) + Z(i) =< A(x - 1)
    BY <1>1, <1>7, <1>8, <1>10
  <2>2. A(i) + Z(i) \in Nat /\ A(x - 1) \in Nat /\ Z(x - 1) \in Nat /\ A(x) \in Nat
    BY <1>2, <1>7, <1>8
  <2>3. A(i) + Z(i) =< A(x)
    BY <1>8, <2>1, <2>2
  <2>4. QED
    BY <1>7, <2>3
<1>11. QED
  BY <1>9, <1>10

\* A page of one section is in the segment of no other one.
LEMMA OtherSegment ==
  ASSUME NEW c, IsCoff(c), Linked(c), NEW n \in NoffFile, Fits(c, Len(c.sections), n),
         NEW i \in 1 .. Len(c.sections), NEW k \in 0 .. c.sections[i].s_size - 1,
         NEW x \in Kinds, x # c.sections[i].s_name, n[SegmentOf[x]].size > 0
  PROVE  LET v == c.sections[i].s_paddr + k
             g == n[SegmentOf[x]]
         IN  ~ (g.virtualAddr =< v /\ v < g.virtualAddr + g.size)
<1> DEFINE g == n[SegmentOf[x]]
           a == c.sections[i].s_paddr
           z == c.sections[i].s_size
<1>1. PICK j \in 1 .. Len(c.sections) : Comes(c, j, x, g)
  BY DEF Fits
<1>2. j # i /\ g.virtualAddr = c.sections[j].s_paddr /\ g.size = c.sections[j].s_size
  BY <1>1 DEF Comes, Placed
<1>3. /\ c.sections[i] \in Scnhdr /\ c.sections[j] \in Scnhdr
  BY LinkedAt
<1>4. a \in Nat /\ z \in Nat /\ g.virtualAddr \in Nat /\ g.size \in Nat
  BY <1>2, <1>3, ScnhdrNumbers
<1>5. g.virtualAddr + g.size =< a \/ a + z =< g.virtualAddr
  <2>1. Len(c.sections) \in Nat
    BY LenProperties DEF IsCoff
  <2>2. j < i \/ i < j
    BY <1>2, <2>1
  <2>3. QED
    BY <1>2, <2>2, SectionsOrdered
<1>6. k \in 0 .. z - 1
  OBVIOUS
<1> HIDE DEF g, a, z
<1>7. ~ (g.virtualAddr =< a + k /\ a + k < g.virtualAddr + g.size)
  BY <1>4, <1>5, <1>6
<1>8. QED
  BY <1>7 DEF g, a

\* What Load leaves at the address of a section.
LEMMA SectionImage ==
  ASSUME NEW c, IsCoff(c), Linked(c), NEW n \in NoffFile, Fits(c, Len(c.sections), n),
         NEW i \in 1 .. Len(c.sections), NEW s, s = c.sections[i], NEW k \in 0 .. s.s_size - 1
  PROVE  \/ /\ s.s_paddr + k \in 0 .. Size(n) - 1
            /\ Image(n, s.s_paddr + k) =
                 IF s.s_name # ".bss" /\ Reached(s, k) THEN s.s_scnptr + k ELSE Zero
         \/ s.s_name = ".bss" /\ ~ Gapless(c) /\ s.s_paddr + k >= Size(n) - 1
<1> DEFINE a == s.s_paddr
           z == s.s_size
           v == a + k
           l == Len(n.body)
           u == n.uninit
<1>1. s \in Scnhdr
  BY LinkedAt
<1>2. a \in Nat /\ z \in Nat /\ z > 0 /\ k < z /\ k \in Nat
  BY <1>1, ScnhdrNumbers
<1>3. Laid(n, s)
  BY DEF Fits
<1>4. Word \subseteq Nat
  BY DEF Word, Byte
<1>5. /\ n.code \in Segment /\ n.init \in Segment /\ n.ro \in Segment /\ u \in Segment
      /\ n.code.size \in Nat /\ n.init.size \in Nat /\ n.ro.size \in Nat /\ n.ro.virtualAddr \in Nat
      /\ u.virtualAddr \in Nat /\ u.size \in Nat /\ l \in Nat
  BY <1>4, LenProperties DEF NoffFile, Segment
<1>6. /\ n.code.virtualAddr = n.code.inFileAddr /\ n.init.virtualAddr = n.init.inFileAddr
      /\ n.ro.virtualAddr = n.ro.inFileAddr
  <2>1. \A x \in Kinds : n[SegmentOf[x]].virtualAddr = n[SegmentOf[x]].inFileAddr
    BY DEF Fits
  <2>2. /\ ".text" \in Kinds /\ ".data" \in Kinds /\ ".rdata" \in Kinds
        /\ SegmentOf[".text"] = "code" /\ SegmentOf[".data"] = "init" /\ SegmentOf[".rdata"] = "ro"
    BY DEF Kinds, SegmentOf
  <2>3. QED
    BY <2>1, <2>2
<1>7. Size(n) = l + u.size + 1 /\ (u.size > 0 => l =< u.virtualAddr)
  BY <1>5 DEF Size, Fits
<1>g. Gapless(c) => v < l + u.size
  <2>1. SUFFICES ASSUME Gapless(c) PROVE v < l + u.size
    OBVIOUS
  <2> DEFINE N == Len(c.sections)
             e == EndOf(c, N)
  <2>2. l + u.size = e
    BY <2>1 DEF Fits, Straight
  <2>3. N \in Nat /\ i \in 1 .. N
    BY LenProperties DEF IsCoff
  <2>4. a + z =< e
    <3>1. CASE i = N
      BY <1>2, <2>3, <3>1 DEF EndOf
    <3>2. CASE i # N
      <4>1. i < N /\ N \in 1 .. N
        BY <2>3, <3>2
      <4>2. a + z =< c.sections[N].s_paddr
        BY <4>1, SectionsOrdered
      <4>3. c.sections[N].s_paddr \in Nat /\ c.sections[N].s_size \in Nat
        BY <4>1, LinkedAt, ScnhdrNumbers
      <4>4. e = c.sections[N].s_paddr + c.sections[N].s_size
        BY <2>3, <4>1 DEF EndOf
      <4> HIDE DEF a, z, e, N
      <4>5. QED
        BY <1>2, <4>2, <4>3, <4>4
    <3>3. QED
      BY <3>1, <3>2
  <2>5. e \in Nat
    BY <2>3, EndOfNat
  <2> HIDE DEF a, z, e, l, u
  <2>6. QED
    BY <1>2, <2>2, <2>4, <2>5
<1> HIDE DEF a, z, l, u
<1>8. v \in Nat
  BY <1>2
<1>v. v = a + k
  OBVIOUS
<1> HIDE DEF v
<1>9. /\ v \in FilledCode(n) <=> n.code.virtualAddr =< v /\ v < n.code.virtualAddr + n.code.size
                                 /\ n.code.size > 0 /\ v < l
      /\ v \in FilledInit(n) <=> n.init.virtualAddr =< v /\ v < n.init.virtualAddr + n.init.size
                                 /\ n.init.size > 0 /\ v < l
      /\ v \in FilledRo(n) <=> n.ro.virtualAddr =< v /\ v < n.ro.virtualAddr + n.ro.virtualAddr
                               /\ n.ro.size > 0 /\ v < l
      /\ FilePage(n, n.code, v) = n.body[v + 1] /\ FilePage(n, n.init, v) = n.body[v + 1]
      /\ FilePage(n, n.ro, v) = n.body[v + 1]
  BY <1>5, <1>6, <1>8, FilledIs DEF FilledCode, FilledInit, FilledRo, l
<1>10. v \in Zeroed(n) => u.size > 0 /\ l =< v
  BY <1>5, <1>7, <1>8 DEF Zeroed, u
<1>11. CASE s.s_name = ".bss"
  <2>1. SUFFICES ASSUME ~ (~ Gapless(c) /\ v >= Size(n) - 1)
                 PROVE  v \in 0 .. Size(n) - 1 /\ Image(n, v) = Zero
    BY <1>11, <1>v DEF a
  <2>2. l =< a
    BY <1>2, <1>3, <1>11 DEF Laid, Kinds, a, z, l
  <2>3. ~ (v < l) /\ v < Size(n) - 1 /\ Size(n) \in Nat
    BY <1>2, <1>5, <1>7, <1>8, <1>g, <1>v, <2>1, <2>2
  <2>4. v \notin FilledRo(n) /\ v \notin FilledInit(n) /\ v \notin FilledCode(n)
    BY <1>9, <2>3
  <2>5. Image(n, v) = Zero
    BY <2>3, <2>4 DEF Image
  <2>6. v \in 0 .. Size(n) - 1
    BY <1>8, <2>3
  <2>7. QED
    BY <2>5, <2>6
<1>r. Reached(s, k) <=> s.s_name # ".rdata" \/ k < a
  BY DEF Reached, a
<1>12. CASE s.s_name # ".bss" /\ Reached(s, k)
  <2>1. /\ s.s_name \in Kinds /\ n[SegmentOf[s.s_name]] = Placed(s) /\ a + z =< l
        /\ n.body[v + 1] = s.s_scnptr + k
    BY <1>2, <1>3, <1>v, <1>12 DEF Laid, a, z, l
  <2>2. v < l /\ v < Size(n) - 1 /\ Size(n) \in Nat
    BY <1>2, <1>5, <1>7, <1>v, <2>1
  <2>3. v \notin Zeroed(n)
    BY <1>5, <1>8, <1>10, <2>2
  <2>4. v \in FilledCode(n) \/ v \in FilledInit(n) \/ v \in FilledRo(n)
    <3>1. Placed(s).virtualAddr = a /\ Placed(s).size = z
      BY DEF Placed, a, z
    <3>2. CASE s.s_name = ".text"
      <4>1. n.code.virtualAddr = a /\ n.code.size = z
        BY <2>1, <3>1, <3>2 DEF SegmentOf
      <4>2. QED
        BY <1>2, <1>9, <1>v, <2>2, <4>1
    <3>3. CASE s.s_name = ".data"
      <4>1. n.init.virtualAddr = a /\ n.init.size = z
        BY <2>1, <3>1, <3>3 DEF SegmentOf
      <4>2. QED
        BY <1>2, <1>9, <1>v, <2>2, <4>1
    <3>4. CASE s.s_name = ".rdata"
      <4>1. n.ro.virtualAddr = a /\ n.ro.size = z /\ k < a
        BY <1>r, <1>12, <2>1, <3>1, <3>4 DEF SegmentOf
      <4>2. QED
        BY <1>2, <1>9, <1>v, <2>2, <4>1
    <3>5. QED
      BY <2>1, <3>2, <3>3, <3>4 DEF Kinds
  <2>5. Image(n, v) = n.body[v + 1]
    BY <1>9, <2>2, <2>3, <2>4 DEF Image
  <2>6. v \in 0 .. Size(n) - 1
    BY <1>8, <2>2
  <2>7. QED
    BY <1>12, <1>v, <2>1, <2>5, <2>6 DEF a
<1>13. CASE s.s_name # ".bss" /\ ~ Reached(s, k)
  <2>1. s.s_name = ".rdata" /\ ~ (k < a) /\ s.s_name \in Kinds
    BY <1>r, <1>13 DEF Kinds
  <2>2. n.ro = Placed(s) /\ a + z =< l
    BY <1>2, <1>3, <2>1 DEF Laid, a, z, l, Kinds, SegmentOf
  <2>3. n.ro.virtualAddr = a
    BY <2>2 DEF Placed, a
  <2>4. v < l /\ v < Size(n) - 1 /\ Size(n) \in Nat
    BY <1>2, <1>5, <1>7, <1>v, <2>2
  <2>5. v \notin Zeroed(n)
    BY <1>5, <1>8, <1>10, <2>4
  <2>6. v \notin FilledRo(n)
    BY <1>2, <1>9, <1>v, <2>1, <2>3
  <2>7. v \notin FilledCode(n) /\ v \notin FilledInit(n)
    <3>1. /\ ".text" \in Kinds /\ ".data" \in Kinds /\ SegmentOf[".text"] = "code" /\ SegmentOf[".data"] = "init"
          /\ ".text" # s.s_name /\ ".data" # s.s_name
      BY <2>1 DEF Kinds, SegmentOf
    <3>2. k \in 0 .. c.sections[i].s_size - 1 /\ v = c.sections[i].s_paddr + k
      BY <1>v DEF a
    <3>3. n.code.size > 0 => ~ (n.code.virtualAddr =< v /\ v < n.code.virtualAddr + n.code.size)
      BY <3>1, <3>2, OtherSegment
    <3>4. n.init.size > 0 => ~ (n.init.virtualAddr =< v /\ v < n.init.virtualAddr + n.init.size)
      BY <3>1, <3>2, OtherSegment
    <3>5. QED
      BY <1>9, <3>3, <3>4
  <2>8. Image(n, v) = Zero
    BY <2>4, <2>5, <2>6, <2>7 DEF Image
  <2>9. v \in 0 .. Size(n) - 1
    BY <1>8, <2>4
  <2>10. QED
    BY <1>13, <1>v, <2>8, <2>9 DEF a
<1>14. QED
  BY <1>11, <1>12, <1>13

\* What is loaded is what the compiler had put there.
LEMMA ImageRight == LoadedImage => SegmentsLoaded
<1> SUFFICES ASSUME LoadedImage, NEW p \in Loaded, Linked(Coff[program[p]]),
                    NEW i \in 1 .. Len(Coff[program[p]].sections),
                    NEW k \in 0 .. Coff[program[p]].sections[i].s_size - 1
             PROVE  LET s == Coff[program[p]].sections[i]
                    IN  \/ /\ s.s_paddr + k \in Pages(p)
                           /\ mainMemory[pageTable[p][s.s_paddr + k]].what =
                                IF s.s_name # ".bss" /\ Reached(s, k) THEN s.s_scnptr + k ELSE Zero
                        \/ /\ s.s_name = ".bss" /\ ~ Gapless(Coff[program[p]])
                           /\ s.s_paddr + k >= numPages[p] - 1
  BY DEF SegmentsLoaded
<1> DEFINE name == program[p]
           c == Coff[name]
           n == Copied(c)
           s == c.sections[i]
           v == s.s_paddr + k
<1>1. name \in Programs
  BY DEF LoadedImage, Forked, Loaded
<1>2. IsCoff(c) /\ Linked(c)
  BY <1>1, ProgramsAssumption DEF IsCoff
<1>3. Done(c, Len(c.sections), n)
  BY <1>2, CopiedDone
<1>4. n \in NoffFile
  BY <1>3 DEF Done
<1>5. Header[name] = n
  BY <1>1, <1>4, HeaderKept
<1>6. /\ Loadable(Header[name]) /\ numPages[p] = Size(Header[name])
      /\ \A w \in Pages(p) : mainMemory[pageTable[p][w]].what = Image(Header[name], w)
  BY DEF LoadedImage, ImageKept
<1>7. Fits(c, Len(c.sections), n)
  BY <1>3, <1>5, <1>6 DEF Done, Loadable
<1>8. i \in 1 .. Len(c.sections) /\ k \in 0 .. s.s_size - 1
  OBVIOUS
<1> HIDE DEF name, c, n, s
<1>9. \/ /\ v \in 0 .. Size(n) - 1
         /\ Image(n, v) = IF s.s_name # ".bss" /\ Reached(s, k) THEN s.s_scnptr + k ELSE Zero
      \/ s.s_name = ".bss" /\ ~ Gapless(c) /\ v >= Size(n) - 1
  BY <1>2, <1>4, <1>7, <1>8, SectionImage DEF s
<1>10. numPages[p] = Size(n)
  BY <1>5, <1>6
<1>11. v \in 0 .. Size(n) - 1 => v \in Pages(p) /\ mainMemory[pageTable[p][v]].what = Image(n, v)
  BY <1>5, <1>6, <1>10 DEF Pages
<1>12. QED
  BY <1>9, <1>10, <1>11 DEF name, c, s

\* Every page of a program that runs is what Load put there, in every state.
LEMMA AlwaysLoadedImage == Spec => []LoadedImage
<1>1. Init => LoadedImage
  BY DEF Init, LoadedImage, Forked, ImageKept, Loaded
<1>2. ASSUME IInv, LoadedImage, [Next]_vars PROVE LoadedImage'
  <2>1. CASE UNCHANGED vars
    BY <1>2, <2>1 DEF vars, LoadedImage, Forked, ImageKept, Loaded, Pages
  <2>2. CASE Next
    <3>1. PICK p \in Procs : \/ Fork(p) \/ Yield(p) \/ Exit(p) \/ Run(p)
                             \/ LoadProgram(p) \/ LoadTooLarge(p) \/ LoadFails(p)
                             \/ \E v \in 0 .. NumPhysPages : Write(p, v) \/ Trap(p, v)
      BY <2>2 DEF Next
    <3>2. Forked'
      BY <1>2, <3>1, ForkedStep DEF LoadedImage
    <3>3. ImageKept'
      BY <1>2, <3>1, ImageStep DEF LoadedImage
    <3>4. QED
      BY <3>2, <3>3 DEF LoadedImage
  <2>3. QED
    BY <1>2, <2>1, <2>2
<1>3. QED
  BY <1>1, <1>2, AlwaysIInv, PTL DEF Spec

-----------------------------------------------------------------------------
(* Theorems *)

\* The bitmap has exactly the frames of the address spaces that exist, for any
\* number of frames, threads and programs: AllocateMemory and ~AddrSpace agree
\* on every order of loading, exit and destruction.
THEOREM MapExactTheorem == Spec => []MapExact
<1>1. IInv => MapExact
  BY DEF IInv, Mapped
<1>2. QED
  BY <1>1, AlwaysIInv, PTL

\* No frame is in two page tables, nor twice in one.
NoSharing ==
  \A p, q \in Procs : \A v \in Pages(p), w \in Pages(q) :
    pageTable[p][v] = pageTable[q][w] => p = q /\ v = w

\* Two pages, of one program or of two, never have the same frame: FindAndSet
\* returns only frames that no live page table has.
THEOREM NoSharingTheorem == Spec => []NoSharing
<1>1. IInv => NoSharing
  BY DEF IInv, Mapped, NoSharing
<1>2. QED
  BY <1>1, AlwaysIInv, PTL

\* Every page of a program was last written by the program or for it, however
\* programs are loaded, switched and destroyed.
THEOREM IsolationTheorem == Spec => []Isolation
<1>1. IInv => Isolation
  BY DEF IInv
<1>2. QED
  BY <1>1, AlwaysIInv, PTL

\* Whoever runs has its own kernel registers, its own stack with the argument it
\* was forked with, and in user mode its own page table and user registers.
THEOREM OwnContextTheorem == Spec => []OwnContext
  BY OwnContextHolds, AlwaysIInv, PTL

\* A program that runs has at the address of each of its sections what the
\* compiler put there, for any programs, frames and threads and on hosts of any
\* byte order: through coff2noff, the header on disk, AllocateMemory, Load and every switch.
THEOREM SegmentsLoadedTheorem == Spec => []SegmentsLoaded
  BY ImageRight, AlwaysLoadedImage, PTL
=============================================================================
