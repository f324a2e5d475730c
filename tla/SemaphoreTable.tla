--------------------------- MODULE SemaphoreTable ---------------------------
(***************************************************************************)
(* Named semaphores of user programs: STable (threads/stable.cc), Sem      *)
(* (threads/sem.cc) and the handlers of SC_CreateSemaphore, SC_Wait and    *)
(* SC_Signal (userprog/exception.cc).  The Semaphore inside a Sem is that  *)
(* of AbstractSemaphore; the initial values are natural numbers (the       *)
(* handler passes on a negative one as well).                              *)
(***************************************************************************)
EXTENDS Integers, FiniteSets, FiniteSetsExt

CONSTANTS MAX_SEMAPHORE,  \* size of semTab
          Processes,      \* the processes that make the calls
          Names,          \* semaphore names
          NoName,         \* an empty slot
          Inits,          \* initial values passed to CreateSemaphore
          MaxValue        \* bound: no Signal at this value

ASSUME SizeAssumption == MAX_SEMAPHORE \in Nat \ {0}
ASSUME NamesAssumption == NoName \notin Names
ASSUME ValuesAssumption == MaxValue \in Nat /\ Inits \subseteq 0 .. MaxValue

Slots == 0 .. MAX_SEMAPHORE - 1

VARIABLES
  semTab,   \* the name in each slot
  value,    \* Semaphore::value of each slot
  waiting,  \* [name, slot] of the P() a process is blocked in, or NotWaiting
  ret       \* register 2: what the last system call returned

vars == <<semTab, value, waiting, ret>>

NotWaiting == [name |-> NoName, slot |-> -1]

Init ==
  /\ semTab = [i \in Slots |-> NoName]
  /\ value = [i \in Slots |-> 0]
  /\ waiting = [p \in Processes |-> NotWaiting]
  /\ ret = [p \in Processes |-> 0]

Return(p, v) == ret' = [ret EXCEPT ![p] = v]
InUser(p) == waiting[p] = NotWaiting

Free == {i \in Slots : semTab[i] = NoName}

\* Mutant of Lookup: the table is searched from its end.
LookupLast(name) ==
  LET Found == {i \in Slots : semTab[i] = name}
  IN  IF Found = {} THEN -1 ELSE Max(Found)

\* The search of Wait and Signal: the first slot with the name.
Lookup(name) ==
  LET Found == {i \in Slots : semTab[i] = name}
  IN  IF Found = {} THEN -1 ELSE Min(Found)

\* STable::Create: the lowest clear bit of bm; the name is not looked up.
Create(p, name, init) ==
  /\ InUser(p)
  /\ Free # {}
  /\ semTab' = [semTab EXCEPT ![Min(Free)] = name]
  /\ value' = [value EXCEPT ![Min(Free)] = init]
  /\ Return(p, Min(Free))
  /\ UNCHANGED waiting

CreateFull(p) ==
  /\ InUser(p)
  /\ Free = {}
  /\ Return(p, -1)
  /\ UNCHANGED <<semTab, value, waiting>>

\* Wait or Signal of a name that is not in the table.
NoSuchName(p, name) ==
  /\ InUser(p)
  /\ Lookup(name) = -1
  /\ Return(p, -1)
  /\ UNCHANGED <<semTab, value, waiting>>

\* Wait, the value not being zero.
WaitNow(p, name) ==
  /\ InUser(p)
  /\ Lookup(name) # -1
  /\ value[Lookup(name)] # 0
  /\ value' = [value EXCEPT ![Lookup(name)] = @ - 1]
  /\ Return(p, 0)
  /\ UNCHANGED <<semTab, waiting>>

\* Wait at zero: the process sleeps in P() of the slot it found.
WaitBlock(p, name) ==
  /\ InUser(p)
  /\ Lookup(name) # -1
  /\ value[Lookup(name)] = 0
  /\ waiting' = [waiting EXCEPT ![p] = [name |-> name, slot |-> Lookup(name)]]
  /\ UNCHANGED <<semTab, value, ret>>

\* Mutant of WaitWake: the sleeper waits for the newest semaphore of the name.
WaitWakeNewest(p) ==
  /\ ~InUser(p)
  /\ LET i == LookupLast(waiting[p].name)
     IN  value[i] # 0 /\ value' = [value EXCEPT ![i] = @ - 1]
  /\ waiting' = [waiting EXCEPT ![p] = NotWaiting]
  /\ Return(p, 0)
  /\ UNCHANGED semTab

\* The sleeper finds a unit, and Wait returns.
WaitWake(p) ==
  /\ ~InUser(p)
  /\ value[waiting[p].slot] # 0
  /\ value' = [value EXCEPT ![waiting[p].slot] = @ - 1]
  /\ waiting' = [waiting EXCEPT ![p] = NotWaiting]
  /\ Return(p, 0)
  /\ UNCHANGED semTab

Signal(p, name) ==
  /\ InUser(p)
  /\ Lookup(name) # -1
  /\ value[Lookup(name)] < MaxValue
  /\ value' = [value EXCEPT ![Lookup(name)] = @ + 1]
  /\ Return(p, 0)
  /\ UNCHANGED <<semTab, waiting>>

Next ==
  \E p \in Processes :
    \/ \E name \in Names : \/ \E init \in Inits : Create(p, name, init)
                           \/ NoSuchName(p, name)
                           \/ WaitNow(p, name)
                           \/ WaitBlock(p, name)
                           \/ Signal(p, name)
    \/ CreateFull(p)
    \/ WaitWake(p)

Spec == Init /\ [][Next]_vars

\* A sleeper that has a unit to take is run (module Synch: UnitsAreTaken).
FairSpec == Spec /\ \A p \in Processes : WF_vars(WaitWake(p))

-----------------------------------------------------------------------------
(* Properties. *)

TypeOK ==
  /\ semTab \in [Slots -> Names \cup {NoName}]
  /\ value \in [Slots -> 0 .. MaxValue]
  /\ waiting \in [Processes -> [name : Names, slot : Slots] \cup {NotWaiting}]
  /\ ret \in [Processes -> -1 .. MAX_SEMAPHORE - 1]

\* A Signal by name reaches the process that sleeps under that name: the slot
\* Wait found before it slept is the slot a later search finds, although the
\* name may have been created again in the meantime.
SignalFindsSleeper ==
  \A p \in Processes : ~InUser(p) => waiting[p].slot = Lookup(waiting[p].name)

\* When a unit is signalled to a name a process sleeps on, the unit does not
\* stay unused: some process gets it.
SleepersAreServed ==
  \A n \in Names :
    (\E p \in Processes : waiting[p].name = n /\ value[Lookup(n)] # 0)
      ~> ((\A p \in Processes : waiting[p].name # n) \/ value[Lookup(n)] = 0)

=============================================================================
