---------------------- MODULE SemaphoreAndDeviceProofs ----------------------
(***************************************************************************)
(* Proofs about SemaphoreTable and Devices, which share no state: the      *)
(* semaphores user programs name, for a table of any size and any number   *)
(* of processes and names, and the ones the devices signal, for any        *)
(* number of threads and any times, disk and input.                        *)
(*                                                                         *)
(* The slot a sleeper found stays the first one with its name because      *)
(* slots are taken from the low end and never given back (Prefix): a later *)
(* Create with the same name goes behind it.                               *)
(*                                                                         *)
(* The invariant of the devices, DevicesInv, follows one request from the  *)
(* thread that holds the front end's lock into the list of interrupts,     *)
(* from there into the semaphore and back to the thread (OneRequest), and  *)
(* one read from the interrupt to the thread that collects the character   *)
(* (OneReader); HeadPasses is an invariant by itself once at most one disk *)
(* request is pending, up to what remainders have to do with each other.   *)
(***************************************************************************)
EXTENDS SemaphoreTable, Devices, FiniteSetTheorems, SequenceTheorems, WellFoundedInduction,
        TLAPS

\* A set of natural numbers has a least element.
LEMMA LeastElement ==
  ASSUME NEW S, S \subseteq Nat, S # {}
  PROVE  \E x \in S : \A y \in S : x =< y
<1>1. PICK x \in S : \A y \in S : ~ (<<y, x>> \in OpToRel(<, Nat))
  BY NatLessThanWellFounded, WFMin, Zenon
<1>2. ASSUME NEW y \in S PROVE x =< y
  <2>1. <<y, x>> \in Nat \X Nat /\ ~ (<<y, x>> \in OpToRel(<, Nat))
    BY <1>1
  <2>2. ~ (y < x)
    BY <2>1 DEF OpToRel
  <2>3. QED
    BY <2>2
<1>3. QED
  BY <1>2


-----------------------------------------------------------------------------
(* The table of semaphores. *)

\* The least element of a set of slots, as Bitmap::FindAndSet and the search
\* loops of STable find it.
LEMMA MinOfSlots ==
  ASSUME NEW S, S \subseteq Slots, S # {}
  PROVE  Min(S) \in S /\ \A y \in S : Min(S) =< y
<1>1. S \subseteq Nat
  BY SizeAssumption DEF Slots
<1>2. \E x \in S : \A y \in S : x =< y
  BY <1>1, LeastElement
<1>3. QED
  BY <1>2 DEF Min

\* What a search returns: -1, or the first slot with the name.
LEMMA LookupFirst ==
  ASSUME NEW name
  PROVE  /\ Lookup(name) = -1 => \A i \in Slots : semTab[i] # name
         /\ Lookup(name) # -1 => /\ Lookup(name) \in Slots
                                 /\ semTab[Lookup(name)] = name
                                 /\ \A i \in Slots : semTab[i] = name => Lookup(name) =< i
<1> DEFINE Found == {i \in Slots : semTab[i] = name}
<1>1. Found \subseteq Slots /\ (Found # {} => Min(Found) \in Found /\ \A y \in Found : Min(Found) =< y)
  BY MinOfSlots
<1>2. Found # {} => Min(Found) \in Slots /\ Min(Found) # -1
  BY <1>1, SizeAssumption DEF Slots
<1>3. CASE Found = {}
  BY <1>3 DEF Lookup
<1>4. CASE Found # {}
  <2>1. Lookup(name) = Min(Found)
    BY <1>4 DEF Lookup
  <2>2. QED
    BY <2>1, <1>1, <1>2, <1>4
<1>5. QED
  BY <1>3, <1>4

-----------------------------------------------------------------------------

\* The slots in use are the first ones.
Prefix ==
  \A i, j \in Slots : i < j /\ semTab[j] # NoName => semTab[i] # NoName

IInv == TypeOK /\ Prefix /\ SignalFindsSleeper

LEMMA InitIInv == Init => IInv
<1>1. SUFFICES ASSUME Init PROVE IInv
  OBVIOUS
<1>2. TypeOK
  BY <1>1, SizeAssumption, ValuesAssumption DEF Init, TypeOK, Slots
<1>3. Prefix /\ SignalFindsSleeper
  BY <1>1 DEF Init, Prefix, SignalFindsSleeper, InUser
<1>4. QED
  BY <1>2, <1>3 DEF IInv

\* A step of Create: the new name goes into the first free slot.
LEMMA CreateIInv ==
  ASSUME IInv, NEW p \in Processes, NEW name \in Names, NEW init \in Inits,
         Create(p, name, init)
  PROVE  IInv'
<1> USE DEF IInv
<1> DEFINE k == Min(Free)
<1>1. /\ k \in Slots /\ semTab[k] = NoName
      /\ \A i \in Slots : semTab[i] = NoName => k =< i
  BY MinOfSlots DEF Free, Create
<1> HIDE DEF k
<1>2. semTab' = [semTab EXCEPT ![k] = name]
  BY DEF Create, k
<1>3. semTab'[k] = name /\ \A i \in Slots : i # k => semTab'[i] = semTab[i]
  BY <1>1, <1>2 DEF TypeOK
<1>4. TypeOK'
  <2>1. semTab' \in [Slots -> Names \cup {NoName}]
    BY <1>2, <1>1 DEF TypeOK
  <2>2. value' \in [Slots -> 0 .. MaxValue]
    BY <1>1, ValuesAssumption DEF TypeOK, Create, k
  <2>3. ret' \in [Processes -> -1 .. MAX_SEMAPHORE - 1]
    BY <1>1, SizeAssumption DEF TypeOK, Create, Return, Slots, k
  <2>4. QED
    BY <2>1, <2>2, <2>3 DEF TypeOK, Create
<1>5. Prefix'
  <2>1. SUFFICES ASSUME NEW i \in Slots, NEW j \in Slots, i < j, semTab'[j] # NoName
                 PROVE  semTab'[i] # NoName
    BY DEF Prefix
  <2>2. CASE i = k
    BY <2>2, <1>3, NamesAssumption
  <2>3. CASE i # k /\ j = k
    <3>1. ~ (k =< i)
      BY <2>1, <2>3, SizeAssumption DEF Slots
    <3>2. QED
      BY <3>1, <1>1, <1>3, <2>3
  <2>4. CASE i # k /\ j # k
    BY <2>1, <2>4, <1>3 DEF Prefix
  <2>5. QED
    BY <2>2, <2>3, <2>4
<1>6. SignalFindsSleeper'
  <2>1. SUFFICES ASSUME NEW q \in Processes, waiting'[q] # NotWaiting
                 PROVE  (waiting[q].slot = Lookup(waiting[q].name))'
    BY DEF SignalFindsSleeper, InUser
  <2> DEFINE w == waiting[q]
             n == w.name
  <2>2. waiting' = waiting
    BY DEF Create
  <2>3. n \in Names /\ w.slot \in Slots /\ w.slot = Lookup(n)
    BY <2>1, <2>2 DEF TypeOK, SignalFindsSleeper, InUser
  <2>4. Lookup(n) # -1
    BY <2>3, SizeAssumption DEF Slots
  <2>5. semTab[w.slot] = n /\ \A i \in Slots : semTab[i] = n => w.slot =< i
    BY <2>3, <2>4, LookupFirst
  <2>6. w.slot # k
    BY <2>5, <2>3, <1>1, NamesAssumption
  <2>7. ~ (k < w.slot)
    BY <2>3, <2>5, <1>1, NamesAssumption DEF Prefix
  <2>8. w.slot =< k
    BY <2>7, <2>3, <1>1, SizeAssumption DEF Slots
  <2>9. semTab'[w.slot] = n /\ \A i \in Slots : semTab'[i] = n => w.slot =< i
    BY <2>5, <2>6, <2>8, <2>3, <1>3
  <2>10. Lookup(waiting[q].name)' = w.slot
    <3>1. LET Found == {i \in Slots : semTab'[i] = n}
          IN  Found # {} /\ Min(Found) = w.slot
      <4> DEFINE Found == {i \in Slots : semTab'[i] = n}
      <4>1. Found # {} /\ Found \subseteq Slots /\ w.slot \in Found
        BY <2>9, <2>3
      <4>2. Min(Found) \in Found /\ Min(Found) =< w.slot
        BY <4>1, MinOfSlots
      <4>3. w.slot =< Min(Found) /\ Min(Found) \in Slots
        BY <4>2, <2>9
      <4>4. QED
        BY <4>1, <4>2, <4>3, <2>3, SizeAssumption DEF Slots
    <3>2. QED
      BY <3>1, <2>2 DEF Lookup
  <2>11. QED
    BY <2>10, <2>2
<1>7. QED
  BY <1>4, <1>5, <1>6

\* Every other step leaves the names alone.  A process that goes to sleep does
\* so in the slot its search has just found.
LEMMA OtherIInv ==
  ASSUME IInv, NEW p \in Processes, NEW name,
         \/ CreateFull(p) \/ WaitWake(p)
         \/ /\ name \in Names
            /\ NoSuchName(p, name) \/ WaitNow(p, name) \/ WaitBlock(p, name) \/ Signal(p, name)
  PROVE  IInv'
<1> USE DEF IInv
<1>1. semTab' = semTab
  BY DEF CreateFull, NoSuchName, WaitNow, WaitBlock, Signal, WaitWake
<1>2. Prefix'
  BY <1>1 DEF Prefix
<1>3. Lookup(name) # -1 => Lookup(name) \in Slots
  BY LookupFirst
<1>4. waiting' = waiting
        \/ waiting' = [waiting EXCEPT ![p] = NotWaiting]
        \/ /\ waiting' = [waiting EXCEPT ![p] = [name |-> name, slot |-> Lookup(name)]]
           /\ name \in Names /\ Lookup(name) \in Slots
  BY <1>3 DEF CreateFull, NoSuchName, WaitNow, WaitBlock, Signal, WaitWake
<1>5. waiting' \in [Processes -> [name : Names, slot : Slots] \cup {NotWaiting}]
  BY <1>4 DEF TypeOK
<1>6. value' \in [Slots -> 0 .. MaxValue]
  <2>1. CASE CreateFull(p) \/ NoSuchName(p, name) \/ WaitBlock(p, name)
    BY <2>1 DEF CreateFull, NoSuchName, WaitBlock, TypeOK
  <2>2. ASSUME NEW k \in Slots, value[k] # 0
        PROVE  [value EXCEPT ![k] = @ - 1] \in [Slots -> 0 .. MaxValue]
    BY <2>2, ValuesAssumption DEF TypeOK
  <2>3. ASSUME NEW k \in Slots, value[k] < MaxValue
        PROVE  [value EXCEPT ![k] = @ + 1] \in [Slots -> 0 .. MaxValue]
    BY <2>3, ValuesAssumption DEF TypeOK
  <2>4. CASE WaitNow(p, name)
    BY <2>4, <2>2, <1>3 DEF WaitNow
  <2>5. CASE Signal(p, name)
    BY <2>5, <2>3, <1>3 DEF Signal
  <2>6. CASE WaitWake(p)
    <3>1. waiting[p].slot \in Slots
      BY <2>6 DEF WaitWake, InUser, TypeOK
    <3>2. QED
      BY <2>6, <3>1, <2>2 DEF WaitWake
  <2>7. QED
    BY <2>1, <2>4, <2>5, <2>6
<1>7. ret' \in [Processes -> -1 .. MAX_SEMAPHORE - 1]
  <2>1. -1 \in -1 .. MAX_SEMAPHORE - 1 /\ 0 \in -1 .. MAX_SEMAPHORE - 1
    BY SizeAssumption
  <2>2. ret' = ret \/ ret' = [ret EXCEPT ![p] = -1] \/ ret' = [ret EXCEPT ![p] = 0]
    BY DEF CreateFull, NoSuchName, WaitNow, WaitBlock, Signal, WaitWake, Return
  <2>3. QED
    BY <2>1, <2>2 DEF TypeOK
<1>8. SignalFindsSleeper'
  <2>1. SUFFICES ASSUME NEW q \in Processes, waiting'[q] # NotWaiting
                 PROVE  (waiting[q].slot = Lookup(waiting[q].name))'
    BY DEF SignalFindsSleeper, InUser
  <2>2. waiting'[q].slot = LET Found == {i \in Slots : semTab[i] = waiting'[q].name}
                           IN  IF Found = {} THEN -1 ELSE Min(Found)
    <3>1. CASE waiting'[q] = waiting[q]
      BY <3>1, <2>1 DEF SignalFindsSleeper, InUser, Lookup
    <3>2. CASE waiting'[q] # waiting[q]
      <4>1. waiting'[q] = [name |-> name, slot |-> Lookup(name)]
        BY <3>2, <2>1, <1>4 DEF TypeOK
      <4>2. QED
        BY <4>1 DEF Lookup
    <3>3. QED
      BY <3>1, <3>2
  <2>3. QED
    BY <2>2, <1>1 DEF Lookup
<1>9. QED
  BY <1>1, <1>2, <1>5, <1>6, <1>7, <1>8 DEF TypeOK

LEMMA NextIInv == IInv /\ [Next]_vars => IInv'
<1>1. SUFFICES ASSUME IInv, [Next]_vars PROVE IInv'
  OBVIOUS
<1>2. CASE UNCHANGED vars
  BY <1>1, <1>2 DEF IInv, TypeOK, Prefix, SignalFindsSleeper, InUser, Lookup, vars
<1>3. CASE Next
  <2>1. PICK p \in Processes :
          \/ \E name \in Names : \/ \E init \in Inits : Create(p, name, init)
                                 \/ NoSuchName(p, name) \/ WaitNow(p, name)
                                 \/ WaitBlock(p, name) \/ Signal(p, name)
          \/ CreateFull(p)
          \/ WaitWake(p)
    BY <1>3 DEF Next
  <2>2. CASE \E name \in Names, init \in Inits : Create(p, name, init)
    BY <1>1, <2>2, CreateIInv
  <2>3. CASE \E name \in Names : \/ NoSuchName(p, name) \/ WaitNow(p, name)
                                 \/ WaitBlock(p, name) \/ Signal(p, name)
    BY <1>1, <2>3, OtherIInv
  <2>4. CASE CreateFull(p) \/ WaitWake(p)
    BY <1>1, <2>4, OtherIInv
  <2>5. QED
    BY <2>1, <2>2, <2>3, <2>4
<1>4. QED
  BY <1>1, <1>2, <1>3

\* Wait and Signal of a name agree on the slot although the name may have been
\* created again between them, in a table of any size.
THEOREM SignalFindsSleeperTheorem == Spec => []SignalFindsSleeper
<1>1. IInv => SignalFindsSleeper
  BY DEF IInv
<1>2. QED
  BY <1>1, InitIInv, NextIInv, PTL DEF Spec

\* A slot keeps its name for ever: no call renames or frees a semaphore.
THEOREM NamesForeverTheorem ==
  Spec => [][\A i \in Slots : semTab[i] # NoName => semTab'[i] = semTab[i]]_vars
<1>1. ASSUME IInv, [Next]_vars
      PROVE  [\A i \in Slots : semTab[i] # NoName => semTab'[i] = semTab[i]]_vars
  <2>1. SUFFICES ASSUME Next, NEW i \in Slots, semTab[i] # NoName PROVE semTab'[i] = semTab[i]
    BY <1>1
  <2>2. semTab' = semTab
        \/ \E p \in Processes, name \in Names, init \in Inits : Create(p, name, init)
    BY <2>1 DEF Next, CreateFull, NoSuchName, WaitNow, WaitBlock, Signal, WaitWake
  <2>3. ASSUME Free # {} PROVE semTab[Min(Free)] = NoName
    BY <2>3, MinOfSlots DEF Free
  <2>4. QED
    BY <1>1, <2>1, <2>2, <2>3 DEF Create, IInv, TypeOK
<1>2. QED
  BY <1>1, InitIInv, NextIInv, PTL DEF Spec


-----------------------------------------------------------------------------
(* The list of pending interrupts. *)

\* An element of the list of pending interrupts.
Pending == [left : Int, type : Interrupts]

\* An interrupt of the type is in the list; no two are.
Has(q, type) == \E n \in 1 .. Len(q) : q[n].type = type
Once(q, type) == \A m, n \in 1 .. Len(q) : q[m].type = type /\ q[n].type = type => m = n

\* InsertAt, place by place.
LEMMA InsertAtPlaces ==
  ASSUME NEW S, NEW q \in Seq(S), NEW e \in S, NEW k \in 1 .. Len(q) + 1
  PROVE  /\ InsertAt(q, k, e) \in Seq(S)
         /\ Len(InsertAt(q, k, e)) = Len(q) + 1
         /\ InsertAt(q, k, e)[k] = e
         /\ \A n \in 1 .. k - 1 : InsertAt(q, k, e)[n] = q[n]
         /\ \A n \in k + 1 .. Len(q) + 1 : InsertAt(q, k, e)[n] = q[n - 1]
<1> DEFINE a == SubSeq(q, 1, k - 1)
           c == SubSeq(q, k, Len(q))
           b == a \o <<e>>
<1>0. k \in Int /\ 1 =< k /\ k =< Len(q) + 1 /\ Len(q) \in Nat
  OBVIOUS
<1>1. a \in Seq(S) /\ Len(a) = k - 1 /\ \A n \in 1 .. k - 1 : a[n] = q[n]
  BY <1>0
<1>2. c \in Seq(S) /\ Len(c) = Len(q) - k + 1 /\ \A n \in 1 .. Len(q) - k + 1 : c[n] = q[k + n - 1]
  <2>1. CASE k =< Len(q)
    BY <2>1, <1>0
  <2>2. CASE k > Len(q)
    BY <2>2, <1>0
  <2>3. QED
    BY <2>1, <2>2, <1>0
<1> HIDE DEF a, c
<1>3. b \in Seq(S) /\ Len(b) = k /\ (\A n \in 1 .. k - 1 : b[n] = q[n]) /\ b[k] = e
  BY <1>1, <1>0
<1> HIDE DEF b
<1>4. b \o c \in Seq(S) /\ Len(b \o c) = Len(q) + 1
  <2>1. b \o c \in Seq(S) /\ Len(b \o c) = Len(b) + Len(c)
    BY <1>2, <1>3, ConcatProperties
  <2>2. Len(b) + Len(c) = Len(q) + 1
    BY <1>2, <1>3, <1>0
  <2>3. QED
    BY <2>1, <2>2
<1>5. ASSUME NEW n \in 1 .. Len(q) + 1
      PROVE  (b \o c)[n] = IF n < k THEN q[n] ELSE IF n = k THEN e ELSE q[n - 1]
  <2>0. n \in Int /\ 1 =< n /\ n =< Len(b) + Len(c)
    BY <1>2, <1>3, <1>0
  <2>1. CASE n =< k
    <3>1. (b \o c)[n] = b[n]
      BY <2>0, <2>1, <1>2, <1>3, <1>0, ConcatProperties
    <3>2. CASE n < k
      BY <3>1, <3>2, <2>0, <1>3, <1>0
    <3>3. CASE n = k
      BY <3>1, <3>3, <1>3, <1>0
    <3>4. QED
      BY <2>0, <2>1, <3>2, <3>3, <1>0
  <2>2. CASE n > k
    <3>1. (b \o c)[n] = c[n - k]
      BY <2>0, <2>2, <1>2, <1>3, <1>0, ConcatProperties
    <3>2. n - k \in 1 .. Len(q) - k + 1 /\ k + (n - k) - 1 = n - 1 /\ ~(n < k) /\ n # k
      BY <2>2, <1>0
    <3>3. c[n - k] = q[n - 1]
      BY <3>2, <1>2
    <3>4. QED
      BY <3>1, <3>2, <3>3
  <2>3. QED
    BY <2>0, <2>1, <2>2, <1>0
<1>6. InsertAt(q, k, e) = b \o c
  BY DEF InsertAt, a, b, c
<1>7. (b \o c)[k] = e /\ (\A n \in 1 .. k - 1 : (b \o c)[n] = q[n])
      /\ \A n \in k + 1 .. Len(q) + 1 : (b \o c)[n] = q[n - 1]
  <2>1. k \in 1 .. Len(q) + 1
    OBVIOUS
  <2>2. \A n \in 1 .. k - 1 : n \in 1 .. Len(q) + 1 /\ n < k
    BY <1>0
  <2>3. \A n \in k + 1 .. Len(q) + 1 : n \in 1 .. Len(q) + 1 /\ ~(n < k) /\ n # k
    BY <1>0
  <2>4. ~(k < k)
    BY <1>0
  <2>5. QED
    BY <1>5, <2>1, <2>2, <2>3, <2>4
<1>8. QED
  BY <1>4, <1>6, <1>7

\* SortedList::Insert finds a place, whatever is in the list.
LEMMA InsertPlaces ==
  ASSUME NEW q \in Seq(Pending), NEW i \in Pending
  PROVE  \E k \in 1 .. Len(q) + 1 :
           /\ Insert(q, i) \in Seq(Pending)
           /\ Len(Insert(q, i)) = Len(q) + 1
           /\ Insert(q, i)[k] = i
           /\ \A n \in 1 .. k - 1 : Insert(q, i)[n] = q[n]
           /\ \A n \in k + 1 .. Len(q) + 1 : Insert(q, i)[n] = q[n - 1]
<1> DEFINE Place(k) == /\ \A j \in 1 .. k - 1 : PendingCompare(i, q[j]) >= 0
                       /\ k =< Len(q) => PendingCompare(i, q[k]) < 0
           Later == {k \in 1 .. Len(q) + 1 : k = Len(q) + 1 \/ PendingCompare(i, q[k]) < 0}
<1>1. Len(q) \in Nat /\ \A j \in 1 .. Len(q) : PendingCompare(i, q[j]) \in Int
  <2>0. \A x \in Pending : x.left \in Int
    BY DEF Pending
  <2>1. i.left \in Int /\ \A j \in 1 .. Len(q) : q[j].left \in Int
    BY <2>0, ElementOfSeq
  <2>2. QED
    BY <2>1 DEF PendingCompare
<1>2. Later \subseteq Nat /\ Later # {}
  BY <1>1
<1>3. PICK k \in Later : \A y \in Later : k =< y
  BY <1>2, LeastElement
<1>4. ASSUME NEW j \in 1 .. k - 1 PROVE PendingCompare(i, q[j]) >= 0
  <2>1. j \in 1 .. Len(q) /\ j \notin Later
    BY <1>1, <1>3
  <2>2. QED
    BY <2>1, <1>1
<1>5. k \in 1 .. Len(q) + 1 /\ Place(k)
  BY <1>1, <1>3, <1>4
<1> DEFINE p == CHOOSE x \in 1 .. Len(q) + 1 : Place(x)
<1>6. p \in 1 .. Len(q) + 1
  BY <1>5
<1>7. Insert(q, i) = InsertAt(q, p, i)
  BY DEF Insert
<1> HIDE DEF p
<1>8. /\ InsertAt(q, p, i) \in Seq(Pending)
      /\ Len(InsertAt(q, p, i)) = Len(q) + 1
      /\ InsertAt(q, p, i)[p] = i
      /\ \A n \in 1 .. p - 1 : InsertAt(q, p, i)[n] = q[n]
      /\ \A n \in p + 1 .. Len(q) + 1 : InsertAt(q, p, i)[n] = q[n - 1]
  BY <1>6, InsertAtPlaces
<1>9. QED
  BY <1>6, <1>7, <1>8, Zenon

\* What the list holds after an interrupt was put into it.
LEMMA InsertHolds ==
  ASSUME NEW q \in Seq(Pending), NEW i \in Pending, NEW type
  PROVE  /\ Insert(q, i) \in Seq(Pending)
         /\ Has(Insert(q, i), type) <=> Has(q, type) \/ i.type = type
         /\ Once(q, type) /\ ~(Has(q, type) /\ i.type = type) => Once(Insert(q, i), type)
         /\ \A n \in 1 .. Len(Insert(q, i)) :
              Insert(q, i)[n] = i \/ \E m \in 1 .. Len(q) : Insert(q, i)[n] = q[m]
<1> DEFINE r == Insert(q, i)
<1>1. PICK k \in 1 .. Len(q) + 1 :
           /\ r \in Seq(Pending)
           /\ Len(r) = Len(q) + 1
           /\ r[k] = i
           /\ \A n \in 1 .. k - 1 : r[n] = q[n]
           /\ \A n \in k + 1 .. Len(q) + 1 : r[n] = q[n - 1]
  BY InsertPlaces
<1> HIDE DEF r
<1>2. Len(q) \in Nat /\ k \in Int /\ 1 =< k /\ k =< Len(q) + 1
  OBVIOUS
<1> DEFINE from(n) == IF n < k THEN n ELSE n - 1
<1>3. ASSUME NEW n \in 1 .. Len(r), n # k
      PROVE  from(n) \in 1 .. Len(q) /\ r[n] = q[from(n)]
  BY <1>1, <1>2, <1>3
<1>4. r[k] = i /\ k \in 1 .. Len(r)
  BY <1>1, <1>2
<1>5. \A n \in 1 .. Len(r) : r[n] = i \/ \E m \in 1 .. Len(q) : r[n] = q[m]
  BY <1>3, <1>4
<1>6. ASSUME NEW m \in 1 .. Len(q)
      PROVE  \E n \in 1 .. Len(r) : r[n] = q[m]
  <2>1. CASE m < k
    BY <2>1, <1>1, <1>2
  <2>2. CASE m >= k
    <3>1. m + 1 \in 1 .. Len(q) + 1 /\ m + 1 \in k + 1 .. Len(q) + 1 /\ (m + 1) - 1 = m
      BY <2>2, <1>2
    <3>2. QED
      BY <3>1, <1>1
  <2>3. QED
    BY <2>1, <2>2, <1>2
<1>7. Has(r, type) <=> Has(q, type) \/ i.type = type
  BY <1>4, <1>5, <1>6 DEF Has
<1>8. ASSUME Once(q, type), ~(Has(q, type) /\ i.type = type) PROVE Once(r, type)
  <2>1. SUFFICES ASSUME NEW m \in 1 .. Len(r), NEW n \in 1 .. Len(r), r[m].type = type, r[n].type = type
                 PROVE  m = n
    BY DEF Once
  <2>2. CASE m = k \/ n = k
    <3>1. i.type = type
      BY <2>1, <2>2, <1>4
    <3>2. m = k /\ n = k
      BY <3>1, <2>1, <1>3, <1>8 DEF Has
    <3>3. QED
      BY <3>2
  <2>3. CASE m # k /\ n # k
    <3>1. from(m) = from(n)
      BY <2>1, <2>3, <1>3, <1>8 DEF Once
    <3>2. QED
      BY <3>1, <2>3, <1>2, <1>1
  <2>4. QED
    BY <2>2, <2>3
<1>9. QED
  BY <1>1, <1>5, <1>7, <1>8 DEF r

\* What the list holds after its first interrupt was taken.
LEMMA TailHolds ==
  ASSUME NEW q \in Seq(Pending), q # <<>>, NEW type
  PROVE  /\ Tail(q) \in Seq(Pending) /\ Head(q) \in Pending
         /\ Has(q, type) <=> Has(Tail(q), type) \/ Head(q).type = type
         /\ Once(q, type) => Once(Tail(q), type) /\ ~(Has(Tail(q), type) /\ Head(q).type = type)
         /\ \A n \in 1 .. Len(Tail(q)) : Tail(q)[n] = q[n + 1] /\ n + 1 \in 1 .. Len(q)
<1>1. Len(q) \in Nat \ {0} /\ Tail(q) \in Seq(Pending) /\ Len(Tail(q)) = Len(q) - 1
      /\ Head(q) = q[1] /\ Head(q) \in Pending
  OBVIOUS
<1>2. ASSUME NEW n \in 1 .. Len(Tail(q)) PROVE Tail(q)[n] = q[n + 1] /\ n + 1 \in 1 .. Len(q)
  BY <1>1
<1>3. ASSUME NEW m \in 1 .. Len(q), m # 1 PROVE m - 1 \in 1 .. Len(Tail(q)) /\ Tail(q)[m - 1] = q[m]
  BY <1>1, <1>3
<1>4. Has(q, type) <=> Has(Tail(q), type) \/ Head(q).type = type
  <2>1. Has(Tail(q), type) => Has(q, type)
    BY <1>2 DEF Has
  <2>2. Head(q).type = type => Has(q, type)
    BY <1>1 DEF Has
  <2>3. ASSUME NEW m \in 1 .. Len(q), q[m].type = type PROVE Has(Tail(q), type) \/ Head(q).type = type
    BY <1>1, <1>3, <2>3 DEF Has
  <2>4. QED
    BY <2>1, <2>2, <2>3 DEF Has
<1>5. ASSUME Once(q, type) PROVE Once(Tail(q), type)
  <2>1. SUFFICES ASSUME NEW m \in 1 .. Len(Tail(q)), NEW n \in 1 .. Len(Tail(q)),
                        Tail(q)[m].type = type, Tail(q)[n].type = type
                 PROVE  m = n
    BY DEF Once
  <2>2. m + 1 = n + 1
    BY <2>1, <1>2, <1>5 DEF Once
  <2>3. QED
    BY <2>2, <1>1
<1>6. ASSUME Once(q, type), Has(Tail(q), type), Head(q).type = type PROVE FALSE
  <2>1. PICK n \in 1 .. Len(Tail(q)) : Tail(q)[n].type = type
    BY <1>6 DEF Has
  <2>2. n + 1 = 1
    BY <2>1, <1>1, <1>2, <1>6 DEF Once
  <2>3. QED
    BY <2>2, <1>1
<1>7. QED
  BY <1>1, <1>2, <1>4, <1>5, <1>6

\* The time that is left changes neither place nor type.
LEMMA ShiftHolds ==
  ASSUME NEW q \in Seq(Pending), NEW k \in Int, NEW r,
         r = [n \in DOMAIN q |-> [q[n] EXCEPT !.left = @ - k]]
  PROVE  /\ r \in Seq(Pending) /\ Len(r) = Len(q)
         /\ \A n \in 1 .. Len(q) : r[n].left = q[n].left - k /\ r[n].type = q[n].type
         /\ \A type : (Has(r, type) <=> Has(q, type)) /\ (Once(r, type) <=> Once(q, type))
<1>1. DOMAIN q = 1 .. Len(q) /\ Len(q) \in Nat
  OBVIOUS
<1>2. ASSUME NEW n \in 1 .. Len(q)
      PROVE  r[n] \in Pending /\ r[n].left = q[n].left - k /\ r[n].type = q[n].type
  <2>1. q[n] \in Pending /\ r[n] = [q[n] EXCEPT !.left = @ - k]
    BY <1>1, ElementOfSeq
  <2> DEFINE x == q[n]
  <2>2. x \in [left : Int, type : Interrupts]
    BY <2>1 DEF Pending
  <2> HIDE DEF x
  <2>3. /\ [x EXCEPT !.left = @ - k] \in [left : Int, type : Interrupts]
        /\ [x EXCEPT !.left = @ - k].left = x.left - k
        /\ [x EXCEPT !.left = @ - k].type = x.type
    BY <2>2
  <2>4. QED
    BY <2>1, <2>3 DEF x, Pending
<1>3. r \in Seq(Pending) /\ Len(r) = Len(q)
  <2>1. r \in [1 .. Len(q) -> Pending]
    BY <1>1, <1>2
  <2>2. QED
    BY <2>1, <1>1
<1>4. QED
  BY <1>2, <1>3 DEF Has, Once


-----------------------------------------------------------------------------
(* Remainders. *)

LEMMA DivMod ==
  ASSUME NEW n \in Nat \ {0}, NEW a \in Int
  PROVE  /\ a \div n \in Int /\ a % n \in Int /\ a % n \in 0 .. n - 1
         /\ a = (a \div n) * n + (a % n)
  OBVIOUS

\* A larger multiple is larger by at least n.
LEMMA Multiples ==
  ASSUME NEW n \in Nat \ {0}, NEW p \in Int, NEW q \in Int, p < q
  PROVE  p * n + n <= q * n
  OBVIOUS

\* Quotient and remainder are the only ones.
LEMMA ModOf ==
  ASSUME NEW n \in Nat \ {0}, NEW q \in Int, NEW r \in 0 .. n - 1
  PROVE  (q * n + r) % n = r /\ (q * n + r) \div n = q
<1> DEFINE a == q * n + r
           p == a \div n
           m == a % n
<1>0. q * n \in Int /\ a \in Int
  OBVIOUS
<1>1. p \in Int /\ m \in 0 .. n - 1 /\ a = p * n + m
  BY <1>0, DivMod
<1>2. p * n \in Int
  BY <1>1
<1>3. a = q * n + r
  OBVIOUS
<1> HIDE DEF a, p, m
<1>4. ~ (p < q)
  <2>1. p < q => p * n + n <= q * n
    BY <1>1, Multiples
  <2>2. QED
    BY <2>1, <1>0, <1>1, <1>2, <1>3
<1>5. ~ (q < p)
  <2>1. q < p => q * n + n <= p * n
    BY <1>1, Multiples
  <2>2. QED
    BY <2>1, <1>0, <1>1, <1>2, <1>3
<1>6. p = q
  BY <1>1, <1>4, <1>5
<1>7. m = r
  BY <1>0, <1>1, <1>2, <1>3, <1>6
<1>8. QED
  BY <1>6, <1>7 DEF a, p, m

\* Whole turns do not change a remainder.
LEMMA ModTurns ==
  ASSUME NEW n \in Nat \ {0}, NEW a \in Int, NEW z \in Int
  PROVE  (a + z * n) % n = a % n
<1> DEFINE q == a \div n
           r == a % n
<1>1. q \in Int /\ r \in 0 .. n - 1 /\ a = q * n + r
  BY DivMod
<1> HIDE DEF q, r
<1>2. a + z * n = (q + z) * n + r
  BY <1>1
<1>3. q + z \in Int
  BY <1>1
<1>4. ((q + z) * n + r) % n = r
  BY <1>1, <1>3, ModOf
<1>5. QED
  BY <1>2, <1>4 DEF r

LEMMA ModAdd ==
  ASSUME NEW n \in Nat \ {0}, NEW a \in Int, NEW b \in Int
  PROVE  ((a % n) + b) % n = (a + b) % n
<1> DEFINE q == a \div n
           r == a % n
<1>1. q \in Int /\ r \in 0 .. n - 1 /\ a = q * n + r
  BY DivMod
<1> HIDE DEF q, r
<1>2. a + b = (r + b) + q * n /\ r + b \in Int
  BY <1>1
<1>3. ((r + b) + q * n) % n = (r + b) % n
  BY <1>1, <1>2, ModTurns
<1>4. QED
  BY <1>2, <1>3 DEF r

-----------------------------------------------------------------------------
(* Interrupt::Schedule and the types. *)

LEMMA Positive ==
  /\ ConsoleTime \in Nat \ {0} /\ SeekTime \in Nat \ {0} /\ RotationTime \in Nat \ {0}
  /\ SectorsPerTrack \in Nat \ {0} /\ NumTracks \in Nat \ {0} /\ Turn \in Nat \ {0}
<1>1. /\ ConsoleTime \in Nat \ {0} /\ SeekTime \in Nat \ {0} /\ RotationTime \in Nat \ {0}
      /\ SectorsPerTrack \in Nat \ {0} /\ NumTracks \in Nat \ {0}
  BY TimesAssumption
<1>2. QED
  BY <1>1 DEF Turn

LEMMA ScheduleHolds ==
  ASSUME NEW q \in Seq(Pending), NEW when \in Int, NEW kind \in Interrupts
  PROVE  /\ Schedule(q, when, kind) \in Seq(Pending)
         /\ \A type : Has(Schedule(q, when, kind), type) <=> Has(q, type) \/ kind = type
         /\ \A type : Once(q, type) /\ ~(Has(q, type) /\ kind = type)
                        => Once(Schedule(q, when, kind), type)
         /\ \A n \in 1 .. Len(Schedule(q, when, kind)) :
              \/ Schedule(q, when, kind)[n] = [left |-> when, type |-> kind]
              \/ \E m \in 1 .. Len(q) : Schedule(q, when, kind)[n] = q[m]
<1> DEFINE i == [left |-> when, type |-> kind]
<1>1. i \in Pending /\ i.type = kind
  BY DEF Pending
<1>2. Schedule(q, when, kind) = Insert(q, i)
  BY DEF Schedule, PendingInterrupt
<1> HIDE DEF i
<1>3. QED
  BY <1>1, <1>2, InsertHolds DEF i

\* What a handler finds and leaves when it takes the first interrupt.
LEMMA TakenHolds ==
  ASSUME pending \in Seq(Pending), Due
  PROVE  /\ Tail(pending) \in Seq(Pending)
         /\ \A type : Has(pending, type) <=> Has(Tail(pending), type) \/ Head(pending).type = type
         /\ \A type : Once(pending, type) =>
              Once(Tail(pending), type) /\ ~(Has(Tail(pending), type) /\ Head(pending).type = type)
         /\ \A n \in 1 .. Len(Tail(pending)) :
              Tail(pending)[n] = pending[n + 1] /\ n + 1 \in 1 .. Len(pending)
<1>1. pending # <<>>
  BY DEF Due
<1>2. QED
  BY <1>1, TailHolds

\* What Disk::TimeToSeek and ComputeLatency compute is a time.
LEMMA LatencyType ==
  ASSUME DevicesTypeOK, NEW s \in Sectors, NEW writing \in BOOLEAN
  PROVE  /\ s \in Nat
         /\ TimeToSeek(s) \in Int /\ Rotate(s) \in Int /\ ComputeLatency(s, writing) \in Int
<1>1. /\ clock \in Int /\ disk.lastSector \in Int /\ s \in Int /\ s >= 0
      /\ disk.age \in Int /\ disk.buffer \in Int
  BY Positive DEF DevicesTypeOK, Sectors
<1>2. Track(s) \in Int /\ Track(disk.lastSector) \in Int
  BY <1>1, Positive, DivMod DEF Track
<1>3. TimeToSeek(s) \in Int
  BY <1>2, Positive DEF TimeToSeek, AbsDiff
<1>4. Rotate(s) \in Int
  BY <1>1, <1>3, Positive, DivMod DEF Rotate
<1> DEFINE after == clock + TimeToSeek(s) + Rotate(s)
<1>5. after \div RotationTime \in Int
  <2>1. after \in Int
    BY <1>1, <1>3, <1>4
  <2> HIDE DEF after
  <2>2. QED
    BY <2>1, Positive, DivMod
<1>6. ModuloDiff(s, after \div RotationTime) \in Int
  BY <1>1, <1>5, Positive, DivMod DEF ModuloDiff
<1> DEFINE m == ModuloDiff(s, after \div RotationTime)
<1>7. ComputeLatency(s, writing) \in Int
  <2>1. ComputeLatency(s, writing)
          = IF ~writing /\ InTrackBuffer(s) THEN RotationTime
            ELSE TimeToSeek(s) + Rotate(s) + RotationTime + m * RotationTime
    BY DEF ComputeLatency
  <2> HIDE DEF m
  <2>2. TimeToSeek(s) + Rotate(s) + RotationTime + m * RotationTime \in Int /\ RotationTime \in Int
    BY <1>3, <1>4, <1>6, Positive DEF m
  <2>3. QED
    BY <2>1, <2>2
<1>8. QED
  BY <1>1, <1>3, <1>4, <1>7


\* What UpdateLast leaves is a state of the disk.
LEMMA UpdateLastType ==
  ASSUME DevicesTypeOK, NEW s \in Sectors, NEW writing \in BOOLEAN, UpdateLast(s, writing)
  PROVE  /\ disk' \in [lastSector : Sectors, buffer : 0 .. Turn - 1, age : Int, cached : BOOLEAN]
         /\ disk'.lastSector = s /\ disk'.cached = (~writing /\ InTrackBuffer(s))
<1> DEFINE ahead == TimeToSeek(s) + Rotate(s)
           b == IF TimeToSeek(s) # 0 THEN (clock + ahead) % Turn ELSE disk.buffer
           a == IF TimeToSeek(s) # 0 THEN -ahead ELSE disk.age
           c == ~writing /\ InTrackBuffer(s)
<1>1. disk' = [lastSector |-> s, buffer |-> b, age |-> a, cached |-> c]
  BY DEF UpdateLast
<1>2. ahead \in Int /\ clock \in Int /\ disk.buffer \in 0 .. Turn - 1 /\ disk.age \in Int
  BY LatencyType, Positive DEF DevicesTypeOK
<1>3. clock + ahead \in Int
  BY <1>2
<1> HIDE DEF ahead
<1>4. (clock + ahead) % Turn \in 0 .. Turn - 1
  BY <1>3, Positive, DivMod
<1>5. b \in 0 .. Turn - 1 /\ a \in Int
  BY <1>2, <1>4
<1>6. c \in BOOLEAN
  OBVIOUS
<1> HIDE DEF a, b, c
<1>7. QED
  BY <1>1, <1>5, <1>6 DEF c

LEMMA AdvanceType ==
  ASSUME DevicesTypeOK, NEW k \in Int, k >= 0, Advance(k)
  PROVE  DevicesTypeOK'
<1>1. pending \in Seq(Pending) /\ clock \in Int
  BY Positive DEF DevicesTypeOK, Pending
<1>2. pending' \in Seq(Pending)
  BY <1>1, ShiftHolds DEF Advance
<1>3. clock' \in 0 .. Turn - 1
  <2>1. clock + k \in Int
    BY <1>1
  <2>2. QED
    BY <2>1, Positive, DivMod DEF Advance
<1>4. disk' \in [lastSector : Sectors, buffer : 0 .. Turn - 1, age : Int, cached : BOOLEAN]
  <2>1. disk \in [lastSector : Sectors, buffer : 0 .. Turn - 1, age : Int, cached : BOOLEAN]
    BY DEF DevicesTypeOK
  <2>2. 0 \in 0 .. Turn - 1 /\ Turn \in Int /\ disk.age + k \in Int
    BY <2>1, Positive
  <2>3. disk' = [disk EXCEPT !.age = @ + k] \/ disk' = [disk EXCEPT !.age = Turn, !.buffer = 0]
    BY DEF Advance
  <2> HIDE DEF Turn
  <2>4. QED
    BY <2>1, <2>2, <2>3
<1>5. QED
  BY <1>2, <1>3, <1>4 DEF DevicesTypeOK, Advance, threads, console, Pending

LEMMA HandleType ==
  ASSUME DevicesTypeOK, Handle
  PROVE  DevicesTypeOK'
<1>1. pending \in Seq(Pending) /\ Due
  BY DEF DevicesTypeOK, Pending, Handle
<1>2. Tail(pending) \in Seq(Pending)
  BY <1>1, TakenHolds
<1> DEFINE Rest == /\ clock \in 0 .. Turn - 1
                   /\ disk \in [lastSector : Sectors, buffer : 0 .. Turn - 1, age : Int, cached : BOOLEAN]
<1>3. "in" \in Devs /\ "out" \in Devs /\ "disk" \in Devs
  BY DEF Devs
<1>4. CASE TimerCallBack
  <2>1. PICK delay \in TimerDelays : pending' = Schedule(Tail(pending), delay, "timer")
    BY <1>4 DEF TimerCallBack, SetInterrupt
  <2>2. pending' \in Seq(Pending)
    <3>1. delay \in Int /\ "timer" \in Interrupts
      BY TimesAssumption DEF Interrupts
    <3>2. QED
      BY <1>2, <2>1, <3>1, ScheduleHolds
  <2>3. QED
    BY <2>2, <1>4 DEF TimerCallBack, DevicesTypeOK, threads, console, Pending
<1>5. CASE PollAgain
  <2>2. pending' \in Seq(Pending)
    <3>1. ConsoleTime \in Int /\ "read" \in Interrupts
      BY Positive DEF Interrupts
    <3>2. QED
      BY <1>2, <1>5, <3>1, ScheduleHolds DEF PollAgain
  <2>3. QED
    BY <2>2, <1>5 DEF PollAgain, DevicesTypeOK, threads, console, Pending
<1>6. CASE CharArrives
  <2>1. rest \in Seq(Chars) /\ rest # <<>>
    BY <1>6 DEF DevicesTypeOK, CharArrives
  <2>2. Head(rest) \in Chars /\ Tail(rest) \in Seq(Chars)
    BY <2>1
  <2>3. sem' \in [Devs -> Nat]
    BY <1>3, <1>6 DEF DevicesTypeOK, CharArrives, V
  <2>4. QED
    BY <2>2, <2>3, <1>2, <1>6 DEF CharArrives, DevicesTypeOK, Pending
<1>7. CASE InputEnds
  <2>3. sem' \in [Devs -> Nat]
    BY <1>3, <1>7 DEF DevicesTypeOK, InputEnds, V
  <2>4. QED
    BY <2>3, <1>2, <1>7 DEF InputEnds, DevicesTypeOK, Pending, console
<1>8. ASSUME NEW type, NEW d \in Devs, Completion(type, d) PROVE DevicesTypeOK'
  <2>3. sem' \in [Devs -> Nat] /\ busy' \in [Devs -> BOOLEAN]
    BY <1>8 DEF DevicesTypeOK, Completion, V
  <2>4. QED
    BY <2>3, <1>2, <1>8 DEF Completion, DevicesTypeOK, Pending, console
<1>9. QED
  BY <1>3, <1>4, <1>5, <1>6, <1>7, <1>8 DEF Handle, PutDone, DiskDone

LEMMA StepType ==
  ASSUME DevicesTypeOK, NEW t \in Threads, Step(t)
  PROVE  DevicesTypeOK'
<1>1. pending \in Seq(Pending)
  BY DEF DevicesTypeOK, Pending
<1>2. CASE Acquire(t)
  BY <1>2 DEF Acquire, DevicesTypeOK, time, console
<1>3. CASE Request(t)
  <2>1. pending' \in Seq(Pending)
        /\ disk' \in [lastSector : Sectors, buffer : 0 .. Turn - 1, age : Int, cached : BOOLEAN]
    <3>1. CASE dev[t] = "out"
      <4>1. PutChar
        BY <1>3, <3>1 DEF Request
      <4>2. QED
        <5>1. ConsoleTime \in Int /\ "write" \in Interrupts
          BY Positive DEF Interrupts
        <5>2. QED
          BY <4>1, <5>1, <1>1, ScheduleHolds DEF PutChar, DevicesTypeOK
    <3>2. CASE dev[t] # "out"
      <4>1. PICK s \in Sectors, writing \in BOOLEAN :
                 pending' = Schedule(pending, ComputeLatency(s, writing), "disk") /\ UpdateLast(s, writing)
        BY <1>3, <3>2 DEF Request, DiskRequest
      <4>2. QED
        BY <4>1, <1>1, ScheduleHolds, LatencyType, UpdateLastType DEF Interrupts
    <3>3. QED
      BY <3>1, <3>2
  <2>2. QED
    BY <2>1, <1>3 DEF Request, DevicesTypeOK, console, Pending
<1>4. CASE P(t)
  <2>1. sem' \in [Devs -> Nat]
    BY <1>4 DEF P, DevicesTypeOK
  <2>2. QED
    BY <2>1, <1>4 DEF P, DevicesTypeOK, time, console
<1>5. CASE Release(t)
  <2>1. CASE dev[t] = "in"
    <3>1. GetChar
      BY <1>5, <2>1 DEF Release
    <3>2. pending' \in Seq(Pending)
      <4>1. ConsoleTime \in Int /\ "read" \in Interrupts
        BY Positive DEF Interrupts
      <4>2. QED
        BY <3>1, <4>1, <1>1, ScheduleHolds DEF GetChar
    <3>3. got' \in Seq(Chars) /\ incoming' \in Chars
      BY <3>1, InputsAssumption DEF GetChar, DevicesTypeOK
    <3>4. QED
      BY <3>1, <3>2, <3>3, <1>5 DEF Release, GetChar, DevicesTypeOK, Pending
  <2>2. CASE dev[t] # "in"
    BY <1>5, <2>2 DEF Release, DevicesTypeOK, time, console
  <2>3. QED
    BY <2>1, <2>2
<1>6. QED
  BY <1>2, <1>3, <1>4, <1>5 DEF Step

LEMMA NextType ==
  ASSUME DevicesTypeOK, [DevicesNext]_deviceVars
  PROVE  DevicesTypeOK'
<1>1. CASE OneTick
  <2>1. PICK k \in TickLengths : Advance(k)
    BY <1>1 DEF OneTick
  <2>2. QED
    BY <2>1, AdvanceType, TimesAssumption
<1>2. CASE Idle
  <2>1. pending \in Seq(Pending) /\ pending # <<>> /\ ~Due /\ Advance(Head(pending).left)
    BY <1>2 DEF Idle, DevicesTypeOK, Pending
  <2>2. Head(pending).left \in Int /\ Head(pending).left >= 0
    <3>1. Head(pending) \in Pending
      BY <2>1
    <3>2. Head(pending).left \in Int
      BY <3>1 DEF Pending
    <3>3. QED
      BY <2>1, <3>2 DEF Due
  <2>3. QED
    BY <2>1, <2>2, AdvanceType
<1>3. CASE UNCHANGED deviceVars
  BY <1>3 DEF deviceVars, DevicesTypeOK, time, threads, console
<1>4. QED
  BY <1>1, <1>2, <1>3, HandleType, StepType DEF DevicesNext


-----------------------------------------------------------------------------
(* The invariant. *)

\* A front end's lock covers everything from the request to the answer, and
\* only the display and the disk are asked.
Exclusive ==
  \A t \in Threads : /\ pc[t] # "want" => lock[dev[t]] = t
                     /\ pc[t] = "request" => dev[t] # "in"

\* The type of the interrupt that ends a request.
TypeOf(d) == IF d = "out" THEN "write" ELSE "disk"
Waits(d) == \E t \in Threads : dev[t] = d /\ pc[t] = "wait"

\* A request is either in the list of interrupts or in the semaphore, not in
\* both, and exactly while its thread waits.
OneRequest ==
  \A d \in {"out", "disk"} :
    /\ Once(pending, TypeOf(d))
    /\ sem[d] \in {0, 1}
    /\ Has(pending, TypeOf(d)) => sem[d] = 0
    /\ busy[d] = Has(pending, TypeOf(d))
    /\ (Has(pending, TypeOf(d)) \/ sem[d] = 1) <=> Waits(d)

\* A thread is about to take a character; the end was delivered; how many
\* characters have left the keyboard.
Collecting == \E t \in Threads : dev[t] = "in" /\ pc[t] = "release"
Ended == got # <<>> /\ got[Len(got)] = EOF
Typed == Len(input) - Len(rest)

\* What GetChar is about to return: the character typed last, or the end.
Loaded ==
  \/ Typed = Len(got) + 1 /\ incoming = input[Typed]
  \/ rest = <<>> /\ Typed = Len(got) /\ incoming = EOF

\* One token goes from the read interrupt to the semaphore to the thread that
\* collects and back, until the end has been delivered.
OneReader ==
  /\ Once(pending, "read") /\ sem["in"] \in {0, 1}
  /\ Has(pending, "read") =>
       sem["in"] = 0 /\ ~Collecting /\ ~Ended /\ incoming = EOF /\ Typed = Len(got)
  /\ sem["in"] = 1 => ~Collecting
  /\ sem["in"] = 1 \/ Collecting => ~Ended /\ Loaded
  /\ incoming # EOF => sem["in"] = 1 \/ Collecting

\* What was returned and what is still to come are the two ends of the input.
InputKept ==
  /\ Len(got) <= Len(input) + 1 /\ Len(rest) <= Len(input)
  /\ \A n \in 1 .. Len(got) : got[n] = IF n <= Len(input) THEN input[n] ELSE EOF
  /\ \A n \in 1 .. Len(got) - 1 : got[n] # EOF
  /\ \A n \in 1 .. Len(rest) : rest[n] = input[Typed + n]

DevicesInv == DevicesTypeOK /\ Exclusive /\ OneRequest /\ OneReader /\ InputKept /\ HeadPasses

-----------------------------------------------------------------------------
(* What each part of the invariant depends on. *)

LEMMA OneRequestKept ==
  ASSUME OneRequest,
         \A type \in {"write", "disk"} : /\ Has(pending', type) <=> Has(pending, type)
                                         /\ Once(pending, type) => Once(pending', type),
         \A d \in {"out", "disk"} : /\ sem'[d] = sem[d] /\ busy'[d] = busy[d]
                                    /\ Waits(d)' <=> Waits(d)
  PROVE  OneRequest'
<1>1. SUFFICES ASSUME NEW d \in {"out", "disk"}
               PROVE  /\ Once(pending', TypeOf(d))
                      /\ sem'[d] \in {0, 1}
                      /\ Has(pending', TypeOf(d)) => sem'[d] = 0
                      /\ busy'[d] = Has(pending', TypeOf(d))
                      /\ (Has(pending', TypeOf(d)) \/ sem'[d] = 1) <=> Waits(d)'
  BY Zenon DEF OneRequest, Has, Once, TypeOf
<1>2. TypeOf(d) \in {"write", "disk"}
  BY DEF TypeOf
<1>3. Has(pending', TypeOf(d)) = Has(pending, TypeOf(d))
  BY <1>2, Zenon DEF Has
<1>4. QED
  BY <1>2, <1>3, Zenon DEF OneRequest

LEMMA OneReaderKept ==
  ASSUME OneReader,
         Has(pending', "read") <=> Has(pending, "read"),
         Once(pending, "read") => Once(pending', "read"),
         sem'["in"] = sem["in"], Collecting' <=> Collecting, UNCHANGED console
  PROVE  OneReader'
  BY DEF OneReader, Has, Once, console, Ended, Typed, Loaded

LEMMA InputUnchanged ==
  ASSUME InputKept, UNCHANGED <<rest, got, input>>
  PROVE  InputKept'
  BY DEF InputKept, Typed

LEMMA HeadKept ==
  ASSUME HeadPasses, pending \in Seq(Pending), pending' \in Seq(Pending), UNCHANGED <<clock, disk>>,
         \A n \in 1 .. Len(pending') :
           pending'[n].type = "disk" => \E m \in 1 .. Len(pending) : pending'[n] = pending[m]
  PROVE  HeadPasses'
<1>1. DOMAIN pending = 1 .. Len(pending) /\ DOMAIN pending' = 1 .. Len(pending')
  OBVIOUS
<1>2. QED
  BY <1>1 DEF HeadPasses

\* Where the threads are.
LEMMA ThreadsKept ==
  ASSUME Exclusive, UNCHANGED <<pc, dev, lock>>
  PROVE  Exclusive' /\ (Collecting' <=> Collecting) /\ \A d : Waits(d)' <=> Waits(d)
  BY DEF Exclusive, Collecting, Waits

-----------------------------------------------------------------------------
(* Time. *)

LEMMA AdvanceInv ==
  ASSUME DevicesInv, NEW k \in Int, Advance(k)
  PROVE  Exclusive' /\ OneRequest' /\ OneReader' /\ InputKept' /\ HeadPasses'
<1>1. pending \in Seq(Pending) /\ clock \in Int
  BY Positive DEF DevicesInv, DevicesTypeOK, Pending
<1>2. /\ pending' \in Seq(Pending) /\ Len(pending') = Len(pending)
      /\ \A n \in 1 .. Len(pending) :
           pending'[n].left = pending[n].left - k /\ pending'[n].type = pending[n].type
      /\ \A type : (Has(pending', type) <=> Has(pending, type)) /\ (Once(pending', type) <=> Once(pending, type))
  BY <1>1, ShiftHolds DEF Advance
<1>3. UNCHANGED <<pc, dev, lock, sem, busy>> /\ UNCHANGED console /\ UNCHANGED <<rest, got, input>>
  BY DEF Advance, threads, console
<1>4. Exclusive' /\ (Collecting' <=> Collecting) /\ \A d : Waits(d)' <=> Waits(d)
  BY <1>3, ThreadsKept DEF DevicesInv
<1>5. OneRequest' /\ OneReader' /\ InputKept'
  BY <1>2, <1>3, <1>4, OneRequestKept, OneReaderKept, InputUnchanged DEF DevicesInv
<1>6. HeadPasses'
  <2>1. DOMAIN pending = 1 .. Len(pending) /\ DOMAIN pending' = 1 .. Len(pending)
    BY <1>1, <1>2
  <2>2. disk'.lastSector = disk.lastSector /\ disk'.cached = disk.cached
    BY DEF Advance, DevicesInv, DevicesTypeOK
  <2>3. ASSUME NEW n \in 1 .. Len(pending)
        PROVE  (clock' + pending'[n].left) % Turn = (clock + pending[n].left) % Turn
    <3> DEFINE l == pending[n].left
    <3>1. l \in Int
      <4>1. pending[n] \in Pending
        BY <1>1
      <4>2. QED
        BY <4>1 DEF Pending
    <3>2. clock' = (clock + k) % Turn /\ pending'[n].left = l - k
      BY <1>2 DEF Advance
    <3> HIDE DEF l
    <3>3. clock + k \in Int /\ l - k \in Int /\ (clock + k) + (l - k) = clock + l
      BY <1>1, <3>1
    <3>4. (((clock + k) % Turn) + (l - k)) % Turn = ((clock + k) + (l - k)) % Turn
      BY <3>3, Positive, ModAdd
    <3>5. QED
      BY <3>2, <3>3, <3>4 DEF l
  <2>4. QED
    BY <1>2, <2>1, <2>2, <2>3 DEF HeadPasses, DevicesInv
<1>7. QED
  BY <1>4, <1>5, <1>6


-----------------------------------------------------------------------------
(* Handlers. *)

\* A handler that puts its own interrupt back, at another time.
LEMMA RearmInv ==
  ASSUME DevicesInv, DevicesTypeOK', Due, NEW when \in Int, NEW kind \in {"timer", "read"},
         Head(pending).type = kind, pending' = Schedule(Tail(pending), when, kind),
         UNCHANGED <<clock, threads, busy, console, disk>>
  PROVE  Exclusive' /\ OneRequest' /\ OneReader' /\ InputKept' /\ HeadPasses'
<1>1. pending \in Seq(Pending) /\ pending' \in Seq(Pending) /\ kind \in Interrupts
  BY DEF DevicesInv, DevicesTypeOK, Pending, Interrupts
<1> DEFINE q == Tail(pending)
<1>2. /\ q \in Seq(Pending)
      /\ \A type : Has(pending, type) <=> Has(q, type) \/ kind = type
      /\ \A type : Once(pending, type) => Once(q, type) /\ ~(Has(q, type) /\ kind = type)
      /\ \A n \in 1 .. Len(q) : q[n] = pending[n + 1] /\ n + 1 \in 1 .. Len(pending)
  BY <1>1, TakenHolds
<1>0. pending' = Schedule(q, when, kind)
  OBVIOUS
<1> HIDE DEF q
<1>3. /\ \A type : Has(pending', type) <=> Has(q, type) \/ kind = type
      /\ \A type : Once(q, type) /\ ~(Has(q, type) /\ kind = type) => Once(pending', type)
      /\ \A n \in 1 .. Len(pending') :
           pending'[n] = [left |-> when, type |-> kind] \/ \E m \in 1 .. Len(q) : pending'[n] = q[m]
  BY <1>0, <1>1, <1>2, ScheduleHolds
<1>4. \A type : /\ Has(pending', type) <=> Has(pending, type)
                /\ Once(pending, type) => Once(pending', type)
  BY <1>2, <1>3
<1>5. UNCHANGED <<pc, dev, lock, sem, busy>> /\ UNCHANGED console /\ UNCHANGED <<rest, got, input>>
  BY DEF threads, console
<1>6. Exclusive' /\ (Collecting' <=> Collecting) /\ \A d : Waits(d)' <=> Waits(d)
  BY <1>5, ThreadsKept DEF DevicesInv
<1>7. OneRequest' /\ OneReader' /\ InputKept'
  BY <1>4, <1>5, <1>6, OneRequestKept, OneReaderKept, InputUnchanged DEF DevicesInv
<1>8. HeadPasses'
  <2>1. ASSUME NEW n \in 1 .. Len(pending'), pending'[n].type = "disk"
        PROVE  \E m \in 1 .. Len(pending) : pending'[n] = pending[m]
    <3>1. pending'[n] # [left |-> when, type |-> kind]
      BY <2>1
    <3>2. QED
      BY <3>1, <1>2, <1>3
  <2>2. QED
    BY <1>1, <2>1, HeadKept DEF DevicesInv
<1>9. QED
  BY <1>6, <1>7, <1>8

\* What the handlers that only take their interrupt leave of the list.
LEMMA TakeInv ==
  ASSUME DevicesInv, Due, NEW kind \in {"read", "write", "disk"},
         Head(pending).type = kind, pending' = Tail(pending), UNCHANGED <<clock, disk>>
  PROVE  /\ Has(pending, kind) /\ ~Has(pending', kind)
         /\ \A type \in {"read", "write", "disk"} :
              /\ Once(pending', type)
              /\ type # kind => (Has(pending', type) <=> Has(pending, type))
         /\ HeadPasses'
<1>1. pending \in Seq(Pending)
  BY DEF DevicesInv, DevicesTypeOK, Pending
<1>2. /\ pending' \in Seq(Pending)
      /\ \A type : Has(pending, type) <=> Has(pending', type) \/ kind = type
      /\ \A type : Once(pending, type) => Once(pending', type) /\ ~(Has(pending', type) /\ kind = type)
      /\ \A n \in 1 .. Len(pending') : pending'[n] = pending[n + 1] /\ n + 1 \in 1 .. Len(pending)
  BY <1>1, TakenHolds
<1>3. \A type \in {"read", "write", "disk"} : Once(pending, type)
  <2>1. Once(pending, TypeOf("out")) /\ Once(pending, TypeOf("disk")) /\ Once(pending, "read")
    BY DEF DevicesInv, OneRequest, OneReader
  <2>2. QED
    BY <2>1 DEF TypeOf
<1>4. HeadPasses'
  BY <1>1, <1>2, HeadKept DEF DevicesInv
<1>5. QED
  BY <1>2, <1>3, <1>4

\* ConsoleInput::CallBack with a character or at the end.
LEMMA ReadInv ==
  ASSUME DevicesInv, Due, CharArrives \/ InputEnds
  PROVE  Exclusive' /\ OneRequest' /\ OneReader' /\ InputKept' /\ HeadPasses'
<1>1. /\ Head(pending).type = "read" /\ pending' = Tail(pending) /\ UNCHANGED <<clock, disk>>
      /\ UNCHANGED <<pc, dev, lock, busy, got, input>> /\ sem' = [sem EXCEPT !["in"] = @ + 1]
  BY DEF CharArrives, InputEnds, V, console
<1>2. /\ Has(pending, "read") /\ ~Has(pending', "read")
      /\ \A type \in {"read", "write", "disk"} :
           /\ Once(pending', type)
           /\ type # "read" => (Has(pending', type) <=> Has(pending, type))
      /\ HeadPasses'
  BY <1>1, TakeInv
<1>3. Exclusive' /\ (Collecting' <=> Collecting) /\ \A d : Waits(d)' <=> Waits(d)
  BY <1>1, ThreadsKept DEF DevicesInv
<1>4. sem \in [Devs -> Nat] /\ "in" \in Devs /\ "out" \in Devs /\ "disk" \in Devs
  BY DEF DevicesInv, DevicesTypeOK, Devs
<1>5. OneRequest'
  <2>0. \A type \in {"write", "disk"} : type # "read" /\ type \in {"read", "write", "disk"}
    OBVIOUS
  <2>1. \A d \in {"out", "disk"} : sem'[d] = sem[d] /\ busy'[d] = busy[d]
    BY <1>1, <1>4
  <2>2. QED
    BY <1>2, <1>3, <2>0, <2>1, OneRequestKept DEF DevicesInv
<1>6. sem["in"] = 0 /\ ~Collecting /\ ~Ended /\ incoming = EOF /\ Typed = Len(got)
  BY <1>2 DEF DevicesInv, OneReader
<1>7. sem'["in"] = 1
  BY <1>1, <1>4, <1>6
<1>8. ~Ended'
  BY <1>1, <1>6 DEF Ended
<1>9. rest \in Seq(Chars) /\ input \in Seq(Chars) /\ got \in Seq(Chars)
  BY InputsAssumption DEF DevicesInv, DevicesTypeOK
<1>10. Loaded' /\ InputKept'
  <2>1. CASE CharArrives
    <3>1. rest # <<>> /\ incoming' = Head(rest) /\ rest' = Tail(rest)
      BY <2>1 DEF CharArrives
    <3>2. /\ Len(rest') = Len(rest) - 1 /\ Len(rest) \in Nat \ {0} /\ incoming' = rest[1]
          /\ \A n \in 1 .. Len(rest') : rest'[n] = rest[n + 1] /\ n + 1 \in 1 .. Len(rest)
      BY <3>1, <1>9
    <3>3. Len(got) \in Nat /\ Len(input) \in Nat
      BY <1>9
    <3>4. Typed' = Typed + 1 /\ Typed \in Int
      BY <1>1, <3>2, <3>3 DEF Typed
    <3>5. incoming' = input[Typed + 1]
      BY <3>2 DEF DevicesInv, InputKept
    <3>6. Loaded'
      BY <1>1, <1>6, <3>4, <3>5 DEF Loaded
    <3>7. ASSUME NEW n \in 1 .. Len(rest') PROVE rest'[n] = input[Typed' + n]
      <4>1. rest[n + 1] = input[Typed + (n + 1)]
        BY <3>2 DEF DevicesInv, InputKept
      <4>2. Typed + (n + 1) = Typed' + n
        BY <3>2, <3>4
      <4>3. QED
        BY <3>2, <4>1, <4>2
    <3>8. Len(rest') <= Len(input)
      BY <3>2, <3>3 DEF DevicesInv, InputKept
    <3>9. InputKept'
      BY <1>1, <3>7, <3>8 DEF DevicesInv, InputKept
    <3>10. QED
      BY <3>6, <3>9
  <2>2. CASE InputEnds
    <3>1. rest = <<>> /\ UNCHANGED <<incoming, rest>>
      BY <2>2 DEF InputEnds, console
    <3>2. QED
      BY <1>1, <1>6, <3>1, InputUnchanged DEF Loaded, Typed, DevicesInv
  <2>3. QED
    BY <2>1, <2>2
<1>11. OneReader'
  BY <1>2, <1>3, <1>6, <1>7, <1>8, <1>10 DEF OneReader, Has, Once
<1>12. QED
  BY <1>2, <1>3, <1>5, <1>10, <1>11

\* The device is done: ConsoleOutput::CallBack and Disk::CallBack.
LEMMA CompletionInv ==
  ASSUME DevicesInv, Due, NEW d \in {"out", "disk"}, Completion(TypeOf(d), d)
  PROVE  Exclusive' /\ OneRequest' /\ OneReader' /\ InputKept' /\ HeadPasses'
<1> DEFINE kind == TypeOf(d)
<1>1. /\ Head(pending).type = kind /\ pending' = Tail(pending) /\ UNCHANGED <<clock, disk>>
      /\ UNCHANGED <<pc, dev, lock>> /\ UNCHANGED console /\ UNCHANGED <<rest, got, input>>
      /\ sem' = [sem EXCEPT ![d] = @ + 1] /\ busy' = [busy EXCEPT ![d] = FALSE]
      /\ kind \in {"read", "write", "disk"}
  BY DEF Completion, V, console, TypeOf
<1>2. /\ Has(pending, kind) /\ ~Has(pending', kind)
      /\ \A type \in {"read", "write", "disk"} :
           /\ Once(pending', type)
           /\ type # kind => (Has(pending', type) <=> Has(pending, type))
      /\ HeadPasses'
  BY <1>1, TakeInv
<1>3. Exclusive' /\ (Collecting' <=> Collecting) /\ \A e : Waits(e)' <=> Waits(e)
  BY <1>1, ThreadsKept DEF DevicesInv
<1>4. /\ sem \in [Devs -> Nat] /\ busy \in [Devs -> BOOLEAN]
      /\ "in" \in Devs /\ "out" \in Devs /\ "disk" \in Devs
  BY DEF DevicesInv, DevicesTypeOK, Devs
<1>5. OneReader' /\ InputKept'
  <2>1. sem'["in"] = sem["in"] /\ kind # "read"
    BY <1>1, <1>4 DEF TypeOf
  <2>2. QED
    BY <1>1, <1>2, <1>3, <2>1, OneReaderKept, InputUnchanged DEF DevicesInv
<1>6. ASSUME NEW e \in {"out", "disk"}
      PROVE  /\ Once(pending', TypeOf(e))
             /\ sem'[e] \in {0, 1}
             /\ Has(pending', TypeOf(e)) => sem'[e] = 0
             /\ busy'[e] = Has(pending', TypeOf(e))
             /\ (Has(pending', TypeOf(e)) \/ sem'[e] = 1) <=> Waits(e)'
  <2>0. TypeOf(e) \in {"read", "write", "disk"} /\ (e # d => TypeOf(e) # kind)
    BY DEF TypeOf
  <2>1. /\ sem[e] \in {0, 1} /\ (Has(pending, TypeOf(e)) => sem[e] = 0)
        /\ busy[e] = Has(pending, TypeOf(e))
        /\ (Has(pending, TypeOf(e)) \/ sem[e] = 1) <=> Waits(e)
    BY DEF DevicesInv, OneRequest
  <2>2. CASE e = d
    <3>1. sem[d] = 0 /\ sem'[d] = 1 /\ busy'[d] = FALSE
      BY <1>1, <1>2, <1>4, <2>1, <2>2
    <3>2. Has(pending', TypeOf(e)) = FALSE
      BY <1>2, <2>2 DEF Has
    <3>3. QED
      BY <1>2, <1>3, <2>0, <2>1, <2>2, <3>1, <3>2
  <2>3. CASE e # d
    <3>1. sem'[e] = sem[e] /\ busy'[e] = busy[e]
      BY <1>1, <1>4, <2>3
    <3>2. Has(pending', TypeOf(e)) = Has(pending, TypeOf(e))
      BY <1>2, <2>0, <2>3 DEF Has
    <3>3. QED
      BY <1>2, <1>3, <2>0, <2>1, <3>1, <3>2
  <2>4. QED
    BY <2>2, <2>3
<1>7. OneRequest'
  BY <1>6, Zenon DEF OneRequest, Has, Once, TypeOf
<1>8. QED
  BY <1>2, <1>3, <1>5, <1>7

LEMMA HandleInv ==
  ASSUME DevicesInv, DevicesTypeOK', Handle
  PROVE  Exclusive' /\ OneRequest' /\ OneReader' /\ InputKept' /\ HeadPasses'
<1>1. CASE TimerCallBack
  <2>1. PICK delay \in TimerDelays : pending' = Schedule(Tail(pending), delay, "timer")
    BY <1>1 DEF TimerCallBack, SetInterrupt
  <2>2. delay \in Int
    BY TimesAssumption
  <2>3. QED
    BY <1>1, <2>1, <2>2, RearmInv DEF TimerCallBack, Handle
<1>2. CASE PollAgain
  <2>1. ConsoleTime \in Int
    BY Positive
  <2>2. QED
    BY <1>2, <2>1, RearmInv DEF PollAgain, Handle
<1>3. CASE CharArrives \/ InputEnds
  BY <1>3, ReadInv DEF Handle
<1>4. CASE PutDone
  <2>1. Completion(TypeOf("out"), "out")
    BY <1>4 DEF PutDone, TypeOf
  <2>2. QED
    BY <2>1, CompletionInv DEF Handle
<1>5. CASE DiskDone
  <2>1. Completion(TypeOf("disk"), "disk")
    BY <1>5 DEF DiskDone, TypeOf
  <2>2. QED
    BY <2>1, CompletionInv DEF Handle
<1>6. QED
  BY <1>1, <1>2, <1>3, <1>4, <1>5 DEF Handle


-----------------------------------------------------------------------------
(* Threads. *)

\* lock->Acquire.
LEMMA AcquireInv ==
  ASSUME DevicesInv, NEW t \in Threads, Acquire(t)
  PROVE  Exclusive' /\ OneRequest' /\ OneReader' /\ InputKept' /\ HeadPasses'
<1>1. /\ pc[t] = "want" /\ lock[dev[t]] = NoThread
      /\ lock' = [lock EXCEPT ![dev[t]] = t]
      /\ pc' = [pc EXCEPT ![t] = IF dev[t] = "in" THEN "wait" ELSE "request"]
      /\ UNCHANGED <<pending, clock, dev, sem, busy, disk>> /\ UNCHANGED console
      /\ UNCHANGED <<rest, got, input>>
  BY DEF Acquire, time, console
<1>2. /\ pc \in [Threads -> {"want", "request", "wait", "release"}] /\ dev \in [Threads -> Devs]
      /\ lock \in [Devs -> Threads \cup {NoThread}] /\ pending \in Seq(Pending)
  BY DEF DevicesInv, DevicesTypeOK, Pending
<1>3. Exclusive'
  BY <1>1, <1>2, ThreadsAssumption DEF DevicesInv, Exclusive
<1>4. \A d \in {"out", "disk"} : Waits(d)' <=> Waits(d)
  BY <1>1, <1>2 DEF Waits
<1>5. Collecting' <=> Collecting
  BY <1>1, <1>2 DEF Collecting
<1>6. OneRequest' /\ OneReader' /\ InputKept'
  BY <1>1, <1>4, <1>5, OneRequestKept, OneReaderKept, InputUnchanged DEF DevicesInv
<1>7. HeadPasses'
  BY <1>1 DEF HeadPasses, DevicesInv
<1>8. QED
  BY <1>3, <1>6, <1>7

\* semaphore->P.
LEMMA PInv ==
  ASSUME DevicesInv, NEW t \in Threads, P(t)
  PROVE  Exclusive' /\ OneRequest' /\ OneReader' /\ InputKept' /\ HeadPasses'
<1>1. /\ pc[t] = "wait" /\ sem[dev[t]] > 0
      /\ sem' = [sem EXCEPT ![dev[t]] = @ - 1]
      /\ pc' = [pc EXCEPT ![t] = "release"]
      /\ UNCHANGED <<pending, clock, dev, lock, busy, disk>> /\ UNCHANGED console
      /\ UNCHANGED <<rest, got, input, incoming>>
  BY DEF P, time, console
<1>2. /\ pc \in [Threads -> {"want", "request", "wait", "release"}] /\ dev \in [Threads -> Devs]
      /\ sem \in [Devs -> Nat] /\ busy \in [Devs -> BOOLEAN] /\ pending \in Seq(Pending)
      /\ "in" \in Devs
  BY DEF DevicesInv, DevicesTypeOK, Pending, Devs
<1>3. Exclusive'
  BY <1>1, <1>2 DEF DevicesInv, Exclusive
<1>4. ASSUME NEW u \in Threads, u # t, pc[u] # "want" PROVE dev[u] # dev[t]
  BY <1>1, <1>4 DEF DevicesInv, Exclusive
<1>5. ASSUME NEW d \in {"out", "disk"}
      PROVE  /\ Once(pending', TypeOf(d))
             /\ sem'[d] \in {0, 1}
             /\ Has(pending', TypeOf(d)) => sem'[d] = 0
             /\ busy'[d] = Has(pending', TypeOf(d))
             /\ (Has(pending', TypeOf(d)) \/ sem'[d] = 1) <=> Waits(d)'
  <2>1. /\ Once(pending, TypeOf(d))
        /\ sem[d] \in {0, 1} /\ (Has(pending, TypeOf(d)) => sem[d] = 0)
        /\ busy[d] = Has(pending, TypeOf(d))
        /\ (Has(pending, TypeOf(d)) \/ sem[d] = 1) <=> Waits(d)
    BY DEF DevicesInv, OneRequest
  <2>2. CASE d = dev[t]
    <3>1. sem'[d] = 0 /\ sem[d] = 1 /\ ~Has(pending, TypeOf(d))
      BY <1>1, <1>2, <2>1, <2>2
    <3>2. ~Waits(d)'
      BY <1>1, <1>2, <1>4, <2>2 DEF Waits
    <3>3. QED
      BY <1>1, <2>1, <3>1, <3>2
  <2>3. CASE d # dev[t]
    <3>1. sem'[d] = sem[d]
      BY <1>1, <1>2, <2>3
    <3>2. Waits(d)' <=> Waits(d)
      BY <1>1, <1>2, <2>3 DEF Waits
    <3>3. QED
      BY <1>1, <2>1, <3>1, <3>2
  <2>4. QED
    BY <2>2, <2>3
<1>6. OneRequest'
  BY <1>5, Zenon DEF OneRequest, Has, Once, TypeOf
<1>7. OneReader'
  <2>1. CASE dev[t] = "in"
    <3>1. sem["in"] = 1 /\ sem'["in"] = 0
      BY <1>1, <1>2, <2>1 DEF DevicesInv, OneReader
    <3>2. Collecting' /\ ~Has(pending, "read") /\ ~Ended /\ Loaded
      BY <1>1, <1>2, <2>1, <3>1 DEF Collecting, DevicesInv, OneReader
    <3>3. ~Ended' /\ Loaded' /\ (Has(pending', "read") <=> Has(pending, "read"))
      BY <1>1, <3>2 DEF Ended, Loaded, Typed
    <3>4. QED
      BY <1>1, <3>1, <3>2, <3>3 DEF DevicesInv, OneReader
  <2>2. CASE dev[t] # "in"
    <3>1. sem'["in"] = sem["in"] /\ (Collecting' <=> Collecting)
      BY <1>1, <1>2, <2>2 DEF Collecting
    <3>2. QED
      BY <1>1, <3>1, OneReaderKept DEF DevicesInv
  <2>3. QED
    BY <2>1, <2>2
<1>8. InputKept' /\ HeadPasses'
  BY <1>1, InputUnchanged DEF HeadPasses, DevicesInv
<1>9. QED
  BY <1>3, <1>6, <1>7, <1>8


\* The interrupt of a disk request that the track buffer does not serve comes
\* when the head has passed the sector.
LEMMA LatencyPasses ==
  ASSUME DevicesTypeOK, NEW s \in Sectors, NEW writing \in BOOLEAN, ~(~writing /\ InTrackBuffer(s))
  PROVE  (clock + ComputeLatency(s, writing)) % Turn
           = (((s % SectorsPerTrack) + 1) * RotationTime) % Turn
<1> DEFINE R == RotationTime
           S == SectorsPerTrack
           c == clock + TimeToSeek(s)
           rot == Rotate(s)
           b == (c + rot) \div R
           m == (s - b) % S
           y == s % S
           u == (-c) \div R
           v == -u
           w == (s - b) \div S
           x == s \div S
<1>1. clock \in Int /\ s \in Int /\ TimeToSeek(s) \in Int /\ rot \in Int /\ c \in Int
  BY Positive, LatencyType DEF DevicesTypeOK
<1>2. ComputeLatency(s, writing) = TimeToSeek(s) + rot + R + m * R
  BY DEF ComputeLatency, ModuloDiff
<1>3. rot = (-c) % R
  BY DEF Rotate
<1>4. R \in Nat \ {0} /\ S \in Nat \ {0} /\ Turn = R * S
  BY Positive DEF Turn
<1>5. c = clock + TimeToSeek(s) /\ -c \in Int
  BY <1>1
<1> HIDE DEF R, S, c, rot
\* After the seek and the wait the head is at the beginning of a sector.
<1>6. u \in Int /\ -c = u * R + rot
  BY <1>3, <1>4, <1>5, DivMod
<1> HIDE DEF u
<1>7. v \in Int /\ c + rot = v * R + 0
  BY <1>1, <1>4, <1>6
<1> HIDE DEF v
<1>8. b = v
  <2>1. (v * R + 0) \div R = v
    BY <1>4, <1>7, ModOf
  <2>2. QED
    BY <1>7, <2>1, Zenon
<1> HIDE DEF b
\* m more sectors bring it to sector s of its track.
<1>9. m \in Int /\ w \in Int /\ s - v = w * S + m
  <2>1. s - v \in Int /\ s - v = s - b
    BY <1>1, <1>7, <1>8
  <2>2. QED
    BY <2>1, <1>4, DivMod
<1>10. x \in Int /\ y \in Int /\ s = x * S + y
  BY <1>1, <1>4, DivMod
<1> HIDE DEF m, w, x, y
<1>11. v + m = y + (x - w) * S
  BY <1>1, <1>4, <1>7, <1>9, <1>10
<1>12. c + rot + R + m * R = (v + m + 1) * R
  BY <1>4, <1>7, <1>9
<1>13. (v + m + 1) * R = (y + 1) * R + (x - w) * (R * S)
  BY <1>4, <1>7, <1>9, <1>10, <1>11
<1>14. R * S \in Nat \ {0} /\ (y + 1) * R \in Int /\ x - w \in Int
  BY <1>4, <1>9, <1>10
<1>15. ((y + 1) * R + (x - w) * (R * S)) % (R * S) = ((y + 1) * R) % (R * S)
  BY <1>14, ModTurns
<1>16. clock + ComputeLatency(s, writing) = c + rot + R + m * R
  <2>1. m * R \in Int /\ R \in Int
    BY <1>4, <1>9
  <2>2. QED
    BY <1>1, <1>2, <1>5, <2>1
<1>17. (clock + ComputeLatency(s, writing)) % Turn = ((y + 1) * R) % Turn
  BY <1>4, <1>12, <1>13, <1>15, <1>16, Zenon
<1>18. QED
  BY <1>17, Zenon DEF y, R, S

\* Request: ConsoleOutput::PutChar, Disk::ReadRequest and WriteRequest.
LEMMA RequestInv ==
  ASSUME DevicesInv, DevicesTypeOK', NEW t \in Threads, Request(t)
  PROVE  Exclusive' /\ OneRequest' /\ OneReader' /\ InputKept' /\ HeadPasses'
<1> DEFINE d == dev[t]
           kind == TypeOf(d)
<1>1. /\ pc[t] = "request"
      /\ busy' = [busy EXCEPT ![d] = TRUE]
      /\ pc' = [pc EXCEPT ![t] = "wait"]
      /\ UNCHANGED <<clock, dev, lock, sem>> /\ UNCHANGED console
      /\ UNCHANGED <<rest, got, input, incoming>>
  BY DEF Request, console
<1>2. /\ pc \in [Threads -> {"want", "request", "wait", "release"}] /\ dev \in [Threads -> Devs]
      /\ sem \in [Devs -> Nat] /\ busy \in [Devs -> BOOLEAN]
      /\ pending \in Seq(Pending) /\ pending' \in Seq(Pending)
  BY DEF DevicesInv, DevicesTypeOK, Pending
<1>3. d \in {"out", "disk"} /\ d \in Devs
  BY <1>1, <1>2 DEF DevicesInv, Exclusive, Devs
<1>4. ~Waits(d) /\ \A e : (e = d => Waits(e)') /\ (e # d => (Waits(e)' <=> Waits(e)))
  <2>1. ~Waits(d)
    BY <1>1 DEF Waits, DevicesInv, Exclusive
  <2>2. ASSUME NEW e, e = d PROVE Waits(e)'
    BY <1>1, <1>2, <2>2 DEF Waits
  <2>3. ASSUME NEW e, e # d PROVE Waits(e)' <=> Waits(e)
    BY <1>1, <1>2, <2>3 DEF Waits
  <2>4. QED
    BY <2>1, <2>2, <2>3
<1>5. ~Has(pending, kind) /\ sem[d] = 0
  BY <1>2, <1>3, <1>4 DEF DevicesInv, OneRequest
<1>6. PICK when \in Int :
           /\ pending' = Schedule(pending, when, kind)
           /\ d = "out" => UNCHANGED disk
           /\ d = "disk" => \E s \in Sectors, writing \in BOOLEAN :
                              when = ComputeLatency(s, writing) /\ UpdateLast(s, writing)
  <2>1. CASE d = "out"
    BY <2>1, Positive DEF Request, PutChar, TypeOf
  <2>2. CASE d = "disk"
    <3>1. PICK s \in Sectors, writing \in BOOLEAN :
               pending' = Schedule(pending, ComputeLatency(s, writing), "disk") /\ UpdateLast(s, writing)
      BY <2>2 DEF Request, DiskRequest
    <3>2. ComputeLatency(s, writing) \in Int
      BY LatencyType DEF DevicesInv
    <3>3. QED
      BY <2>2, <3>1, <3>2 DEF TypeOf
  <2>3. QED
    BY <1>3, <2>1, <2>2
<1>7. kind \in Interrupts /\ kind # "read"
  BY DEF TypeOf, Interrupts
<1>8. /\ \A type : Has(pending', type) <=> Has(pending, type) \/ kind = type
      /\ \A type : Once(pending, type) /\ ~(Has(pending, type) /\ kind = type) => Once(pending', type)
      /\ \A n \in 1 .. Len(pending') :
           pending'[n] = [left |-> when, type |-> kind] \/ \E m \in 1 .. Len(pending) : pending'[n] = pending[m]
  <2> HIDE DEF kind
  <2>1. QED
    BY <1>2, <1>6, <1>7, ScheduleHolds
<1>9. Exclusive'
  BY <1>1, <1>2 DEF DevicesInv, Exclusive
<1>10. OneReader' /\ InputKept'
  <2>1. Collecting' <=> Collecting
    BY <1>1, <1>2 DEF Collecting
  <2>2. QED
    BY <1>1, <1>7, <1>8, <2>1, OneReaderKept, InputUnchanged DEF DevicesInv
<1>11. ASSUME NEW e \in {"out", "disk"}
       PROVE  /\ Once(pending', TypeOf(e))
              /\ sem'[e] \in {0, 1}
              /\ Has(pending', TypeOf(e)) => sem'[e] = 0
              /\ busy'[e] = Has(pending', TypeOf(e))
              /\ (Has(pending', TypeOf(e)) \/ sem'[e] = 1) <=> Waits(e)'
  <2>1. /\ Once(pending, TypeOf(e)) /\ sem[e] \in {0, 1}
        /\ (Has(pending, TypeOf(e)) => sem[e] = 0)
        /\ busy[e] = Has(pending, TypeOf(e))
        /\ (Has(pending, TypeOf(e)) \/ sem[e] = 1) <=> Waits(e)
    BY DEF DevicesInv, OneRequest
  <2>2. CASE e = d
    <3>1. sem'[e] = 0 /\ busy'[e] = TRUE
      BY <1>1, <1>2, <1>3, <1>5, <2>2
    <3>2. Has(pending', TypeOf(e)) = TRUE
      BY <1>8, <2>2 DEF Has
    <3>3. Once(pending', TypeOf(e))
      BY <1>5, <1>8, <2>1, <2>2
    <3>4. QED
      BY <1>4, <2>2, <3>1, <3>2, <3>3
  <2>3. CASE e # d
    <3>1. sem'[e] = sem[e] /\ busy'[e] = busy[e]
      BY <1>1, <1>2, <1>3, <2>3 DEF Devs
    <3>2. kind # TypeOf(e)
      BY <1>3, <2>3 DEF TypeOf
    <3>3. Has(pending', TypeOf(e)) = Has(pending, TypeOf(e)) /\ Once(pending', TypeOf(e))
      BY <1>8, <2>1, <3>2 DEF Has
    <3>4. QED
      BY <1>4, <2>1, <2>3, <3>1, <3>3
  <2>4. QED
    BY <2>2, <2>3
<1>12. OneRequest'
  BY <1>11, Zenon DEF OneRequest, Has, Once, TypeOf
<1>13. HeadPasses'
  <2>1. CASE d = "out"
    <3>1. ASSUME NEW n \in 1 .. Len(pending'), pending'[n].type = "disk"
          PROVE  \E m \in 1 .. Len(pending) : pending'[n] = pending[m]
      <4>1. pending'[n] # [left |-> when, type |-> kind]
        BY <2>1, <3>1 DEF TypeOf
      <4>2. QED
        BY <4>1, <1>8
    <3>2. QED
      BY <1>1, <1>2, <1>6, <2>1, <3>1, HeadKept DEF DevicesInv
  <2>2. CASE d = "disk"
    <3>1. PICK s \in Sectors, writing \in BOOLEAN :
               when = ComputeLatency(s, writing) /\ UpdateLast(s, writing)
      BY <1>6, <2>2
    <3>2. disk'.lastSector = s /\ disk'.cached = (~writing /\ InTrackBuffer(s))
      BY <3>1, UpdateLastType DEF DevicesInv
    <3>3. SUFFICES ASSUME NEW n \in 1 .. Len(pending'), pending'[n].type = "disk", ~disk'.cached
                   PROVE  (clock + pending'[n].left) % Turn
                            = (((s % SectorsPerTrack) + 1) * RotationTime) % Turn
      <4>1. DOMAIN pending' = 1 .. Len(pending')
        BY <1>2
      <4>2. QED
        BY <4>1, <1>1, <3>2 DEF HeadPasses
    <3>4. kind = "disk"
      BY <2>2 DEF TypeOf
    <3>5. \A m \in 1 .. Len(pending) : pending[m].type # "disk"
      BY <1>5, <3>4 DEF Has
    <3>6. pending'[n] = [left |-> when, type |-> kind]
      BY <1>8, <3>3, <3>5
    <3>7. pending'[n].left = ComputeLatency(s, writing)
      BY <3>1, <3>6
    <3>8. QED
      BY <3>2, <3>3, <3>7, LatencyPasses DEF DevicesInv
  <2>3. QED
    BY <1>3, <2>1, <2>2
<1>14. QED
  BY <1>9, <1>10, <1>12, <1>13


\* ConsoleInput::GetChar on the way out of the front end.
LEMMA GetCharInv ==
  ASSUME DevicesInv, NEW t \in Threads, Release(t), dev[t] = "in"
  PROVE  /\ \A type \in {"write", "disk"} : /\ Has(pending', type) <=> Has(pending, type)
                                            /\ Once(pending, type) => Once(pending', type)
         /\ OneReader' /\ InputKept' /\ HeadPasses'
<1>1. /\ pc[t] = "release" /\ UNCHANGED <<sem, clock, rest, input, disk>>
      /\ got' = Append(got, incoming) /\ incoming' = EOF
      /\ pending' = IF incoming # EOF THEN Schedule(pending, ConsoleTime, "read") ELSE pending
      /\ pc' = [pc EXCEPT ![t] = "want"] /\ \A u \in Threads : u # t => dev'[u] = dev[u]
  BY DEF Release, GetChar, DevicesInv, DevicesTypeOK
<1>2. /\ pc \in [Threads -> {"want", "request", "wait", "release"}] /\ dev \in [Threads -> Devs]
      /\ pending \in Seq(Pending)
      /\ got \in Seq(Chars) /\ incoming \in Chars /\ rest \in Seq(Chars) /\ input \in Seq(Chars)
  BY InputsAssumption DEF DevicesInv, DevicesTypeOK, Pending
<1>3. Collecting
  BY <1>1 DEF Collecting
<1>4. ~Collecting'
  <2>1. ASSUME NEW u \in Threads, dev'[u] = "in", pc'[u] = "release" PROVE FALSE
    <3>1. u # t /\ dev[u] = "in" /\ pc[u] = "release"
      BY <1>1, <1>2, <2>1
    <3>2. QED
      BY <1>1, <3>1 DEF DevicesInv, Exclusive
  <2>2. QED
    BY <2>1 DEF Collecting
<1>5. ~Has(pending, "read") /\ sem["in"] = 0 /\ ~Ended /\ Loaded /\ Once(pending, "read")
  BY <1>3 DEF DevicesInv, OneReader
<1>6. /\ Len(got) \in Nat /\ Len(input) \in Nat /\ Len(rest) \in Nat
      /\ Len(got') = Len(got) + 1 /\ got'[Len(got) + 1] = incoming
      /\ \A n \in 1 .. Len(got) : got'[n] = got[n]
  BY <1>1, <1>2
<1>7. Typed' = Typed /\ Typed \in Int
  BY <1>1, <1>6 DEF Typed
<1>8. Ended' <=> incoming = EOF
  <2>1. got' # <<>>
    BY <1>1, <1>2, <1>6, AppendProperties
  <2>2. got'[Len(got')] = incoming
    BY <1>6
  <2>3. QED
    BY <2>1, <2>2 DEF Ended
<1>9. incoming # EOF => Typed = Len(got) + 1 /\ incoming = input[Typed]
  BY <1>5 DEF Loaded
<1>10. Len(got) <= Len(input) /\ incoming = IF Len(got) + 1 <= Len(input) THEN input[Len(got) + 1] ELSE EOF
  <2>1. CASE Typed = Len(got) + 1 /\ incoming = input[Typed]
    BY <2>1, <1>6 DEF Typed
  <2>2. CASE rest = <<>> /\ Typed = Len(got) /\ incoming = EOF
    BY <2>2, <1>6 DEF Typed
  <2>3. QED
    BY <1>5, <2>1, <2>2 DEF Loaded
<1>11. InputKept'
  <2>1. \A n \in 1 .. Len(got) : got[n] # EOF
    <3>1. Len(got) > 0 => got[Len(got)] # EOF
      BY <1>2, <1>5, <1>6 DEF Ended
    <3>2. \A n \in 1 .. Len(got) - 1 : got[n] # EOF
      BY DEF DevicesInv, InputKept
    <3>3. QED
      BY <1>6, <3>1, <3>2
  <2>2. \A n \in 1 .. Len(got') : got'[n] = IF n <= Len(input) THEN input[n] ELSE EOF
    <3>1. \A n \in 1 .. Len(got) : got'[n] = IF n <= Len(input) THEN input[n] ELSE EOF
      BY <1>6 DEF DevicesInv, InputKept
    <3>2. got'[Len(got) + 1] = IF Len(got) + 1 <= Len(input) THEN input[Len(got) + 1] ELSE EOF
      BY <1>6, <1>10
    <3>3. \A n \in 1 .. Len(got') : n \in 1 .. Len(got) \/ n = Len(got) + 1
      BY <1>6
    <3>4. QED
      BY <3>1, <3>2, <3>3
  <2>3. \A n \in 1 .. Len(got') - 1 : got'[n] # EOF
    BY <1>6, <2>1
  <2>4. Len(got') <= Len(input) + 1 /\ Len(rest) <= Len(input)
    BY <1>6, <1>10 DEF DevicesInv, InputKept
  <2>5. \A n \in 1 .. Len(rest) : rest[n] = input[Typed + n]
    BY DEF DevicesInv, InputKept
  <2>6. QED
    BY <1>1, <1>7, <2>2, <2>3, <2>4, <2>5 DEF InputKept
<1>12. CASE incoming = EOF
  <2>1. UNCHANGED <<pending, clock, disk>>
    BY <1>1, <1>12
  <2>2. OneReader'
    BY <1>1, <1>4, <1>5, <2>1 DEF OneReader
  <2>3. HeadPasses'
    BY <2>1 DEF HeadPasses, DevicesInv
  <2>4. QED
    BY <1>11, <2>1, <2>2, <2>3
<1>13. CASE incoming # EOF
  <2>1. pending' = Schedule(pending, ConsoleTime, "read") /\ ConsoleTime \in Int /\ "read" \in Interrupts
    BY <1>1, <1>13, Positive DEF Interrupts
  <2>2. /\ pending' \in Seq(Pending)
        /\ \A type : Has(pending', type) <=> Has(pending, type) \/ "read" = type
        /\ \A type : Once(pending, type) /\ ~(Has(pending, type) /\ "read" = type) => Once(pending', type)
        /\ \A n \in 1 .. Len(pending') :
             \/ pending'[n] = [left |-> ConsoleTime, type |-> "read"]
             \/ \E m \in 1 .. Len(pending) : pending'[n] = pending[m]
    BY <1>2, <2>1, ScheduleHolds
  <2>3. Typed' = Len(got')
    BY <1>6, <1>7, <1>9, <1>13
  <2>4. OneReader'
    BY <1>1, <1>4, <1>5, <1>8, <1>13, <2>2, <2>3 DEF OneReader
  <2>5. HeadPasses'
    <3>1. ASSUME NEW n \in 1 .. Len(pending'), pending'[n].type = "disk"
          PROVE  \E m \in 1 .. Len(pending) : pending'[n] = pending[m]
      <4>1. pending'[n] # [left |-> ConsoleTime, type |-> "read"]
        BY <3>1
      <4>2. QED
        BY <4>1, <2>2
    <3>2. QED
      BY <1>1, <1>2, <2>2, <3>1, HeadKept DEF DevicesInv
  <2>6. QED
    BY <1>11, <2>2, <2>4, <2>5
<1>14. QED
  BY <1>12, <1>13

\* lock->Release, with GetChar before it when the device is the keyboard.
LEMMA ReleaseInv ==
  ASSUME DevicesInv, NEW t \in Threads, Release(t)
  PROVE  Exclusive' /\ OneRequest' /\ OneReader' /\ InputKept' /\ HeadPasses'
<1>1. /\ pc[t] = "release" /\ UNCHANGED <<sem, busy, disk>>
      /\ lock' = [lock EXCEPT ![dev[t]] = NoThread]
      /\ pc' = [pc EXCEPT ![t] = "want"]
      /\ \E e \in Devs : dev' = [dev EXCEPT ![t] = e]
      /\ dev[t] # "in" => UNCHANGED <<pending, clock, rest, got, input>> /\ UNCHANGED console
  BY DEF Release, time, console
<1>2. /\ pc \in [Threads -> {"want", "request", "wait", "release"}] /\ dev \in [Threads -> Devs]
      /\ lock \in [Devs -> Threads \cup {NoThread}]
  BY DEF DevicesInv, DevicesTypeOK
<1>3. \A u \in Threads : u # t => dev'[u] = dev[u] /\ pc'[u] = pc[u]
  BY <1>1, <1>2
<1>4. pc'[t] = "want"
  BY <1>1, <1>2
<1>5. Exclusive'
  <2>1. ASSUME NEW u \in Threads, pc'[u] # "want"
        PROVE  lock'[dev'[u]] = u /\ (pc'[u] = "request" => dev'[u] # "in")
    <3>1. u # t /\ dev'[u] = dev[u] /\ pc'[u] = pc[u]
      BY <1>3, <1>4, <2>1
    <3>2. lock[dev[u]] = u /\ lock[dev[t]] = t /\ (pc[u] = "request" => dev[u] # "in")
      BY <1>1, <2>1, <3>1 DEF DevicesInv, Exclusive
    <3>3. QED
      BY <1>1, <1>2, <3>1, <3>2
  <2>2. QED
    BY <2>1 DEF Exclusive
<1>6. \A d : Waits(d)' <=> Waits(d)
  BY <1>1, <1>3, <1>4 DEF Waits
<1>7. CASE dev[t] = "in"
  <2>1. /\ \A type \in {"write", "disk"} : /\ Has(pending', type) <=> Has(pending, type)
                                           /\ Once(pending, type) => Once(pending', type)
        /\ OneReader' /\ InputKept' /\ HeadPasses'
    BY <1>7, GetCharInv
  <2>2. OneRequest'
    BY <1>1, <1>6, <2>1, OneRequestKept DEF DevicesInv
  <2>3. QED
    BY <1>5, <2>1, <2>2
<1>8. CASE dev[t] # "in"
  <2>1. Collecting' <=> Collecting
    BY <1>1, <1>3, <1>4, <1>8 DEF Collecting
  <2>2. UNCHANGED <<pending, clock, disk, sem, busy, rest, got, input>> /\ UNCHANGED console
    BY <1>1, <1>8
  <2>3. OneRequest' /\ OneReader' /\ InputKept'
    BY <1>6, <2>1, <2>2, OneRequestKept, OneReaderKept, InputUnchanged DEF DevicesInv
  <2>4. HeadPasses'
    BY <2>2 DEF HeadPasses, DevicesInv
  <2>5. QED
    BY <1>5, <2>3, <2>4
<1>9. QED
  BY <1>7, <1>8

LEMMA NextDevicesInv ==
  ASSUME DevicesInv, [DevicesNext]_deviceVars
  PROVE  DevicesInv'
<1>0. DevicesTypeOK'
  BY NextType DEF DevicesInv
<1> DEFINE Others == Exclusive /\ OneRequest /\ OneReader /\ InputKept /\ HeadPasses
<1>1. ASSUME OneTick PROVE Others'
  <2>1. PICK k \in TickLengths : Advance(k)
    BY <1>1 DEF OneTick
  <2>2. QED
    BY <2>1, AdvanceInv, TimesAssumption
<1>2. ASSUME Idle PROVE Others'
  <2>0. pending \in Seq(Pending) /\ pending # <<>> /\ Advance(Head(pending).left)
    BY <1>2 DEF Idle, DevicesInv, DevicesTypeOK, Pending
  <2>1. Head(pending) \in Pending /\ Advance(Head(pending).left)
    BY <2>0
  <2>2. Head(pending).left \in Int
    BY <2>1 DEF Pending
  <2>3. QED
    BY <2>1, <2>2, AdvanceInv
<1>3. ASSUME Handle PROVE Others'
  BY <1>0, <1>3, HandleInv
<1>4. ASSUME NEW t \in Threads, Step(t) PROVE Others'
  BY <1>0, <1>4, AcquireInv, RequestInv, PInv, ReleaseInv DEF Step
<1>5. ASSUME UNCHANGED deviceVars PROVE Others'
  <2>1. UNCHANGED <<pending, clock, pc, dev, lock, sem, busy, disk, rest, incoming, got, input>> /\ UNCHANGED console
    BY <1>5 DEF deviceVars, time, threads, console
  <2>2. Exclusive' /\ (Collecting' <=> Collecting) /\ \A d : Waits(d)' <=> Waits(d)
    BY <2>1, ThreadsKept DEF DevicesInv
  <2>3. OneRequest' /\ OneReader' /\ InputKept'
    BY <2>1, <2>2, OneRequestKept, OneReaderKept, InputUnchanged DEF DevicesInv
  <2>4. HeadPasses'
    BY <2>1 DEF HeadPasses, DevicesInv
  <2>5. QED
    BY <2>2, <2>3, <2>4
<1>6. QED
  BY <1>0, <1>1, <1>2, <1>3, <1>4, <1>5 DEF DevicesInv, DevicesNext


\* The two interrupts the constructors of Timer and ConsoleInput schedule.
LEMMA InitDevicesInv ==
  ASSUME DevicesInit
  PROVE  DevicesInv
<1>1. PICK delay \in TimerDelays : pending = Schedule(Schedule(<<>>, delay, "timer"), ConsoleTime, "read")
  BY DEF DevicesInit, SetInterrupt
<1> DEFINE q == Schedule(<<>>, delay, "timer")
<1>2. /\ delay \in Int /\ ConsoleTime \in Int /\ "timer" \in Interrupts /\ "read" \in Interrupts
      /\ <<>> \in Seq(Pending)
  BY TimesAssumption DEF Interrupts
<1>3. \A type : ~Has(<<>>, type) /\ Once(<<>>, type)
  BY DEF Has, Once
<1>4. /\ q \in Seq(Pending) /\ \A type : Has(q, type) <=> "timer" = type
      /\ \A type : Once(q, type)
  BY <1>2, <1>3, ScheduleHolds
<1>5. pending = Schedule(q, ConsoleTime, "read")
  BY <1>1
<1> HIDE DEF q
<1>6. /\ pending \in Seq(Pending) /\ \A type : Has(pending, type) <=> "timer" = type \/ "read" = type
      /\ \A type : type # "timer" => Once(pending, type)
  BY <1>2, <1>4, <1>5, ScheduleHolds
<1>7. /\ pc = [t \in Threads |-> "want"] /\ dev \in [Threads -> Devs]
      /\ lock = [d \in Devs |-> NoThread] /\ sem = [d \in Devs |-> 0]
      /\ busy = [d \in Devs |-> FALSE] /\ clock = 0
      /\ input \in Inputs /\ rest = input /\ incoming = EOF /\ got = <<>>
      /\ disk = [lastSector |-> 0, buffer |-> 0, age |-> 0, cached |-> FALSE]
  BY DEF DevicesInit, InitSynch, InitOutput, InitConsole, InitDisk
<1>8. DevicesTypeOK
  <2>1. 0 \in 0 .. Turn - 1
    BY Positive
  <2>2. 0 \in Sectors
    <3>1. SectorsPerTrack * NumTracks \in Nat \ {0}
      BY Positive
    <3>2. QED
      BY <3>1 DEF Sectors
  <2>3. disk \in [lastSector : Sectors, buffer : 0 .. Turn - 1, age : Int, cached : BOOLEAN]
    BY <1>7, <2>1, <2>2
  <2>4. rest \in Seq(Chars) /\ incoming \in Chars /\ got \in Seq(Chars) /\ input \in Inputs
    BY <1>7, InputsAssumption
  <2>5. QED
    BY <1>6, <1>7, <2>1, <2>3, <2>4 DEF DevicesTypeOK, Pending
<1>9. Exclusive
  BY <1>7 DEF Exclusive
<1>10. OneRequest
  <2>1. SUFFICES ASSUME NEW d \in {"out", "disk"}
                 PROVE  /\ Once(pending, TypeOf(d))
                        /\ sem[d] \in {0, 1}
                        /\ Has(pending, TypeOf(d)) => sem[d] = 0
                        /\ busy[d] = Has(pending, TypeOf(d))
                        /\ (Has(pending, TypeOf(d)) \/ sem[d] = 1) <=> Waits(d)
    BY Zenon DEF OneRequest
  <2>2. TypeOf(d) # "timer" /\ TypeOf(d) # "read" /\ d \in Devs
    BY DEF TypeOf, Devs
  <2>3. Has(pending, TypeOf(d)) = FALSE
    BY <1>6, <2>2 DEF Has
  <2>4. sem[d] = 0 /\ sem[d] # 1 /\ busy[d] = FALSE /\ ~Waits(d) /\ Once(pending, TypeOf(d))
    BY <1>6, <1>7, <2>2 DEF Waits
  <2>5. QED
    BY <2>3, <2>4, Zenon
<1>11. OneReader /\ InputKept
  <2>1. ~Collecting /\ ~Ended /\ sem["in"] = 0
    BY <1>7 DEF Collecting, Ended, Devs
  <2>2. input \in Seq(Chars) /\ Len(input) \in Nat /\ Len(got) = 0
    BY <1>7, InputsAssumption
  <2>3. Typed = 0
    BY <1>7, <2>2 DEF Typed
  <2>4. OneReader
    <3>1. ~("timer" = "read") /\ ~(sem["in"] = 1) /\ sem["in"] \in {0, 1}
      BY <2>1
    <3>2. Once(pending, "read")
      BY <1>6
    <3>3. QED
      BY <1>7, <2>1, <2>2, <2>3, <3>1, <3>2 DEF OneReader
  <2>5. InputKept
    BY <1>7, <2>2, <2>3 DEF InputKept
  <2>6. QED
    BY <2>4, <2>5
<1>12. HeadPasses
  <2>1. DOMAIN pending = 1 .. Len(pending)
    BY <1>6
  <2>2. QED
    BY <1>6, <2>1 DEF HeadPasses, Has
<1>13. QED
  BY <1>8, <1>9, <1>10, <1>11, <1>12 DEF DevicesInv

LEMMA AlwaysDevicesInv == DevicesSpec => []DevicesInv
<1>1. DevicesInit => DevicesInv
  BY InitDevicesInv
<1>2. DevicesInv /\ [DevicesNext]_deviceVars => DevicesInv'
  BY NextDevicesInv
<1>3. QED
  BY <1>1, <1>2, PTL DEF DevicesSpec

\* The types of the devices' state, for any times, threads and inputs.
THEOREM DevicesTypeCorrect == DevicesSpec => []DevicesTypeOK
<1>1. DevicesInv => DevicesTypeOK
  BY DEF DevicesInv
<1>2. QED
  BY <1>1, AlwaysDevicesInv, PTL

\* How many interrupts of a type there are, when no two are.
LEMMA CountOnce ==
  ASSUME pending \in Seq(Pending), NEW type, Once(pending, type)
  PROVE  Count(type) = IF Has(pending, type) THEN 1 ELSE 0
<1> DEFINE S == {n \in DOMAIN pending : pending[n].type = type}
<1>1. DOMAIN pending = 1 .. Len(pending)
  OBVIOUS
<1>2. CASE Has(pending, type)
  <2>1. PICK n \in 1 .. Len(pending) : pending[n].type = type
    BY <1>2 DEF Has
  <2>2. S = {n}
    BY <1>1, <2>1 DEF Once
  <2>3. Cardinality({n}) = 1
    BY FS_Singleton
  <2>4. QED
    BY <1>2, <2>2, <2>3 DEF Count
<1>3. CASE ~Has(pending, type)
  <2>1. S = {}
    BY <1>1, <1>3 DEF Has
  <2>2. QED
    BY <1>3, <2>1, FS_EmptySet DEF Count
<1>4. QED
  BY <1>2, <1>3

\* Display and disk are never given a request while they are busy, and every
\* request has exactly one interrupt, one wake-up and one waiting thread.
THEOREM OneCompletionTheorem == DevicesSpec => []OneCompletion
<1>1. ASSUME DevicesInv PROVE OneCompletion
  <2>1. SUFFICES ASSUME NEW d \in {"out", "disk"}
                 PROVE  LET held == {t \in Threads : dev[t] = d /\ pc[t] = "wait"}
                            ints == Count(IF d = "out" THEN "write" ELSE "disk")
                        IN  /\ \A t, u \in held : t = u
                            /\ ints + sem[d] = (IF held = {} THEN 0 ELSE 1)
                            /\ busy[d] <=> ints = 1
                            /\ \A t \in Threads : dev[t] = d /\ pc[t] = "request" => ~busy[d] /\ sem[d] = 0
    BY DEF OneCompletion
  <2> DEFINE held == {t \in Threads : dev[t] = d /\ pc[t] = "wait"}
             ints == Count(TypeOf(d))
  <2>2. /\ Once(pending, TypeOf(d)) /\ sem[d] \in {0, 1} /\ (Has(pending, TypeOf(d)) => sem[d] = 0)
        /\ busy[d] = Has(pending, TypeOf(d))
        /\ (Has(pending, TypeOf(d)) \/ sem[d] = 1) <=> Waits(d)
    BY <1>1 DEF DevicesInv, OneRequest
  <2>3. ints = IF Has(pending, TypeOf(d)) THEN 1 ELSE 0
    BY <1>1, <2>2, CountOnce DEF DevicesInv, DevicesTypeOK, Pending
  <2>4. \A t, u \in held : t = u
    BY <1>1 DEF DevicesInv, Exclusive
  <2>5. held = {} <=> ~Waits(d)
    BY DEF Waits
  <2>6. ints + sem[d] = IF held = {} THEN 0 ELSE 1
    BY <2>2, <2>3, <2>5
  <2>7. busy[d] <=> ints = 1
    BY <2>2, <2>3
  <2>8. ASSUME NEW t \in Threads, dev[t] = d, pc[t] = "request" PROVE ~busy[d] /\ sem[d] = 0
    <3>1. ~Waits(d)
      BY <1>1, <2>8 DEF DevicesInv, Exclusive, Waits
    <3>2. QED
      BY <2>2, <3>1
  <2>9. QED
    BY <2>4, <2>6, <2>7, <2>8, Zenon DEF TypeOf
<1>2. QED
  BY <1>1, AlwaysDevicesInv, PTL

\* Characters are neither lost, doubled nor reordered on their way from the
\* keyboard, none is overwritten, and the end is delivered once.
THEOREM InputInOrderTheorem == DevicesSpec => []InputInOrder
<1>1. ASSUME DevicesInv PROVE InputInOrder
  <2>1. /\ pending \in Seq(Pending) /\ Once(pending, "read")
        /\ got \in Seq(Chars) /\ input \in Seq(Chars) /\ incoming \in Chars
    BY <1>1, InputsAssumption DEF DevicesInv, DevicesTypeOK, OneReader, Pending
  <2>2. Count("read") = IF Has(pending, "read") THEN 1 ELSE 0
    BY <2>1, CountOnce
  <2>3. Has(pending, "read") => sem["in"] = 0 /\ ~Ended /\ incoming = EOF
    BY <1>1 DEF DevicesInv, OneReader
  <2>4. Ended => ~Has(pending, "read") /\ sem["in"] = 0
    BY <1>1 DEF DevicesInv, OneReader
  <2>5. \A n \in 1 .. Len(got) - 1 : got[n] # EOF
    BY <1>1 DEF DevicesInv, InputKept
  <2> DEFINE all == Append(input, EOF)
             out == got \o (IF incoming = EOF THEN <<>> ELSE <<incoming>>)
  <2>6. /\ all \in Seq(Chars) /\ Len(all) = Len(input) + 1 /\ Len(input) \in Nat /\ Len(got) \in Nat
        /\ \A n \in 1 .. Len(input) + 1 : all[n] = IF n <= Len(input) THEN input[n] ELSE EOF
    BY <2>1, InputsAssumption
  <2>7. /\ out \in Seq(Chars) /\ Len(out) <= Len(all)
        /\ \A n \in 1 .. Len(out) : out[n] = all[n]
    <3>1. /\ Len(got) <= Len(input) + 1
          /\ \A n \in 1 .. Len(got) : got[n] = IF n <= Len(input) THEN input[n] ELSE EOF
      BY <1>1 DEF DevicesInv, InputKept
    <3>2. CASE incoming = EOF
      <4>1. out = got
        BY <2>1, <3>2
      <4>2. QED
        BY <2>1, <2>6, <3>1, <4>1
    <3>3. CASE incoming # EOF
      <4>1. /\ out = Append(got, incoming) /\ out \in Seq(Chars) /\ Len(out) = Len(got) + 1
            /\ out[Len(got) + 1] = incoming /\ \A n \in 1 .. Len(got) : out[n] = got[n]
        BY <2>1, <3>3
      <4>2. Typed = Len(got) + 1 /\ incoming = input[Typed] /\ Len(rest) \in Nat
        BY <1>1, <3>3 DEF DevicesInv, DevicesTypeOK, OneReader, Loaded
      <4>3. Len(got) + 1 <= Len(input)
        BY <2>6, <4>2 DEF Typed
      <4>4. QED
        BY <2>6, <3>1, <4>1, <4>2, <4>3
    <3>4. QED
      BY <3>2, <3>3
  <2> HIDE DEF all, out
  <2>8. SubSeq(out, 1, Len(out)) = SubSeq(all, 1, Len(out))
    <3>1. /\ SubSeq(out, 1, Len(out)) \in Seq(Chars) /\ SubSeq(all, 1, Len(out)) \in Seq(Chars)
          /\ Len(SubSeq(out, 1, Len(out))) = Len(out) /\ Len(SubSeq(all, 1, Len(out))) = Len(out)
          /\ \A n \in 1 .. Len(out) : SubSeq(out, 1, Len(out))[n] = out[n] /\ SubSeq(all, 1, Len(out))[n] = all[n]
      BY <2>6, <2>7
    <3>2. QED
      BY <2>7, <3>1, SeqEqual
  <2>9. IsPrefix(out, all)
    BY <2>7, <2>8 DEF IsPrefix
  <2>10. QED
    BY <2>2, <2>3, <2>4, <2>5, <2>9 DEF InputInOrder, Ended, out, all
<1>2. QED
  BY <1>1, AlwaysDevicesInv, PTL

\* Disk::ComputeLatency, UpdateLast and the time that passes meanwhile agree:
\* a request completes when the head has just passed the end of its sector.
THEOREM HeadPassesTheorem == DevicesSpec => []HeadPasses
<1>1. DevicesInv => HeadPasses
  BY DEF DevicesInv
<1>2. QED
  BY <1>1, AlwaysDevicesInv, PTL
=============================================================================
