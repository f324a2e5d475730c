-------------------------- MODULE SynchListProofs --------------------------
(***************************************************************************)
(* Proofs about the monitor of module SynchList, for any number of threads *)
(* and calls, and about the linked lists of module List, in which it keeps *)
(* its items, for lists and heaps of any size.                             *)
(*                                                                         *)
(* For the monitor the inductive invariant says where a thread's semaphore *)
(* of Wait is.  For the lists IsChain says which sequence of cells a list  *)
(* is.  That an iterator sees exactly this sequence is ChainIs; linking a  *)
(* cell in at any place is InsertChain, taking one out RemoveChain; and    *)
(* each operation is one of these two at the place where it works.         *)
(***************************************************************************)
EXTENDS SynchList, List, SequenceTheorems, FiniteSetTheorems, WellFoundedInduction, TLAPS

\* A thread has a semaphore of Wait exactly while it is in Wait, with a value
\* that says whether it was signalled and has not yet taken the unit.
WaiterInv ==
  \A t \in Threads : /\ pc[t] \in {"again", "again2"} => waiter[t] = 0
                     /\ pc[t] = "sleep" => waiter[t] \in {0, 1}
                     /\ pc[t] \notin {"sleep", "again", "again2"} => waiter[t] = -1

IInv == TypeOK /\ MutualExclusion /\ WaiterAlive /\ WaiterInv

LEMMA InitIInv == Init => IInv
<1>1. Range(<<>>) = {} /\ IsInjective(<<>>)
  BY DEF Range, IsInjective
<1>2. QED
  BY <1>1, ThreadsAssumption, BoundsAssumption
     DEF Init, IInv, TypeOK, PC, MutualExclusion, Critical, WaiterAlive, WaiterInv

\* What AppendSignal does to the wait queue.
LEMMA FrontWaiter ==
  ASSUME IInv, waitQueue # <<>>
  PROVE  /\ Head(waitQueue) \in Threads
         /\ pc[Head(waitQueue)] = "sleep"
         /\ waiter[Head(waitQueue)] = 0
         /\ Tail(waitQueue) \in Seq(Threads)
         /\ IsInjective(Tail(waitQueue))
         /\ Range(Tail(waitQueue)) = Range(waitQueue) \ {Head(waitQueue)}
<1>1. waitQueue \in Seq(Threads) /\ IsInjective(waitQueue)
  BY DEF IInv, TypeOK, WaiterAlive
<1>2. /\ Head(waitQueue) \in Threads
      /\ Head(waitQueue) \in Range(waitQueue)
      /\ Tail(waitQueue) \in Seq(Threads)
      /\ IsInjective(Tail(waitQueue))
  BY <1>1 DEF Range, IsInjective
<1>3. Range(Tail(waitQueue)) \subseteq Range(waitQueue) \ {Head(waitQueue)}
  <2>1. SUFFICES ASSUME NEW i \in 1 .. Len(waitQueue) - 1
                 PROVE  /\ waitQueue[i + 1] \in Range(waitQueue)
                        /\ waitQueue[i + 1] # waitQueue[1]
    BY <1>1 DEF Range
  <2>2. QED
    BY <1>1 DEF Range, IsInjective
<1>4. Range(waitQueue) \ {Head(waitQueue)} \subseteq Range(Tail(waitQueue))
  <2>1. SUFFICES ASSUME NEW i \in 1 .. Len(waitQueue), waitQueue[i] # Head(waitQueue)
                 PROVE  waitQueue[i] \in Range(Tail(waitQueue))
    BY <1>1 DEF Range
  <2>2. i - 1 \in 1 .. Len(Tail(waitQueue)) /\ Tail(waitQueue)[i - 1] = waitQueue[i]
    BY <1>1, <2>1
  <2>3. DOMAIN Tail(waitQueue) = 1 .. Len(Tail(waitQueue))
    BY <1>2, LenProperties
  <2>4. QED
    BY <2>2, <2>3 DEF Range
<1>5. QED
  BY <1>2, <1>3, <1>4 DEF IInv, WaiterAlive

LEMMA NextIInv == IInv /\ [Next]_vars => IInv'
<1> SUFFICES ASSUME IInv, [Next]_vars
             PROVE  IInv'
  OBVIOUS
<1> USE ThreadsAssumption, BoundsAssumption DEF IInv
<1>1. ASSUME NEW t \in Threads, CallAppend(t) \/ CallRemoveFront(t) \/ CallApply(t)
      PROVE  IInv'
  <2> USE <1>1 DEF CallAppend, CallRemoveFront, CallApply, Goto
  <2>1. TypeOK'
    BY DEF TypeOK, PC
  <2>2. MutualExclusion'
    BY DEF TypeOK, MutualExclusion, Critical
  <2>3. WaiterAlive' /\ WaiterInv'
    BY DEF TypeOK, WaiterAlive, WaiterInv
  <2>4. QED
    BY <2>1, <2>2, <2>3
<1>2. ASSUME NEW t \in Threads, AcquireP(t)
      PROVE  IInv'
  <2> USE <1>2 DEF AcquireP, Goto
  <2>1. TypeOK'
    BY DEF TypeOK, PC
  <2>2. MutualExclusion'
    BY DEF TypeOK, MutualExclusion, Critical
  <2>3. WaiterAlive' /\ WaiterInv'
    BY DEF TypeOK, WaiterAlive, WaiterInv
  <2>4. QED
    BY <2>1, <2>2, <2>3
<1>3. ASSUME NEW t \in Threads, AppendSignal(t)
      PROVE  IInv'
  <2> DEFINE w == Head(waitQueue)
  <2>1. /\ w \in Threads
        /\ w # t
        /\ pc[w] = "sleep"
        /\ waiter[w] = 0
        /\ waitQueue' \in Seq(Threads)
        /\ IsInjective(waitQueue')
        /\ Range(waitQueue') = Range(waitQueue) \ {w}
    BY <1>3, FrontWaiter DEF AppendSignal, Signal
  <2>2. /\ pc' = [pc EXCEPT ![t] = "release"]
        /\ waiter' = [waiter EXCEPT ![w] = 1]
        /\ list' = Append(list, t)
        /\ lockHolder' = t
        /\ pc[t] = "append2"
        /\ UNCHANGED <<lockValue, appends, applies>>
    BY <1>3, <2>1 DEF AppendSignal, Signal, Goto, TypeOK
  <2> HIDE DEF w
  <2>3. list' \in Seq(Threads)
    BY <2>2 DEF TypeOK
  <2>4. TypeOK'
    BY <2>1, <2>2, <2>3 DEF TypeOK, PC
  <2>5. MutualExclusion'
    BY <2>2 DEF TypeOK, MutualExclusion, Critical
  <2>6. WaiterAlive' /\ WaiterInv'
    BY <2>1, <2>2 DEF TypeOK, WaiterAlive, WaiterInv
  <2>7. QED
    BY <2>4, <2>5, <2>6
<1>4. ASSUME NEW t \in Threads, AppendQuiet(t) \/ Release(t) \/ Apply(t)
      PROVE  IInv'
  <2> USE <1>4 DEF AppendQuiet, Release, Apply, Goto, Unlock
  <2>1. lockValue = 0 /\ lockHolder' = NoThread /\ list' \in Seq(Threads)
    <3>1. Critical(t)
      BY DEF Critical
    <3>2. lockValue = 0 /\ lockHolder' = NoThread
      BY <3>1 DEF MutualExclusion
    <3>3. list \in Seq(Threads) /\ (list' = Append(list, t) \/ list' = list)
      BY DEF TypeOK
    <3>4. QED
      BY <3>2, <3>3
  <2>2. TypeOK'
    BY <2>1 DEF TypeOK, PC
  <2>3. MutualExclusion'
    BY <2>1 DEF TypeOK, MutualExclusion, Critical
  <2>4. WaiterAlive' /\ WaiterInv'
    BY DEF TypeOK, WaiterAlive, WaiterInv
  <2>5. QED
    BY <2>2, <2>3, <2>4
<1>5. ASSUME NEW t \in Threads, RemoveItem(t)
      PROVE  IInv'
  <2> USE <1>5 DEF RemoveItem, Goto, Unlock
  <2>1. lockValue = 0 /\ list' \in Seq(Threads)
    BY DEF TypeOK, MutualExclusion, Critical
  <2>2. TypeOK'
    BY <2>1 DEF TypeOK, PC
  <2>3. MutualExclusion'
    BY <2>1 DEF TypeOK, MutualExclusion, Critical
  <2>4. WaiterAlive' /\ WaiterInv'
    BY DEF TypeOK, WaiterAlive, WaiterInv
  <2>5. QED
    BY <2>2, <2>3, <2>4
<1>6. ASSUME NEW t \in Threads, Wait(t)
      PROVE  IInv'
  <2> USE <1>6 DEF Wait, Goto, Unlock
  <2>1. lockValue = 0
    BY DEF TypeOK, MutualExclusion, Critical
  <2>2. /\ waitQueue' \in Seq(Threads)
        /\ IsInjective(waitQueue')
        /\ Range(waitQueue') = Range(waitQueue) \cup {t}
    <3>1. waitQueue \in Seq(Threads) /\ IsInjective(waitQueue) /\ t \notin Range(waitQueue)
      BY DEF TypeOK, WaiterAlive
    <3>2. QED
      BY <3>1 DEF Range, IsInjective
  <2>3. TypeOK'
    BY <2>1, <2>2 DEF TypeOK, PC
  <2>4. MutualExclusion'
    BY <2>1 DEF TypeOK, MutualExclusion, Critical
  <2>5. WaiterAlive' /\ WaiterInv'
    BY <2>2 DEF TypeOK, WaiterAlive, WaiterInv
  <2>6. QED
    BY <2>3, <2>4, <2>5
<1>7. ASSUME NEW t \in Threads, WaiterP(t)
      PROVE  IInv'
  <2> USE <1>7 DEF WaiterP, Goto
  <2>1. TypeOK'
    BY DEF TypeOK, PC, WaiterInv
  <2>2. MutualExclusion'
    BY DEF TypeOK, MutualExclusion, Critical
  <2>3. WaiterAlive' /\ WaiterInv'
    BY DEF TypeOK, WaiterAlive, WaiterInv
  <2>4. QED
    BY <2>1, <2>2, <2>3
<1>8. CASE UNCHANGED vars
  BY <1>8 DEF vars, TypeOK, MutualExclusion, Critical, WaiterAlive, WaiterInv
<1>9. QED
  BY <1>1, <1>2, <1>3, <1>4, <1>5, <1>6, <1>7, <1>8 DEF Next, Body

LEMMA Invariance == Spec => []IInv
  BY InitIInv, NextIInv, PTL DEF Spec

\* The lock of synch.cc gives mutual exclusion and Release's assertion holds,
\* for any number of threads, although Acquire is not atomic.
THEOREM MutualExclusionTheorem == Spec => []MutualExclusion
<1>1. IInv => MutualExclusion
  BY DEF IInv
<1>2. QED
  BY <1>1, Invariance, PTL

\* Condition::Signal V()s only the semaphore of a thread that is in Wait and
\* was not signalled before, so never a deleted one.
THEOREM WaiterAliveTheorem == Spec => []WaiterAlive
<1>1. IInv => WaiterAlive
  BY DEF IInv
<1>2. QED
  BY <1>1, Invariance, PTL

(***************************************************************************)
(* No signal is lost: counting the signalled threads.                      *)
(***************************************************************************)
LEMMA SignalledFinite == IsFiniteSet(Signalled) /\ Cardinality(Signalled) \in Nat
<1>1. Signalled \in SUBSET Threads
  BY DEF Signalled
<1>2. QED
  BY <1>1, ThreadsAssumption, FS_Subset, FS_CardinalityType

LEMMA NextSignal == IInv /\ NoLostSignal /\ [Next]_vars => NoLostSignal'
<1> SUFFICES ASSUME IInv, NoLostSignal, [Next]_vars
             PROVE  NoLostSignal'
  OBVIOUS
<1>0. /\ Len(list) \in Nat
      /\ IsFiniteSet(Signalled)
      /\ Cardinality(Signalled) \in Nat
      /\ waitQueue # <<>> => Len(list) <= Cardinality(Signalled)
  BY SignalledFinite DEF IInv, TypeOK, NoLostSignal
<1>1. ASSUME NEW t \in Threads,
             CallAppend(t) \/ CallRemoveFront(t) \/ CallApply(t) \/ AcquireP(t) \/ Release(t) \/ Apply(t)
      PROVE  NoLostSignal'
  <2>1. Signalled' = Signalled /\ UNCHANGED <<waitQueue, list>>
    BY <1>1 DEF CallAppend, CallRemoveFront, CallApply, AcquireP, Release, Apply, Goto,
                Signalled, IInv, TypeOK
  <2>2. QED
    BY <2>1 DEF NoLostSignal
<1>2. ASSUME NEW t \in Threads, AppendSignal(t)
      PROVE  NoLostSignal'
  <2> DEFINE w == Head(waitQueue)
  <2>1. w \in Threads /\ w # t /\ pc[w] = "sleep" /\ waiter[w] = 0
    BY <1>2, FrontWaiter DEF AppendSignal, Signal
  <2>2. /\ waitQueue # <<>>
        /\ pc[t] = "append2"
        /\ pc' = [pc EXCEPT ![t] = "release"]
        /\ waiter' = [waiter EXCEPT ![w] = 1]
        /\ list' = Append(list, t)
    BY <1>2, <2>1 DEF AppendSignal, Signal, Goto, IInv, TypeOK
  <2> HIDE DEF w
  <2>3. Signalled' = Signalled \cup {w} /\ w \notin Signalled
    BY <2>1, <2>2 DEF Signalled, IInv, TypeOK
  <2>4. Cardinality(Signalled') = Cardinality(Signalled) + 1
    BY <1>0, <2>3, FS_AddElement
  <2>5. Len(list') = Len(list) + 1
    BY <2>2 DEF IInv, TypeOK
  <2>6. QED
    BY <1>0, <2>2, <2>4, <2>5 DEF NoLostSignal
<1>3. ASSUME NEW t \in Threads, AppendQuiet(t)
      PROVE  NoLostSignal'
  BY <1>3 DEF AppendQuiet, NoLostSignal
<1>4. ASSUME NEW t \in Threads, RemoveItem(t)
      PROVE  NoLostSignal'
  <2>1. Len(list') = Len(list) - 1 /\ UNCHANGED waitQueue
    BY <1>4 DEF RemoveItem, IInv, TypeOK
  <2>2. Signalled' = Signalled \ {t}
    BY <1>4 DEF RemoveItem, Goto, Signalled, IInv, TypeOK
  <2>3. Cardinality(Signalled') >= Cardinality(Signalled) - 1 /\ Cardinality(Signalled') \in Nat
    <3>1. /\ IsFiniteSet(Signalled \ {t})
          /\ Cardinality(Signalled \ {t}) =
               IF t \in Signalled THEN Cardinality(Signalled) - 1 ELSE Cardinality(Signalled)
      BY <1>0, FS_RemoveElement
    <3>2. Cardinality(Signalled \ {t}) \in Nat
      BY <3>1, FS_CardinalityType
    <3>3. QED
      BY <1>0, <2>2, <3>1, <3>2
  <2>4. QED
    BY <1>0, <2>1, <2>3 DEF NoLostSignal
<1>5. ASSUME NEW t \in Threads, Wait(t)
      PROVE  NoLostSignal'
  <2>1. Len(list') = 0
    BY <1>5 DEF Wait
  <2>2. Signalled' \in SUBSET Threads
    BY DEF Signalled
  <2>3. Cardinality(Signalled') \in Nat
    BY <2>2, ThreadsAssumption, FS_Subset, FS_CardinalityType
  <2>4. QED
    BY <2>1, <2>3 DEF NoLostSignal
<1>6. ASSUME NEW t \in Threads, WaiterP(t)
      PROVE  NoLostSignal'
  <2>1. Signalled' = Signalled /\ UNCHANGED <<waitQueue, list>>
    BY <1>6 DEF WaiterP, Goto, Signalled, IInv, TypeOK
  <2>2. QED
    BY <2>1 DEF NoLostSignal
<1>7. CASE UNCHANGED vars
  BY <1>7 DEF vars, NoLostSignal, Signalled
<1>8. QED
  BY <1>1, <1>2, <1>3, <1>4, <1>5, <1>6, <1>7 DEF Next, Body

\* No Signal of the condition is lost, for any number of threads and items,
\* although Wait releases the lock before it sleeps.
THEOREM NoLostSignalTheorem == Spec => []NoLostSignal
<1>1. Init => NoLostSignal
  BY DEF Init, NoLostSignal
<1>2. QED
  BY <1>1, NextSignal, Invariance, PTL DEF Spec


-----------------------------------------------------------------------------
(* The list as a chain of cells *)

Heaps == [next : [Cells -> Cells \cup {NULL}],
          item : [Cells -> Items \cup {NoItem}],
          used : SUBSET Cells]

ListRecord(s) ==
  IF s = <<>> THEN EmptyList
  ELSE [first |-> s[1], last |-> s[Len(s)], numInList |-> Len(s)]

\* The cells of l are those of s, in this order: all are in use, none comes
\* twice, each is linked to the next, and first, last and the count fit.
IsChain(h, l, s) ==
  /\ s \in Seq(h.used)
  /\ \A i, j \in 1 .. Len(s) : s[i] = s[j] => i = j
  /\ \A i \in 1 .. Len(s) : h.next[s[i]] = IF i = Len(s) THEN NULL ELSE s[i + 1]
  /\ \A i \in 1 .. Len(s) : h.item[s[i]] \in Items
  /\ l = ListRecord(s)

ItemsOf(h, s) == [i \in 1 .. Len(s) |-> h.item[s[i]]]

\* A list as its operations leave it.
WellFormed(h, l) == h \in Heaps /\ \E s : IsChain(h, l, s)

LEMMA LeastCell ==
  ASSUME NEW S, S \subseteq Nat, S # {}
  PROVE  \E x \in S : \A y \in S : x =< y
<1>1. PICK x \in S : \A y \in S : ~ (<<y, x>> \in OpToRel(<, Nat))
  BY NatLessThanWellFounded, WFMin, Zenon
<1>2. ASSUME NEW y \in S PROVE x =< y
  <2>1. <<y, x>> \in Nat \X Nat /\ ~ (<<y, x>> \in OpToRel(<, Nat))
    BY <1>1
  <2>2. ~ (y < x)
    BY <2>1 DEF OpToRel
  <2>3. QED
    BY <2>2
<1>3. QED
  BY <1>2

\* The heap is never too small for a chain, so an iterator sees all of it.
LEMMA ChainFits ==
  ASSUME NEW h \in Heaps, NEW l, NEW s, IsChain(h, l, s)
  PROVE  Len(s) \in 0 .. MaxCells /\ s \in Seq(Cells) /\ \A i \in 1 .. Len(s) : s[i] \in Cells
<1>1. s \in Seq(Cells) /\ \A i \in 1 .. Len(s) : s[i] \in Cells
  <2>1. h.used \subseteq Cells /\ s \in Seq(h.used)
    BY DEF Heaps, IsChain
  <2>2. QED
    BY <2>1
<1>2. s \in Injection(1 .. Len(s), Cells)
  <2>1. s \in [1 .. Len(s) -> Cells]
    BY <1>1
  <2>2. \A i, j \in DOMAIN s : s[i] = s[j] => i = j
    BY <2>1 DEF IsChain
  <2>3. QED
    BY <2>1, <2>2 DEF Injection, IsInjective
<1>3. MaxCells \in Nat /\ MaxCells # 0
  BY ListAssumption
<1>4. IsFiniteSet(Cells) /\ Cardinality(Cells) = MaxCells
  BY <1>3, FS_Interval DEF Cells
<1>5. Cardinality(1 .. Len(s)) <= Cardinality(Cells)
  BY <1>2, <1>4, FS_Injection
<1>6. Len(s) \in Nat /\ Cardinality(1 .. Len(s)) = Len(s)
  <2>1. Len(s) \in Nat
    BY <1>1
  <2>2. 1 \in Int /\ Len(s) \in Int
    BY <2>1
  <2>3. Cardinality(1 .. Len(s)) = IF 1 > Len(s) THEN 0 ELSE Len(s) - 1 + 1
    BY <2>2, FS_Interval
  <2>4. QED
    BY <2>1, <2>3
<1>7. QED
  BY <1>1, <1>3, <1>4, <1>5, <1>6

LEMMA WalkIs ==
  ASSUME NEW h \in Heaps, NEW l, NEW s, IsChain(h, l, s)
  PROVE  Walk(h, l) = [n \in 0 .. MaxCells |-> IF n < Len(s) THEN s[n + 1] ELSE NULL]
<1> DEFINE g == [n \in 0 .. MaxCells |-> IF n < Len(s) THEN s[n + 1] ELSE NULL]
           Rec(f) == [n \in 0 .. MaxCells |->
                        IF n = 0 THEN l.first
                        ELSE IF f[n - 1] = NULL THEN NULL ELSE h.next[f[n - 1]]]
<1>1. /\ Len(s) \in 0 .. MaxCells /\ MaxCells \in Nat /\ Len(s) \in Nat
      /\ \A i \in 1 .. Len(s) : s[i] # NULL
  BY ChainFits, ListAssumption DEF Cells, NULL
<1>2. g[0] = l.first
  <2>1. CASE s = <<>>
    <3>1. Len(s) = 0 /\ l = EmptyList
      BY <2>1 DEF IsChain, ListRecord
    <3>2. QED
      BY <3>1, <1>1 DEF EmptyList
  <2>2. CASE s # <<>>
    <3>1. Len(s) # 0 /\ l.first = s[1]
      BY <2>2 DEF IsChain, ListRecord
    <3>2. QED
      BY <3>1, <1>1
  <2>3. QED
    BY <2>1, <2>2
<1>3. ASSUME NEW n \in 1 .. MaxCells
      PROVE  g[n] = IF g[n - 1] = NULL THEN NULL ELSE h.next[g[n - 1]]
  <2>1. n - 1 \in 0 .. MaxCells /\ n \in 0 .. MaxCells
    BY <1>1
  <2>2. CASE n - 1 < Len(s)
    <3>1. g[n - 1] = s[n] /\ n \in 1 .. Len(s)
      BY <1>1, <2>1, <2>2
    <3>2. h.next[s[n]] = IF n = Len(s) THEN NULL ELSE s[n + 1]
      BY <3>1 DEF IsChain
    <3>3. QED
      BY <1>1, <2>1, <3>1, <3>2
  <2>3. CASE ~(n - 1 < Len(s))
    BY <1>1, <2>1, <2>3
  <2>4. QED
    BY <2>2, <2>3
<1>4. g = Rec(g)
  <2>1. \A n \in 0 .. MaxCells : g[n] = Rec(g)[n]
    <3> HIDE DEF g
    <3>1. QED
      BY <1>1, <1>2, <1>3
  <2>2. g = [n \in 0 .. MaxCells |-> g[n]] /\ Rec(g) = [n \in 0 .. MaxCells |-> Rec(g)[n]]
    <3>1. g = [n \in 0 .. MaxCells |-> g[n]]
      OBVIOUS
    <3> HIDE DEF g
    <3>2. QED
      BY <3>1
  <2> HIDE DEF g, Rec
  <2>3. QED
    BY <2>1, <2>2
<1>5. ASSUME NEW f, f = Rec(f)
      PROVE  f = g
  <2> DEFINE Bad == {n \in 0 .. MaxCells : f[n] # g[n]}
  <2>1. Bad = {}
    <3>1. SUFFICES ASSUME Bad # {} PROVE FALSE
      OBVIOUS
    <3>2. Bad \subseteq Nat
      BY <1>1
    <3> HIDE DEF g
    <3>3. PICK n \in Bad : \A m \in Bad : n <= m
      BY <3>1, <3>2, LeastCell
    <3>4. f[0] = l.first
      BY <1>5, <1>1
    <3>5. n \in 1 .. MaxCells /\ n - 1 \in 0 .. MaxCells /\ n - 1 \notin Bad
      BY <1>1, <1>2, <3>3, <3>4
    <3>6. f[n] = IF f[n - 1] = NULL THEN NULL ELSE h.next[f[n - 1]]
      BY <1>5, <1>1, <3>5
    <3>7. QED
      BY <1>3, <3>3, <3>5, <3>6
  <2>2. \A n \in 0 .. MaxCells : f[n] = g[n]
    BY <2>1
  <2>3. DOMAIN f = 0 .. MaxCells /\ f = [n \in 0 .. MaxCells |-> f[n]]
    BY <1>5
  <2>4. QED
    BY <2>2, <2>3
<1>6. Walk(h, l) = CHOOSE f : f = Rec(f)
  BY DEF Walk
<1>7. QED
  <2> HIDE DEF g, Rec
  <2>1. Walk(h, l) = g
    BY <1>4, <1>5, <1>6
  <2>2. QED
    BY <2>1 DEF g

LEMMA ChainIs ==
  ASSUME NEW h \in Heaps, NEW l, NEW s, IsChain(h, l, s)
  PROVE  Chain(h, l) = s /\ Listed(h, l) = ItemsOf(h, s)
<1> DEFINE N == Len(s)
<1>1. /\ N \in 0 .. MaxCells /\ MaxCells \in Nat /\ N \in Nat /\ s \in Seq(Cells)
      /\ \A i \in 1 .. N : s[i] # NULL
  BY ChainFits, ListAssumption DEF Cells, NULL
<1>2. {n \in 0 .. MaxCells : Walk(h, l)[n] # NULL} = 0 .. N - 1
  BY <1>1, WalkIs
<1>3. Cardinality(0 .. N - 1) = N
  <2>1. 0 \in Int /\ N - 1 \in Int
    BY <1>1
  <2> HIDE DEF N
  <2>2. Cardinality(0 .. N - 1) = IF 0 > N - 1 THEN 0 ELSE N - 1 - 0 + 1
    BY <2>1, FS_Interval
  <2>3. QED
    BY <1>1, <2>2
<1>4. Chain(h, l) = [i \in 1 .. N |-> Walk(h, l)[i - 1]]
  BY <1>2, <1>3 DEF Chain
<1>5. \A i \in 1 .. N : Walk(h, l)[i - 1] = s[i]
  BY <1>1, WalkIs
<1>6. Chain(h, l) = s
  BY <1>1, <1>4, <1>5
<1>7. QED
  BY <1>6 DEF Listed, ItemsOf

CellsOf(s) == {s[i] : i \in 1 .. Len(s)}

\* From heap h to heap g nothing is changed but the cells of s, which become
\* those of t: no other list is touched and no cell is lost.
Frame(h, s, g, t) ==
  /\ h.used \ CellsOf(s) = g.used \ CellsOf(t)
  /\ \A c \in h.used \ CellsOf(s) : g.next[c] = h.next[c] /\ g.item[c] = h.item[c]

\* A sequence with c at place i, or without what is at place i.
InsertedAt(s, i, c) ==
  [k \in 1 .. Len(s) + 1 |-> IF k < i THEN s[k] ELSE IF k = i THEN c ELSE s[k - 1]]
RemovedAt(s, i) == [k \in 1 .. Len(s) - 1 |-> IF k < i THEN s[k] ELSE s[k + 1]]

LEMMA RecordOf ==
  ASSUME NEW S, NEW s \in Seq(S)
  PROVE  /\ s = <<>> <=> Len(s) = 0
         /\ Len(s) = 0 => ListRecord(s) = EmptyList
         /\ Len(s) # 0 =>
              ListRecord(s) = [first |-> s[1], last |-> s[Len(s)], numInList |-> Len(s)]
BY DEF ListRecord

InsertedIs(S, s, i, c) ==
  /\ InsertedAt(s, i, c) \in Seq(S)
  /\ Len(InsertedAt(s, i, c)) = Len(s) + 1
  /\ \A k \in 1 .. Len(s) + 1 :
       InsertedAt(s, i, c)[k] = IF k < i THEN s[k] ELSE IF k = i THEN c ELSE s[k - 1]

LEMMA InsertedSeq ==
  ASSUME NEW S, NEW s \in Seq(S), NEW i \in 1 .. Len(s) + 1, NEW c \in S
  PROVE  InsertedIs(S, s, i, c)
<1> DEFINE t == InsertedAt(s, i, c)
<1>1. Len(s) \in Nat /\ \A k \in 1 .. Len(s) : s[k] \in S
  OBVIOUS
<1>2. t = [k \in 1 .. Len(s) + 1 |-> t[k]]
  BY DEF InsertedAt
<1>3. \A k \in 1 .. Len(s) + 1 : t[k] = IF k < i THEN s[k] ELSE IF k = i THEN c ELSE s[k - 1]
  BY DEF InsertedAt
<1>4. \A k \in 1 .. Len(s) + 1 : t[k] \in S
  BY <1>1, <1>3
<1> HIDE DEF t
<1>5. t \in Seq(S) /\ Len(t) = Len(s) + 1
  <2>1. Len(s) + 1 \in Nat /\ t \in [1 .. Len(s) + 1 -> S]
    BY <1>1, <1>2, <1>4
  <2>2. QED
    BY <2>1, IsASeq, LenProperties
<1>6. QED
  BY <1>3, <1>5 DEF t, InsertedIs

LEMMA RemovedSeq ==
  ASSUME NEW S, NEW s \in Seq(S), NEW i \in 1 .. Len(s)
  PROVE  /\ RemovedAt(s, i) \in Seq(S)
         /\ Len(RemovedAt(s, i)) = Len(s) - 1
         /\ \A k \in 1 .. Len(s) - 1 : RemovedAt(s, i)[k] = IF k < i THEN s[k] ELSE s[k + 1]
<1> DEFINE t == RemovedAt(s, i)
<1>1. Len(s) \in Nat /\ \A k \in 1 .. Len(s) : s[k] \in S
  OBVIOUS
<1>2. t = [k \in 1 .. Len(s) - 1 |-> t[k]]
  BY DEF RemovedAt
<1>3. \A k \in 1 .. Len(s) - 1 : t[k] = IF k < i THEN s[k] ELSE s[k + 1]
  BY DEF RemovedAt
<1>4. \A k \in 1 .. Len(s) - 1 : t[k] \in S
  BY <1>1, <1>3
<1> HIDE DEF t
<1>5. t \in Seq(S) /\ Len(t) = Len(s) - 1
  <2>1. Len(s) - 1 \in Nat /\ t \in [1 .. Len(s) - 1 -> S]
    BY <1>1, <1>2, <1>4
  <2>2. QED
    BY <2>1, IsASeq, LenProperties
<1>6. QED
  BY <1>3, <1>5 DEF t

\* A cell that is linked in at place i of a chain.
LEMMA InsertChain ==
  ASSUME NEW h \in Heaps, NEW l, NEW s, IsChain(h, l, s),
         NEW c \in Cells, c \notin h.used, NEW x \in Items,
         NEW i \in 1 .. Len(s) + 1,
         NEW g \in Heaps,
         g.used = h.used \cup {c},
         g.item = [h.item EXCEPT ![c] = x],
         g.next[c] = IF i = Len(s) + 1 THEN NULL ELSE s[i],
         i > 1 => g.next[s[i - 1]] = c,
         \A d \in Cells : d # c /\ (i > 1 => d # s[i - 1]) => g.next[d] = h.next[d]
  PROVE  /\ IsChain(g, ListRecord(InsertedAt(s, i, c)), InsertedAt(s, i, c))
         /\ ItemsOf(g, InsertedAt(s, i, c)) = InsertedAt(ItemsOf(h, s), i, x)
         /\ Frame(h, s, g, InsertedAt(s, i, c))
<1> DEFINE t == InsertedAt(s, i, c)
           N == Len(s)
<1>1. /\ N \in Nat /\ s \in Seq(h.used) /\ s \in Seq(g.used) /\ c \in g.used
      /\ \A k \in 1 .. N : s[k] \in Cells /\ s[k] \in h.used /\ s[k] # c
  <2>1. s \in Seq(h.used) /\ h.used \subseteq g.used /\ h.used \subseteq Cells
    BY DEF IsChain, Heaps
  <2>2. QED
    BY <2>1
<1>2. /\ t \in Seq(g.used) /\ Len(t) = N + 1
      /\ \A k \in 1 .. N + 1 : t[k] = IF k < i THEN s[k] ELSE IF k = i THEN c ELSE s[k - 1]
  <2>1. InsertedIs(g.used, s, i, c)
    BY <1>1, InsertedSeq
  <2>2. QED
    BY <2>1 DEF InsertedIs
<1>3. \A j, k \in 1 .. N : s[j] = s[k] => j = k
  BY DEF IsChain
<1>4. \A k \in 1 .. N : h.next[s[k]] = IF k = N THEN NULL ELSE s[k + 1]
  BY DEF IsChain
<1>5. \A k \in 1 .. N : h.item[s[k]] \in Items
  BY DEF IsChain
<1>6. i \in 1 .. N + 1 /\ g.next[c] = (IF i = N + 1 THEN NULL ELSE s[i])
  OBVIOUS
<1>7. \A d \in Cells : g.item[d] = IF d = c THEN x ELSE h.item[d]
  BY DEF Heaps
<1>8. ItemsOf(g, t) = InsertedAt(ItemsOf(h, s), i, x)
  <2>1. Len(ItemsOf(h, s)) = N
    BY <1>1 DEF ItemsOf
  <2>2. ItemsOf(g, t) = [k \in 1 .. N + 1 |-> g.item[t[k]]]
    BY <1>2 DEF ItemsOf
  <2>3. InsertedAt(ItemsOf(h, s), i, x)
          = [k \in 1 .. N + 1 |-> IF k < i THEN ItemsOf(h, s)[k]
                                  ELSE IF k = i THEN x ELSE ItemsOf(h, s)[k - 1]]
    BY <2>1 DEF InsertedAt
  <2>4. \A k \in 1 .. N : ItemsOf(h, s)[k] = h.item[s[k]]
    BY DEF ItemsOf
  <2> HIDE DEF t, N
  <2>5. ASSUME NEW k \in 1 .. N + 1
        PROVE  g.item[t[k]] = IF k < i THEN ItemsOf(h, s)[k]
                              ELSE IF k = i THEN x ELSE ItemsOf(h, s)[k - 1]
    <3>1. CASE k < i
      <4>1. k \in 1 .. N /\ t[k] = s[k]
        BY <1>1, <1>2, <1>6, <3>1
      <4>2. QED
        BY <1>1, <1>7, <2>4, <3>1, <4>1
    <3>2. CASE k = i
      BY <1>1, <1>2, <1>6, <1>7, <3>2
    <3>3. CASE k > i
      <4>1. k - 1 \in 1 .. N /\ t[k] = s[k - 1] /\ ~(k < i) /\ k # i
        BY <1>1, <1>2, <1>6, <3>3
      <4>2. QED
        BY <1>1, <1>7, <2>4, <4>1
    <3>4. QED
      BY <1>6, <3>1, <3>2, <3>3
  <2>6. QED
    BY <2>2, <2>3, <2>5
<1>9. Frame(h, s, g, t)
  <2> HIDE DEF t
  <2>1. CellsOf(t) = CellsOf(s) \cup {c}
    <3>1. \A k \in 1 .. N + 1 : t[k] \in CellsOf(s) \cup {c}
      BY <1>1, <1>2, <1>6 DEF CellsOf
    <3>2. c \in CellsOf(t)
      BY <1>1, <1>2, <1>6 DEF CellsOf
    <3>3. ASSUME NEW k \in 1 .. N PROVE s[k] \in CellsOf(t)
      <4>1. CASE k < i
        BY <1>1, <1>2, <1>6, <4>1 DEF CellsOf
      <4>2. CASE ~(k < i)
        <5>1. k + 1 \in 1 .. N + 1 /\ t[k + 1] = s[k]
          BY <1>1, <1>2, <1>6, <4>2
        <5>2. QED
          BY <1>2, <5>1 DEF CellsOf
      <4>3. QED
        BY <4>1, <4>2
    <3>4. QED
      BY <1>2, <3>1, <3>2, <3>3 DEF CellsOf
  <2>2. h.used \ CellsOf(s) = g.used \ CellsOf(t)
    BY <1>1, <2>1 DEF CellsOf
  <2>3. ASSUME NEW d \in h.used \ CellsOf(s)
        PROVE  g.next[d] = h.next[d] /\ g.item[d] = h.item[d]
    <3>1. d \in Cells /\ d # c
      BY DEF Heaps
    <3>2. i > 1 => d # s[i - 1]
      BY <1>1, <1>6 DEF CellsOf
    <3>3. QED
      BY <1>7, <3>1, <3>2
  <2>4. QED
    BY <2>2, <2>3 DEF Frame
<1>10. IsChain(g, ListRecord(t), t)
  <2> HIDE DEF t, N
  <2>1. ASSUME NEW j \in 1 .. N + 1, NEW k \in 1 .. N + 1, t[j] = t[k]
        PROVE  j = k
    <3>1. /\ j < i => j \in 1 .. N /\ t[j] = s[j]
          /\ j = i => t[j] = c
          /\ j > i => j - 1 \in 1 .. N /\ t[j] = s[j - 1]
      BY <1>1, <1>2, <1>6
    <3>2. /\ k < i => k \in 1 .. N /\ t[k] = s[k]
          /\ k = i => t[k] = c
          /\ k > i => k - 1 \in 1 .. N /\ t[k] = s[k - 1]
      BY <1>1, <1>2, <1>6
    <3>3. CASE j < i
      <4>1. k # i
        BY <1>1, <2>1, <3>1, <3>2, <3>3
      <4>2. k > i => j = k - 1
        BY <1>3, <2>1, <3>1, <3>2, <3>3
      <4>3. k < i => j = k
        BY <1>3, <2>1, <3>1, <3>2, <3>3
      <4>4. QED
        BY <1>6, <3>3, <4>1, <4>2, <4>3
    <3>4. CASE j = i
      <4>1. ~(k < i) /\ ~(k > i)
        BY <1>1, <2>1, <3>1, <3>2, <3>4
      <4>2. QED
        BY <1>6, <3>4, <4>1
    <3>5. CASE j > i
      <4>1. k # i
        BY <1>1, <2>1, <3>1, <3>2, <3>5
      <4>2. k < i => j - 1 = k
        BY <1>3, <2>1, <3>1, <3>2, <3>5
      <4>3. k > i => j - 1 = k - 1
        BY <1>3, <2>1, <3>1, <3>2, <3>5
      <4>4. QED
        BY <1>6, <3>5, <4>1, <4>2, <4>3
    <3>6. QED
      BY <1>6, <3>3, <3>4, <3>5
  <2>2. ASSUME NEW k \in 1 .. N + 1
        PROVE  g.next[t[k]] = IF k = N + 1 THEN NULL ELSE t[k + 1]
    <3>0. i > 1 => g.next[s[i - 1]] = c /\ i - 1 \in 1 .. N
      BY <1>1, <1>6
    <3>1. CASE k < i - 1
      <4>1. k \in 1 .. N /\ t[k] = s[k] /\ t[k + 1] = s[k + 1] /\ k + 1 \in 1 .. N /\ k # i - 1 /\ k # N
        BY <1>1, <1>2, <1>6, <3>1
      <4>2. s[k] # s[i - 1]
        BY <4>1, <3>0, <1>3, <3>1
      <4>3. g.next[s[k]] = h.next[s[k]]
        BY <4>1, <4>2, <1>1
      <4>4. QED
        BY <4>1, <4>3, <1>4, <1>1
    <3>2. CASE k = i - 1
      <4>1. t[k] = s[i - 1] /\ t[k + 1] = c /\ i > 1 /\ k # N + 1
        BY <1>1, <1>2, <1>6, <3>2
      <4>2. QED
        BY <4>1, <3>0
    <3>3. CASE k = i
      <4>1. t[k] = c
        BY <1>1, <1>2, <1>6, <3>3
      <4>2. k # N + 1 => k + 1 \in 1 .. N + 1 /\ t[k + 1] = s[k]
        BY <1>1, <1>2, <1>6, <3>3
      <4>3. QED
        BY <4>1, <4>2, <1>6, <3>3
    <3>4. CASE k > i
      <4>1. k - 1 \in 1 .. N /\ t[k] = s[k - 1] /\ k - 1 # i - 1
        BY <1>1, <1>2, <1>6, <3>4
      <4>2. k # N + 1 => t[k + 1] = s[k]
        BY <1>1, <1>2, <1>6, <3>4
      <4>3. i > 1 => s[k - 1] # s[i - 1]
        BY <4>1, <3>0, <1>3
      <4>4. g.next[s[k - 1]] = h.next[s[k - 1]]
        BY <4>1, <4>3, <1>1
      <4>5. QED
        BY <4>1, <4>2, <4>4, <1>4, <1>1
    <3>5. QED
      BY <1>1, <1>6, <3>1, <3>2, <3>3, <3>4
  <2>3. \A k \in 1 .. N + 1 : g.item[t[k]] \in Items
    BY <1>1, <1>2, <1>5, <1>6, <1>7
  <2>4. QED
    BY <1>2, <2>1, <2>2, <2>3 DEF IsChain
<1>11. QED
  BY <1>8, <1>9, <1>10

\* The cell at place i of a chain is taken out and deleted.
LEMMA RemoveChain ==
  ASSUME NEW h \in Heaps, NEW l, NEW s, IsChain(h, l, s),
         NEW i \in 1 .. Len(s),
         NEW g \in Heaps,
         g.used = h.used \ {s[i]},
         g.item = [h.item EXCEPT ![s[i]] = NoItem],
         i > 1 => g.next[s[i - 1]] = h.next[s[i]],
         \A d \in Cells : d # s[i] /\ (i > 1 => d # s[i - 1]) => g.next[d] = h.next[d]
  PROVE  /\ IsChain(g, ListRecord(RemovedAt(s, i)), RemovedAt(s, i))
         /\ ItemsOf(g, RemovedAt(s, i)) = RemovedAt(ItemsOf(h, s), i)
         /\ Frame(h, s, g, RemovedAt(s, i))
<1> DEFINE t == RemovedAt(s, i)
           N == Len(s)
           c == s[i]
<1>1. /\ N \in Nat /\ s \in Seq(h.used)
      /\ \A k \in 1 .. N : s[k] \in Cells /\ s[k] \in h.used
  <2>1. s \in Seq(h.used) /\ h.used \subseteq Cells
    BY DEF IsChain, Heaps
  <2>2. QED
    BY <2>1
<1>2. /\ t \in Seq(h.used) /\ Len(t) = N - 1
      /\ \A k \in 1 .. N - 1 : t[k] = IF k < i THEN s[k] ELSE s[k + 1]
  BY <1>1, RemovedSeq
<1>3. \A j, k \in 1 .. N : s[j] = s[k] => j = k
  BY DEF IsChain
<1>4. \A k \in 1 .. N : h.next[s[k]] = IF k = N THEN NULL ELSE s[k + 1]
  BY DEF IsChain
<1>5. \A k \in 1 .. N : h.item[s[k]] \in Items
  BY DEF IsChain
<1>6. i \in 1 .. N /\ c \in Cells
  BY <1>1
<1>7. \A d \in Cells : d # c => g.item[d] = h.item[d]
  BY DEF Heaps
\* Where an element of t was in s.
<1>8. ASSUME NEW k \in 1 .. N - 1
      PROVE  /\ k < i => k \in 1 .. N /\ t[k] = s[k]
             /\ ~(k < i) => k + 1 \in 1 .. N /\ t[k] = s[k + 1]
             /\ t[k] # c /\ t[k] \in Cells /\ t[k] \in h.used
  <2> HIDE DEF t
  <2>1. CASE k < i
    <3>1. k \in 1 .. N /\ t[k] = s[k] /\ k # i
      BY <1>1, <1>2, <1>6, <2>1
    <3>2. QED
      BY <1>1, <1>3, <1>6, <2>1, <3>1
  <2>2. CASE ~(k < i)
    <3>1. k + 1 \in 1 .. N /\ t[k] = s[k + 1] /\ k + 1 # i
      BY <1>1, <1>2, <1>6, <2>2
    <3>2. QED
      BY <1>1, <1>3, <1>6, <2>2, <3>1
  <2>3. QED
    BY <2>1, <2>2
<1>9. ItemsOf(g, t) = RemovedAt(ItemsOf(h, s), i)
  <2>1. Len(ItemsOf(h, s)) = N
    BY <1>1 DEF ItemsOf
  <2>2. ItemsOf(g, t) = [k \in 1 .. N - 1 |-> g.item[t[k]]]
    BY <1>2 DEF ItemsOf
  <2>3. RemovedAt(ItemsOf(h, s), i)
          = [k \in 1 .. N - 1 |-> IF k < i THEN ItemsOf(h, s)[k] ELSE ItemsOf(h, s)[k + 1]]
    BY <2>1 DEF RemovedAt
  <2>4. \A k \in 1 .. N : ItemsOf(h, s)[k] = h.item[s[k]]
    BY DEF ItemsOf
  <2> HIDE DEF t, N
  <2>5. ASSUME NEW k \in 1 .. N - 1
        PROVE  g.item[t[k]] = IF k < i THEN ItemsOf(h, s)[k] ELSE ItemsOf(h, s)[k + 1]
    BY <1>7, <1>8, <2>4
  <2>6. QED
    BY <2>2, <2>3, <2>5
<1>10. Frame(h, s, g, t)
  <2> HIDE DEF t
  <2>1. CellsOf(t) = CellsOf(s) \ {c}
    <3>1. \A k \in 1 .. N - 1 : t[k] \in CellsOf(s) \ {c}
      BY <1>8 DEF CellsOf
    <3>2. ASSUME NEW k \in 1 .. N, s[k] # c PROVE s[k] \in CellsOf(t)
      <4>1. CASE k < i
        BY <1>1, <1>2, <1>6, <4>1 DEF CellsOf
      <4>2. CASE k > i
        <5>1. k - 1 \in 1 .. N - 1 /\ t[k - 1] = s[k]
          BY <1>1, <1>2, <1>6, <4>2
        <5>2. QED
          BY <1>2, <5>1 DEF CellsOf
      <4>3. QED
        BY <1>6, <3>2, <4>1, <4>2
    <3>3. CellsOf(t) = {t[k] : k \in 1 .. N - 1} /\ CellsOf(s) = {s[k] : k \in 1 .. N}
      BY <1>2 DEF CellsOf
    <3>4. CellsOf(t) \subseteq CellsOf(s) \ {c}
      BY <3>1, <3>3
    <3>5. CellsOf(s) \ {c} \subseteq CellsOf(t)
      <4>1. SUFFICES ASSUME NEW d \in CellsOf(s), d # c PROVE d \in CellsOf(t)
        OBVIOUS
      <4>2. PICK k \in 1 .. N : d = s[k]
        BY <3>3
      <4>3. QED
        BY <3>2, <4>1, <4>2
    <3>6. QED
      BY <3>4, <3>5
  <2>2. h.used \ CellsOf(s) = g.used \ CellsOf(t)
    BY <1>1, <1>6, <2>1 DEF CellsOf
  <2>3. ASSUME NEW d \in h.used \ CellsOf(s)
        PROVE  g.next[d] = h.next[d] /\ g.item[d] = h.item[d]
    <3>1. d \in Cells /\ d # c
      BY <1>6 DEF Heaps, CellsOf
    <3>2. i > 1 => d # s[i - 1]
      BY <1>1, <1>6 DEF CellsOf
    <3>3. QED
      BY <1>7, <3>1, <3>2
  <2>4. QED
    BY <2>2, <2>3 DEF Frame
<1>11. IsChain(g, ListRecord(t), t)
  <2> HIDE DEF t, N
  <2>1. ASSUME NEW j \in 1 .. N - 1, NEW k \in 1 .. N - 1, t[j] = t[k]
        PROVE  j = k
    <3>1. CASE j < i
      <4>1. k < i => j = k
        BY <1>3, <1>8, <2>1, <3>1
      <4>2. ~(k < i) => j = k + 1
        BY <1>3, <1>8, <2>1, <3>1
      <4>3. QED
        BY <1>6, <3>1, <4>1, <4>2
    <3>2. CASE ~(j < i)
      <4>1. k < i => j + 1 = k
        BY <1>3, <1>8, <2>1, <3>2
      <4>2. ~(k < i) => j + 1 = k + 1
        BY <1>3, <1>8, <2>1, <3>2
      <4>3. QED
        BY <1>6, <3>2, <4>1, <4>2
    <3>3. QED
      BY <3>1, <3>2
  <2>2. ASSUME NEW k \in 1 .. N - 1
        PROVE  g.next[t[k]] = IF k = N - 1 THEN NULL ELSE t[k + 1]
    <3>0. i > 1 => g.next[s[i - 1]] = h.next[s[i]] /\ i - 1 \in 1 .. N
      BY <1>1, <1>6
    <3>1. CASE k < i - 1
      <4>1. /\ k \in 1 .. N /\ k # i - 1 /\ k # N /\ k # N - 1
            /\ t[k] = s[k] /\ t[k + 1] = s[k + 1]
        BY <1>1, <1>2, <1>6, <3>1
      <4>2. s[k] # s[i - 1] /\ s[k] # c
        BY <4>1, <3>0, <1>3, <1>8, <3>1, <1>6
      <4>3. g.next[s[k]] = h.next[s[k]]
        BY <4>1, <4>2, <1>1
      <4>4. QED
        BY <4>1, <4>3, <1>4
    <3>2. CASE k = i - 1
      <4>1. t[k] = s[i - 1] /\ i > 1 /\ (k = N - 1 <=> i = N) /\ (k # N - 1 => t[k + 1] = s[i + 1])
        BY <1>1, <1>2, <1>6, <3>2
      <4>2. QED
        BY <4>1, <3>0, <1>4, <1>6
    <3>3. CASE k > i - 1
      <4>1. /\ k + 1 \in 1 .. N /\ k + 1 # i - 1 /\ k + 1 # i /\ t[k] = s[k + 1]
            /\ k # N - 1 => t[k + 1] = s[(k + 1) + 1]
            /\ k = N - 1 <=> k + 1 = N
        BY <1>1, <1>2, <1>6, <3>3
      <4>2. (i > 1 => s[k + 1] # s[i - 1]) /\ s[k + 1] # c
        BY <4>1, <3>0, <1>3, <1>6
      <4>3. g.next[s[k + 1]] = h.next[s[k + 1]]
        BY <4>1, <4>2, <1>1
      <4>4. QED
        BY <4>1, <4>3, <1>4
    <3>4. QED
      BY <1>1, <1>6, <3>1, <3>2, <3>3
  <2>3. \A k \in 1 .. N - 1 : g.item[t[k]] \in Items
    BY <1>5, <1>7, <1>8
  <2>4. t \in Seq(g.used)
    <3>1. t \in [1 .. N - 1 -> g.used] /\ N - 1 \in Nat
      <4>1. t = [k \in 1 .. N - 1 |-> t[k]] /\ N - 1 \in Nat
        BY <1>1, <1>2, <1>6
      <4>2. QED
        BY <1>8, <4>1
    <3>2. QED
      BY <3>1, IsASeq
  <2>5. QED
    BY <1>2, <2>1, <2>2, <2>3, <2>4 DEF IsChain
<1>12. QED
  BY <1>9, <1>10, <1>11

-----------------------------------------------------------------------------
(* What the operations of a list do *)

\* Nothing but the list is changed between h, where it is l, and g, where it is m.
Elsewhere(h, l, g, m) == Frame(h, Chain(h, l), g, Chain(g, m))

\* The effect e on the list l is that item x is at place i; that of an item
\* taken out is that the one at place i is gone.
PutsAt(h, l, x, i, e) ==
  /\ e.ok
  /\ WellFormed(e.heap, e.list)
  /\ Listed(e.heap, e.list) = InsertedAt(Listed(h, l), i, x)
  /\ Elsewhere(h, l, e.heap, e.list)

TakesAt(h, l, i, e) ==
  /\ e.ok
  /\ WellFormed(e.heap, e.list)
  /\ Listed(e.heap, e.list) = RemovedAt(Listed(h, l), i)
  /\ Elsewhere(h, l, e.heap, e.list)

\* The facts about a list that the proofs use.
LEMMA ListFacts ==
  ASSUME NEW h, NEW l, WellFormed(h, l)
  PROVE  LET s == Chain(h, l)
         IN  /\ h \in Heaps /\ IsChain(h, l, s)
             /\ Len(s) \in Nat /\ s \in Seq(h.used) /\ s \in Seq(Cells)
             /\ \A i \in 1 .. Len(s) : s[i] \in Cells /\ s[i] \in h.used
             /\ Listed(h, l) = [i \in 1 .. Len(s) |-> h.item[s[i]]]
             /\ Listed(h, l) \in Seq(Items) /\ Len(Listed(h, l)) = Len(s)
             /\ l.numInList = Len(s)
             /\ Len(s) = 0 => l = EmptyList
             /\ Len(s) # 0 => l = [first |-> s[1], last |-> s[Len(s)], numInList |-> Len(s)]
<1>1. h \in Heaps
  BY DEF WellFormed
<1>2. PICK s : IsChain(h, l, s)
  BY DEF WellFormed
<1>3. Chain(h, l) = s /\ Listed(h, l) = ItemsOf(h, s)
  BY <1>1, <1>2, ChainIs
<1>4. /\ s \in Seq(h.used) /\ Len(s) \in Nat /\ s \in Seq(Cells)
      /\ \A i \in 1 .. Len(s) : s[i] \in Cells /\ s[i] \in h.used
  BY <1>1, <1>2, ChainFits DEF IsChain
<1>5. ItemsOf(h, s) \in Seq(Items) /\ Len(ItemsOf(h, s)) = Len(s)
  <2>1. \A i \in 1 .. Len(s) : h.item[s[i]] \in Items
    BY <1>2 DEF IsChain
  <2>2. ItemsOf(h, s) \in [1 .. Len(s) -> Items]
    BY <2>1 DEF ItemsOf
  <2>3. QED
    BY <1>4, <2>2, IsASeq, LenProperties
<1>6. /\ Len(s) = 0 => l = EmptyList
      /\ Len(s) # 0 => l = [first |-> s[1], last |-> s[Len(s)], numInList |-> Len(s)]
  BY <1>2, <1>4, RecordOf DEF IsChain
<1>7. l.numInList = Len(s)
  BY <1>4, <1>6 DEF EmptyList
<1>8. QED
  BY <1>1, <1>2, <1>3, <1>4, <1>5, <1>6, <1>7 DEF ItemsOf

\* A new list is as its operations need it, and empty.
LEMMA EmptyListIs ==
  ASSUME NEW h \in Heaps
  PROVE  WellFormed(h, EmptyList) /\ Listed(h, EmptyList) = <<>> /\ IsEmpty(EmptyList)
<1>1. IsChain(h, EmptyList, <<>>)
  BY DEF IsChain, ListRecord
<1>2. Listed(h, EmptyList) = ItemsOf(h, <<>>)
  BY <1>1, ChainIs
<1>3. ItemsOf(h, <<>>) = <<>>
  BY DEF ItemsOf
<1>4. QED
  BY <1>1, <1>2, <1>3 DEF WellFormed, IsEmpty, EmptyList

\* List::SanityCheck (lib/list.cc) holds of every list that its operations can
\* leave, of any length.
THEOREM SanityTheorem ==
  ASSUME NEW h, NEW l, WellFormed(h, l)
  PROVE  SanityList(h, l)
<1> DEFINE s == Chain(h, l)
<1>1. /\ IsChain(h, l, s) /\ Len(s) \in Nat /\ l.numInList = Len(s) /\ s \in Seq(Cells)
      /\ \A i \in 1 .. Len(s) : s[i] \in Cells
      /\ Len(s) = 0 => l = EmptyList
      /\ Len(s) # 0 => l = [first |-> s[1], last |-> s[Len(s)], numInList |-> Len(s)]
  BY ListFacts
<1>2. \A c \in Cells : c # NULL
  BY ListAssumption DEF Cells, NULL
<1>3. CASE Len(s) = 0
  BY <1>1, <1>3 DEF SanityList, EmptyList
<1>4. CASE Len(s) # 0
  <2>1. l.first = s[1] /\ l.last = s[Len(s)] /\ s # <<>>
    BY <1>1, <1>4
  <2>2. l.first # NULL /\ l.last # NULL
    BY <1>1, <1>2, <1>4, <2>1
  <2>3. h.next[s[Len(s)]] = NULL
    BY <1>1, <1>4 DEF IsChain
  <2>4. QED
    BY <1>1, <2>1, <2>2, <2>3 DEF SanityList
<1>5. QED
  BY <1>3, <1>4

\* A list that shares the heap with another one, as the buckets of a hash table
\* do, keeps its cells and items when an operation is applied to the other.
THEOREM SeparationTheorem ==
  ASSUME NEW h, NEW l, NEW g, NEW m, NEW k,
         WellFormed(h, l), WellFormed(g, m), WellFormed(h, k),
         Elsewhere(h, l, g, m),
         CellsOf(Chain(h, k)) \cap CellsOf(Chain(h, l)) = {}
  PROVE  /\ WellFormed(g, k)
         /\ Listed(g, k) = Listed(h, k)
         /\ CellsOf(Chain(g, k)) \cap CellsOf(Chain(g, m)) = {}
<1> DEFINE s == Chain(h, k)
<1>1. g \in Heaps /\ h \in Heaps /\ IsChain(h, k, s) /\ Len(s) \in Nat
  BY ListFacts DEF WellFormed
<1>2. \A i \in 1 .. Len(s) : s[i] \in h.used /\ s[i] \notin CellsOf(Chain(h, l))
  BY ListFacts DEF CellsOf
<1>3. \A i \in 1 .. Len(s) : /\ s[i] \in g.used /\ s[i] \notin CellsOf(Chain(g, m))
                             /\ g.next[s[i]] = h.next[s[i]] /\ g.item[s[i]] = h.item[s[i]]
  <2> HIDE DEF s
  <2>1. QED
    BY <1>2 DEF Elsewhere, Frame
<1>4. IsChain(g, k, s)
  <2>1. s \in Seq(g.used)
    <3>1. s = [i \in 1 .. Len(s) |-> s[i]]
      BY <1>1 DEF IsChain
    <3> HIDE DEF s
    <3>2. s \in [1 .. Len(s) -> g.used]
      BY <1>3, <3>1
    <3>3. QED
      BY <1>1, <3>2, IsASeq
  <2> HIDE DEF s
  <2>2. QED
    BY <1>1, <1>3, <2>1 DEF IsChain
<1>5. Chain(g, k) = s /\ Listed(g, k) = ItemsOf(g, s) /\ Listed(h, k) = ItemsOf(h, s)
  BY <1>1, <1>4, ChainIs
<1> HIDE DEF s
<1>6. ItemsOf(g, s) = ItemsOf(h, s)
  BY <1>3 DEF ItemsOf
<1>7. CellsOf(s) \cap CellsOf(Chain(g, m)) = {}
  BY <1>3 DEF CellsOf
<1>8. QED
  BY <1>1, <1>4, <1>5, <1>6, <1>7 DEF WellFormed

LEMMA FreshIs ==
  ASSUME NEW h \in Heaps, h.used # Cells
  PROVE  Fresh(h) \in Cells /\ Fresh(h) \notin h.used
<1> DEFINE S == Cells \ h.used
<1>1. S # {} /\ S \subseteq Nat
  <2>1. h.used \subseteq Cells
    BY DEF Heaps
  <2>2. Cells \subseteq Nat
    BY ListAssumption DEF Cells
  <2>3. QED
    BY <2>1, <2>2
<1>2. \E c \in S : \A d \in S : c <= d
  BY <1>1, LeastCell
<1>3. Fresh(h) \in S
  <2> HIDE DEF S
  <2>1. (CHOOSE c \in S : \A d \in S : c <= d) \in S
    BY <1>2
  <2>2. QED
    BY <2>1 DEF Fresh, S
<1>4. QED
  BY <1>3

LEMMA PutEffect ==
  ASSUME NEW h, NEW l, WellFormed(h, l), NEW x \in Items, ~IsInList(h, l, x),
         h.used # Cells,
         NEW i \in 1 .. Len(Chain(h, l)) + 1,
         NEW g \in Heaps,
         g.used = h.used \cup {Fresh(h)},
         g.item = [h.item EXCEPT ![Fresh(h)] = x],
         g.next[Fresh(h)] = IF i = Len(Chain(h, l)) + 1 THEN NULL ELSE Chain(h, l)[i],
         i > 1 => g.next[Chain(h, l)[i - 1]] = Fresh(h),
         \A d \in Cells : d # Fresh(h) /\ (i > 1 => d # Chain(h, l)[i - 1])
                            => g.next[d] = h.next[d],
         NEW m, m = ListRecord(InsertedAt(Chain(h, l), i, Fresh(h)))
  PROVE  PutsAt(h, l, x, i, Effect(g, m, ~IsInList(h, l, x)))
<1> DEFINE s == Chain(h, l)
           c == Fresh(h)
           t == InsertedAt(s, i, c)
           e == Effect(g, m, ~IsInList(h, l, x))
<1>1. h \in Heaps /\ IsChain(h, l, s) /\ Listed(h, l) = ItemsOf(h, s)
  BY ListFacts DEF ItemsOf
<1>2. c \in Cells /\ c \notin h.used
  BY <1>1, FreshIs
<1>3. /\ IsChain(g, m, t)
      /\ ItemsOf(g, t) = InsertedAt(ItemsOf(h, s), i, x)
      /\ Frame(h, s, g, t)
  <2> HIDE DEF s, c
  <2>1. /\ g.used = h.used \cup {c}
        /\ g.item = [h.item EXCEPT ![c] = x]
        /\ g.next[c] = IF i = Len(s) + 1 THEN NULL ELSE s[i]
        /\ i > 1 => g.next[s[i - 1]] = c
        /\ \A d \in Cells : d # c /\ (i > 1 => d # s[i - 1]) => g.next[d] = h.next[d]
        /\ i \in 1 .. Len(s) + 1
    BY DEF s, c
  <2>2. /\ IsChain(g, ListRecord(t), t)
        /\ ItemsOf(g, t) = InsertedAt(ItemsOf(h, s), i, x)
        /\ Frame(h, s, g, t)
    BY <1>1, <1>2, <2>1, InsertChain
  <2>3. m = ListRecord(t)
    BY DEF s, c
  <2>4. QED
    BY <2>2, <2>3
<1> HIDE DEF t
<1>4. Chain(g, m) = t /\ Listed(g, m) = ItemsOf(g, t)
  BY <1>3, ChainIs
<1>5. e.heap = g /\ e.list = m /\ e.ok = ~IsInList(h, l, x)
  BY DEF Effect
<1> HIDE DEF e, s
<1>6. WellFormed(g, m)
  BY <1>3 DEF WellFormed
<1>7. Elsewhere(h, l, g, m)
  BY <1>3, <1>4 DEF Elsewhere, s
<1>8. PutsAt(h, l, x, i, e)
  BY <1>1, <1>3, <1>4, <1>5, <1>6, <1>7 DEF PutsAt
<1>9. QED
  BY <1>8 DEF e

LEMMA NewCellIs ==
  ASSUME NEW h \in Heaps, NEW x \in Items, h.used # Cells
  PROVE  /\ NewCell(h, x) \in Heaps
         /\ NewCell(h, x).used = h.used \cup {Fresh(h)}
         /\ NewCell(h, x).item = [h.item EXCEPT ![Fresh(h)] = x]
         /\ NewCell(h, x).next = [h.next EXCEPT ![Fresh(h)] = NULL]
<1>1. Fresh(h) \in Cells
  BY FreshIs
<1>2. QED
  BY <1>1 DEF NewCell, Heaps

LEMMA LinkIs ==
  ASSUME NEW h \in Heaps, NEW c \in Cells, NEW d \in Cells \cup {NULL}
  PROVE  /\ Link(h, c, d) \in Heaps
         /\ Link(h, c, d).used = h.used
         /\ Link(h, c, d).item = h.item
         /\ Link(h, c, d).next = [h.next EXCEPT ![c] = d]
BY DEF Link, Heaps

LEMMA DeleteIs ==
  ASSUME NEW h \in Heaps, NEW c \in Cells
  PROVE  /\ Delete(h, c) \in Heaps
         /\ Delete(h, c).used = h.used \ {c}
         /\ Delete(h, c).item = [h.item EXCEPT ![c] = NoItem]
         /\ Delete(h, c).next = [h.next EXCEPT ![c] = c]
BY DEF Delete, Heaps

LEMMA NextsOf ==
  ASSUME NEW h \in Heaps
  PROVE  /\ DOMAIN h.next = Cells
         /\ \A c \in Cells : h.next[c] \in Cells \cup {NULL}
BY DEF Heaps

\* List::Append (lib/list.cc) of an item that is not on the list: it is behind
\* all others, the list is sane, no other cell of the heap is touched and none
\* is lost, for lists and heaps of any size.
THEOREM AppendTheorem ==
  ASSUME NEW h, NEW l, WellFormed(h, l), NEW x \in Items, ~IsInList(h, l, x),
         h.used # Cells
  PROVE  PutsAt(h, l, x, Len(Listed(h, l)) + 1, Append_(h, l, x))
<1> DEFINE s == Chain(h, l)
           N == Len(s)
           c == Fresh(h)
           t == InsertedAt(s, N + 1, c)
           n == NewCell(h, x)
           ok == ~IsInList(h, l, x)
<1>1. /\ h \in Heaps /\ N \in Nat /\ Len(Listed(h, l)) = N /\ l.numInList = N
      /\ s \in Seq(Cells) /\ \A i \in 1 .. N : s[i] \in Cells /\ s[i] \in h.used
      /\ N = 0 => l = EmptyList
      /\ N # 0 => l = [first |-> s[1], last |-> s[N], numInList |-> N]
  BY ListFacts
<1>2. c \in Cells /\ c \notin h.used
  BY <1>1, FreshIs
<1>3. /\ n \in Heaps /\ n.used = h.used \cup {c} /\ n.item = [h.item EXCEPT ![c] = x]
      /\ n.next = [h.next EXCEPT ![c] = NULL]
  BY <1>1, NewCellIs
<1>4. DOMAIN h.next = Cells /\ DOMAIN n.next = Cells
  BY <1>1, <1>3, NextsOf
<1>5. /\ t \in Seq(Cells) /\ Len(t) = N + 1
      /\ \A k \in 1 .. N + 1 : t[k] = IF k < N + 1 THEN s[k] ELSE IF k = N + 1 THEN c ELSE s[k - 1]
  <2>1. N + 1 \in 1 .. N + 1
    BY <1>1
  <2> HIDE DEF s, c
  <2>2. s \in Seq(Cells) /\ c \in Cells /\ N + 1 \in 1 .. Len(s) + 1
    BY <1>1, <1>2, <2>1
  <2>3. InsertedIs(Cells, s, N + 1, c)
    BY <2>2, InsertedSeq
  <2>4. QED
    BY <2>3 DEF InsertedIs
<1>6. ListRecord(t) = [first |-> t[1], last |-> t[N + 1], numInList |-> N + 1]
  <2> HIDE DEF t, N
  <2>1. QED
    BY <1>1, <1>5, RecordOf
<1>7. CASE N = 0
  <2>1. Append_(h, l, x) = Effect(n, [first |-> c, last |-> c, numInList |-> 1], ok)
    BY <1>1, <1>7 DEF Append_, IsEmpty
  <2>2. [first |-> c, last |-> c, numInList |-> 1] = ListRecord(t)
    <3> HIDE DEF t, N
    <3>1. t[1] = c /\ t[N + 1] = c /\ N + 1 = 1
      BY <1>1, <1>5, <1>7
    <3>2. QED
      BY <1>6, <3>1
  <2>3. /\ n.next[c] = NULL
        /\ \A d \in Cells : d # c => n.next[d] = h.next[d]
    BY <1>2, <1>3, <1>4
  <2>4. N + 1 \in 1 .. N + 1 /\ ~(N + 1 > 1)
    BY <1>1, <1>7
  <2> HIDE DEF t, N, n, c, ok, s
  <2>5. PutsAt(h, l, x, N + 1, Effect(n, ListRecord(t), ok))
    BY <1>1, <1>3, <2>3, <2>4, PutEffect DEF t, N, c, ok, s
  <2>6. QED
    BY <1>1, <2>1, <2>2, <2>5
<1>8. CASE N # 0
  <2> DEFINE g == Link(n, l.last, c)
             m == [first |-> l.first, last |-> c, numInList |-> l.numInList + 1]
  <2>1. Append_(h, l, x) = Effect(g, m, ok)
    BY <1>1, <1>8 DEF Append_, IsEmpty
  <2>2. m = ListRecord(t)
    <3> HIDE DEF t, N
    <3>1. t[1] = s[1] /\ t[N + 1] = c /\ l.first = s[1]
      BY <1>1, <1>5, <1>8
    <3>2. QED
      BY <1>1, <1>6, <3>1
  <2>3. l.last = s[N] /\ l.last \in Cells /\ l.last # c
    BY <1>1, <1>2, <1>8
  <2>4. /\ g \in Heaps /\ g.used = n.used /\ g.item = n.item
        /\ g.next = [n.next EXCEPT ![l.last] = c]
    BY <1>2, <1>3, <2>3, LinkIs
  <2> HIDE DEF g, m, n
  <2>5. /\ g.next[c] = NULL
        /\ g.next[s[N]] = c
        /\ \A d \in Cells : d # c /\ d # s[N] => g.next[d] = h.next[d]
    BY <1>2, <1>3, <1>4, <2>3, <2>4
  <2>6. N + 1 \in 1 .. N + 1 /\ N + 1 > 1 /\ (N + 1) - 1 = N
    BY <1>1, <1>8
  <2>7. g.used = h.used \cup {c} /\ g.item = [h.item EXCEPT ![c] = x]
    BY <1>3, <2>4
  <2> HIDE DEF t, N, c, ok, s
  <2>8. PutsAt(h, l, x, N + 1, Effect(g, m, ok))
    BY <1>1, <2>2, <2>4, <2>5, <2>6, <2>7, PutEffect DEF t, N, c, ok, s
  <2>9. QED
    BY <1>1, <2>1, <2>8
<1>9. QED
  BY <1>7, <1>8

\* List::Prepend (lib/list.cc): the same, before all others.
THEOREM PrependTheorem ==
  ASSUME NEW h, NEW l, WellFormed(h, l), NEW x \in Items, ~IsInList(h, l, x),
         h.used # Cells
  PROVE  PutsAt(h, l, x, 1, Prepend(h, l, x))
<1> DEFINE s == Chain(h, l)
           N == Len(s)
           c == Fresh(h)
           t == InsertedAt(s, 1, c)
           n == NewCell(h, x)
           ok == ~IsInList(h, l, x)
<1>1. /\ h \in Heaps /\ N \in Nat /\ l.numInList = N
      /\ s \in Seq(Cells) /\ \A i \in 1 .. N : s[i] \in Cells /\ s[i] \in h.used
      /\ N = 0 => l = EmptyList
      /\ N # 0 => l = [first |-> s[1], last |-> s[N], numInList |-> N]
  BY ListFacts
<1>2. c \in Cells /\ c \notin h.used
  BY <1>1, FreshIs
<1>3. /\ n \in Heaps /\ n.used = h.used \cup {c} /\ n.item = [h.item EXCEPT ![c] = x]
      /\ n.next = [h.next EXCEPT ![c] = NULL]
  BY <1>1, NewCellIs
<1>4. DOMAIN h.next = Cells /\ DOMAIN n.next = Cells
  BY <1>1, <1>3, NextsOf
<1>5. /\ t \in Seq(Cells) /\ Len(t) = N + 1
      /\ \A k \in 1 .. N + 1 : t[k] = IF k < 1 THEN s[k] ELSE IF k = 1 THEN c ELSE s[k - 1]
  <2>1. s \in Seq(Cells) /\ c \in Cells /\ 1 \in 1 .. Len(s) + 1
    BY <1>1, <1>2
  <2> HIDE DEF s, c
  <2>2. InsertedIs(Cells, s, 1, c)
    BY <2>1, InsertedSeq
  <2>3. QED
    BY <2>2 DEF InsertedIs
<1>6. ListRecord(t) = [first |-> t[1], last |-> t[N + 1], numInList |-> N + 1]
  <2> HIDE DEF t, N
  <2>1. QED
    BY <1>1, <1>5, RecordOf
<1>7. 1 \in 1 .. N + 1 /\ ~(1 > 1)
  BY <1>1
<1>8. CASE N = 0
  <2>1. Prepend(h, l, x) = Effect(n, [first |-> c, last |-> c, numInList |-> 1], ok)
    BY <1>1, <1>8 DEF Prepend, IsEmpty
  <2>2. [first |-> c, last |-> c, numInList |-> 1] = ListRecord(t)
    <3> HIDE DEF t, N
    <3>1. t[1] = c /\ t[N + 1] = c /\ N + 1 = 1
      BY <1>1, <1>5, <1>8
    <3>2. QED
      BY <1>6, <3>1
  <2>3. /\ n.next[c] = NULL
        /\ \A d \in Cells : d # c => n.next[d] = h.next[d]
    BY <1>2, <1>3, <1>4
  <2>4. 1 = N + 1
    BY <1>1, <1>8
  <2> HIDE DEF t, N, n, c, ok, s
  <2>5. PutsAt(h, l, x, 1, Effect(n, ListRecord(t), ok))
    BY <1>1, <1>3, <1>7, <2>3, <2>4, PutEffect DEF t, N, c, ok, s
  <2>6. QED
    BY <1>1, <2>1, <2>2, <2>5
<1>9. CASE N # 0
  <2> DEFINE g == Link(n, c, l.first)
             m == [first |-> c, last |-> l.last, numInList |-> l.numInList + 1]
  <2>1. Prepend(h, l, x) = Effect(g, m, ok)
    BY <1>1, <1>9 DEF Prepend, IsEmpty
  <2>2. m = ListRecord(t)
    <3> HIDE DEF t, N
    <3>1. t[1] = c /\ t[N + 1] = s[N] /\ l.last = s[N]
      BY <1>1, <1>5, <1>9
    <3>2. QED
      BY <1>1, <1>6, <3>1
  <2>3. l.first = s[1] /\ l.first \in Cells
    BY <1>1, <1>9
  <2>4. /\ g \in Heaps /\ g.used = n.used /\ g.item = n.item
        /\ g.next = [n.next EXCEPT ![c] = l.first]
    BY <1>2, <1>3, <2>3, LinkIs
  <2> HIDE DEF g, m, n
  <2>5. /\ g.next[c] = s[1]
        /\ \A d \in Cells : d # c => g.next[d] = h.next[d]
    BY <1>2, <1>3, <1>4, <2>3, <2>4
  <2>6. 1 # N + 1
    BY <1>1, <1>9
  <2>7. g.used = h.used \cup {c} /\ g.item = [h.item EXCEPT ![c] = x]
    BY <1>3, <2>4
  <2> HIDE DEF t, N, c, ok, s
  <2>8. PutsAt(h, l, x, 1, Effect(g, m, ok))
    BY <1>1, <1>7, <2>2, <2>4, <2>5, <2>6, <2>7, PutEffect DEF t, N, c, ok, s
  <2>9. QED
    BY <1>1, <2>1, <2>8
<1>10. QED
  BY <1>8, <1>9

LEMMA TakeEffect ==
  ASSUME NEW h, NEW l, WellFormed(h, l),
         NEW i \in 1 .. Len(Chain(h, l)),
         NEW g \in Heaps,
         g.used = h.used \ {Chain(h, l)[i]},
         g.item = [h.item EXCEPT ![Chain(h, l)[i]] = NoItem],
         i > 1 => g.next[Chain(h, l)[i - 1]] = h.next[Chain(h, l)[i]],
         \A d \in Cells : d # Chain(h, l)[i] /\ (i > 1 => d # Chain(h, l)[i - 1])
                            => g.next[d] = h.next[d],
         NEW m, m = ListRecord(RemovedAt(Chain(h, l), i)),
         NEW ok, ok
  PROVE  TakesAt(h, l, i, Effect(g, m, ok))
<1> DEFINE s == Chain(h, l)
           t == RemovedAt(s, i)
           e == Effect(g, m, ok)
<1>1. h \in Heaps /\ IsChain(h, l, s) /\ Listed(h, l) = ItemsOf(h, s)
  BY ListFacts DEF ItemsOf
<1>2. /\ IsChain(g, m, t)
      /\ ItemsOf(g, t) = RemovedAt(ItemsOf(h, s), i)
      /\ Frame(h, s, g, t)
  <2> HIDE DEF s
  <2>1. /\ g.used = h.used \ {s[i]}
        /\ g.item = [h.item EXCEPT ![s[i]] = NoItem]
        /\ i > 1 => g.next[s[i - 1]] = h.next[s[i]]
        /\ \A d \in Cells : d # s[i] /\ (i > 1 => d # s[i - 1]) => g.next[d] = h.next[d]
        /\ i \in 1 .. Len(s)
    BY DEF s
  <2>2. /\ IsChain(g, ListRecord(t), t)
        /\ ItemsOf(g, t) = RemovedAt(ItemsOf(h, s), i)
        /\ Frame(h, s, g, t)
    BY <1>1, <2>1, RemoveChain
  <2>3. m = ListRecord(t)
    BY DEF s
  <2>4. QED
    BY <2>2, <2>3
<1> HIDE DEF t
<1>3. Chain(g, m) = t /\ Listed(g, m) = ItemsOf(g, t)
  BY <1>2, ChainIs
<1>4. e.heap = g /\ e.list = m /\ e.ok
  BY DEF Effect
<1> HIDE DEF e, s
<1>5. WellFormed(g, m)
  BY <1>2 DEF WellFormed
<1>6. Elsewhere(h, l, g, m)
  BY <1>2, <1>3 DEF Elsewhere, s
<1>7. TakesAt(h, l, i, e)
  BY <1>1, <1>2, <1>3, <1>4, <1>5, <1>6 DEF TakesAt
<1>8. QED
  BY <1>7 DEF e

\* List::RemoveFront (lib/list.cc) of a list with items takes out the first one,
\* which is the one that it returns.
THEOREM RemoveFrontTheorem ==
  ASSUME NEW h, NEW l, WellFormed(h, l), ~IsEmpty(l)
  PROVE  /\ TakesAt(h, l, 1, RemoveFront(h, l))
         /\ h.item[l.first] = Listed(h, l)[1]
<1> DEFINE s == Chain(h, l)
           N == Len(s)
           t == RemovedAt(s, 1)
           g == Delete(h, l.first)
           m == IF l.first = l.last
                THEN [first |-> NULL, last |-> NULL, numInList |-> l.numInList - 1]
                ELSE [first |-> h.next[l.first], last |-> l.last, numInList |-> l.numInList - 1]
<1>1. /\ h \in Heaps /\ N \in Nat /\ l.numInList = N /\ IsChain(h, l, s)
      /\ s \in Seq(Cells) /\ \A i \in 1 .. N : s[i] \in Cells /\ s[i] \in h.used
      /\ N # 0 => l = [first |-> s[1], last |-> s[N], numInList |-> N]
      /\ Listed(h, l) = [i \in 1 .. Len(s) |-> h.item[s[i]]]
  BY ListFacts
<1>2. N # 0 /\ 1 \in 1 .. N /\ l.first = s[1] /\ l.last = s[N] /\ s[1] \in Cells
  BY <1>1 DEF IsEmpty
<1>3. /\ t \in Seq(Cells) /\ Len(t) = N - 1
      /\ \A k \in 1 .. N - 1 : t[k] = IF k < 1 THEN s[k] ELSE s[k + 1]
  <2> HIDE DEF s
  <2>1. QED
    BY <1>1, <1>2, RemovedSeq
<1>4. /\ N - 1 = 0 => ListRecord(t) = EmptyList
      /\ N - 1 # 0 => ListRecord(t) = [first |-> t[1], last |-> t[N - 1], numInList |-> N - 1]
  <2> HIDE DEF t, N
  <2>1. QED
    BY <1>1, <1>3, RecordOf
<1>5. m = ListRecord(t)
  <2>1. l.first = l.last <=> N = 1
    BY <1>1, <1>2 DEF IsChain
  <2>2. CASE N = 1
    BY <1>1, <1>4, <2>1, <2>2 DEF EmptyList
  <2>3. CASE N # 1
    <3>1. h.next[s[1]] = s[2] /\ 1 \in 1 .. N - 1 /\ N - 1 \in 1 .. N - 1
      BY <1>1, <1>2, <2>3 DEF IsChain
    <3> HIDE DEF t, N
    <3>2. t[1] = s[2] /\ t[N - 1] = s[N] /\ N - 1 # 0
      BY <1>1, <1>2, <1>3, <3>1
    <3>3. m = [first |-> h.next[l.first], last |-> l.last, numInList |-> l.numInList - 1]
      BY <2>1, <2>3
    <3>4. QED
      BY <1>1, <1>2, <1>4, <3>1, <3>2, <3>3
  <2>4. QED
    BY <2>2, <2>3
<1>6. /\ g \in Heaps /\ g.used = h.used \ {s[1]} /\ g.item = [h.item EXCEPT ![s[1]] = NoItem]
      /\ g.next = [h.next EXCEPT ![s[1]] = s[1]]
  <2> HIDE DEF s, N
  <2>1. g = Delete(h, s[1])
    BY <1>2
  <2>2. h \in Heaps /\ s[1] \in Cells
    BY <1>1, <1>2
  <2> HIDE DEF g
  <2>3. QED
    BY <2>1, <2>2, DeleteIs
<1>7. \A d \in Cells : d # s[1] => g.next[d] = h.next[d]
  <2> HIDE DEF g
  <2>1. QED
    BY <1>1, <1>6, NextsOf
<1>8. ~(1 > 1)
  OBVIOUS
<1>9. RemoveFront(h, l) = Effect(g, m, ~IsEmpty(l))
  BY DEF RemoveFront
<1> HIDE DEF g, m, N, t, s
<1>10. TakesAt(h, l, 1, Effect(g, m, ~IsEmpty(l)))
  BY <1>2, <1>5, <1>6, <1>7, <1>8, TakeEffect DEF N, t, s
<1>11. h.item[l.first] = Listed(h, l)[1]
  BY <1>1, <1>2 DEF N
<1>12. QED
  BY <1>9, <1>10, <1>11

\* List::Remove (lib/list.cc) of an item that is on the list takes out this item,
\* at the front, between two cells or at the end.
THEOREM RemoveTheorem ==
  ASSUME NEW h, NEW l, WellFormed(h, l), NEW x, IsInList(h, l, x)
  PROVE  \E i \in 1 .. Len(Listed(h, l)) :
           Listed(h, l)[i] = x /\ TakesAt(h, l, i, Remove_(h, l, x))
<1> DEFINE s == Chain(h, l)
           N == Len(s)
<1>1. /\ h \in Heaps /\ N \in Nat /\ l.numInList = N /\ IsChain(h, l, s)
      /\ s \in Seq(Cells) /\ \A k \in 1 .. N : s[k] \in Cells /\ s[k] \in h.used
      /\ N # 0 => l = [first |-> s[1], last |-> s[N], numInList |-> N]
      /\ Listed(h, l) = [k \in 1 .. N |-> h.item[s[k]]] /\ Len(Listed(h, l)) = N
  BY ListFacts
<1>2. \E k \in 1 .. N : h.item[s[k]] = x
  BY <1>1 DEF IsInList
<1>3. N # 0 /\ l.first = s[1] /\ l.last = s[N] /\ ~IsEmpty(l)
  BY <1>1, <1>2 DEF IsEmpty
<1>4. CASE h.item[l.first] = x
  <2>1. TakesAt(h, l, 1, Remove_(h, l, x)) /\ h.item[l.first] = Listed(h, l)[1]
    BY <1>3, <1>4, RemoveFrontTheorem DEF Remove_
  <2>2. 1 \in 1 .. Len(Listed(h, l))
    BY <1>1, <1>3
  <2>3. QED
    BY <1>4, <2>1, <2>2
<1>5. CASE h.item[l.first] # x
  <2> DEFINE i == CHOOSE j \in 2 .. Len(s) : h.item[s[j]] = x
  <2>1. i \in 2 .. N /\ h.item[s[i]] = x
    <3>1. \E j \in 2 .. N : h.item[s[j]] = x
      BY <1>1, <1>2, <1>3, <1>5
    <3>2. QED
      BY <3>1
  <2>2. Remove_(h, l, x) = Unlink(h, l, s[i - 1], s[i])
    BY <1>5 DEF Remove_
  <2> HIDE DEF i
  <2> DEFINE t == RemovedAt(s, i)
             k == Link(h, s[i - 1], h.next[s[i]])
             g == Delete(k, s[i])
             m == [first |-> l.first, last |-> IF h.next[s[i]] = NULL THEN s[i - 1] ELSE l.last,
                   numInList |-> l.numInList - 1]
  <2>3. Remove_(h, l, x) = Effect(g, m, TRUE)
    BY <2>2 DEF Unlink
  <2>4. i \in 1 .. N /\ i - 1 \in 1 .. N /\ i > 1 /\ N > 1
    BY <1>1, <2>1
  <2>5. /\ s[i] \in Cells /\ s[i - 1] \in Cells /\ s[i] # s[i - 1]
        /\ h.next[s[i]] = IF i = N THEN NULL ELSE s[i + 1]
    <3>1. \A a, b \in 1 .. N : s[a] = s[b] => a = b
      BY <1>1 DEF IsChain
    <3>2. \A a \in 1 .. N : h.next[s[a]] = IF a = N THEN NULL ELSE s[a + 1]
      BY <1>1 DEF IsChain
    <3> HIDE DEF s, N
    <3>3. i # i - 1
      BY <2>1
    <3>4. QED
      BY <1>1, <2>4, <3>1, <3>2, <3>3
  <2>6. h.next[s[i]] \in Cells \cup {NULL} /\ DOMAIN h.next = Cells
    BY <1>1, <2>5, NextsOf
  <2>7. h.next[s[i]] = NULL <=> i = N
    <3>1. \A c \in Cells : c # NULL
      BY ListAssumption DEF Cells, NULL
    <3>2. i # N => s[i + 1] \in Cells
      BY <1>1, <2>4
    <3>3. QED
      BY <2>5, <3>1, <3>2
  <2> HIDE DEF s, N
  <2>8. /\ k \in Heaps /\ k.used = h.used /\ k.item = h.item
        /\ k.next = [h.next EXCEPT ![s[i - 1]] = h.next[s[i]]]
    <3> DEFINE p == s[i - 1]
               q == h.next[s[i]]
    <3>1. h \in Heaps /\ p \in Cells /\ q \in Cells \cup {NULL}
      BY <1>1, <2>5, <2>6
    <3> HIDE DEF p, q
    <3>2. /\ Link(h, p, q) \in Heaps /\ Link(h, p, q).used = h.used
          /\ Link(h, p, q).item = h.item /\ Link(h, p, q).next = [h.next EXCEPT ![p] = q]
      BY <3>1, LinkIs
    <3>3. QED
      BY <3>2 DEF p, q
  <2> HIDE DEF k
  <2>9. /\ g \in Heaps /\ g.used = k.used \ {s[i]} /\ g.item = [k.item EXCEPT ![s[i]] = NoItem]
        /\ g.next = [k.next EXCEPT ![s[i]] = s[i]]
    BY <2>5, <2>8, DeleteIs
  <2> HIDE DEF g
  <2>10. /\ g.next[s[i - 1]] = h.next[s[i]]
         /\ \A d \in Cells : d # s[i] /\ d # s[i - 1] => g.next[d] = h.next[d]
    BY <2>5, <2>6, <2>8, <2>9
  <2>11. g.used = h.used \ {s[i]} /\ g.item = [h.item EXCEPT ![s[i]] = NoItem]
    BY <2>8, <2>9
  <2>12. m = ListRecord(t)
    <3>1. /\ t \in Seq(Cells) /\ Len(t) = N - 1
          /\ \A j \in 1 .. N - 1 : t[j] = IF j < i THEN s[j] ELSE s[j + 1]
      BY <1>1, <2>4, RemovedSeq DEF N
    <3> HIDE DEF t
    <3>2. ListRecord(t) = [first |-> t[1], last |-> t[N - 1], numInList |-> N - 1]
      BY <1>1, <2>4, <3>1, RecordOf
    <3>3. t[1] = s[1]
      BY <1>1, <2>1, <2>4, <3>1
    <3>4. t[N - 1] = IF i = N THEN s[i - 1] ELSE s[N]
      BY <1>1, <2>1, <2>4, <3>1
    <3>5. QED
      BY <1>1, <1>3, <2>7, <3>2, <3>3, <3>4
  <2> HIDE DEF m, t
  <2>13. TakesAt(h, l, i, Effect(g, m, TRUE))
    BY <2>4, <2>9, <2>10, <2>11, <2>12, TakeEffect DEF s, N, t
  <2>14. i \in 1 .. Len(Listed(h, l)) /\ Listed(h, l)[i] = x
    BY <1>1, <2>1, <2>4
  <2>15. QED
    BY <2>3, <2>13, <2>14
<1>6. QED
  BY <1>4, <1>5

\* What is taken out of a sorted list leaves it sorted.
THEOREM SortedTakeTheorem ==
  ASSUME NEW h, NEW l, WellFormed(h, l), SanitySorted(h, l),
         NEW i \in 1 .. Len(Listed(h, l)), NEW e, TakesAt(h, l, i, e)
  PROVE  SanitySorted(e.heap, e.list)
<1> DEFINE s == Listed(h, l)
           t == Listed(e.heap, e.list)
           N == Len(s)
<1>1. s \in Seq(Items) /\ N \in Nat
  BY ListFacts
<1>2. t = RemovedAt(s, i)
  BY DEF TakesAt
<1>3. Len(t) = N - 1 /\ \A k \in 1 .. N - 1 : t[k] = IF k < i THEN s[k] ELSE s[k + 1]
  <2>1. i \in 1 .. Len(s)
    OBVIOUS
  <2> HIDE DEF s, t
  <2>2. QED
    BY <1>1, <1>2, <2>1, RemovedSeq
<1>4. \A k \in 2 .. N : Key(s[k]) \in Nat /\ Key(s[k - 1]) \in Nat /\ Key(s[k - 1]) <= Key(s[k])
  <2>1. \A k \in 1 .. N : s[k] \in Items
    <3> HIDE DEF s
    <3>1. QED
      BY <1>1
  <2>2. \A k \in 1 .. N : Key(s[k]) \in Nat
    BY <2>1, ListAssumption
  <2>3. \A k \in 2 .. N : ~(Key(s[k]) < Key(s[k - 1]))
    BY DEF SanitySorted, Goes
  <2>4. \A k \in 2 .. N : k \in 1 .. N /\ k - 1 \in 1 .. N
    BY <1>1
  <2> HIDE DEF s, N
  <2>5. QED
    BY <2>2, <2>3, <2>4
<1>5. ASSUME NEW k \in 2 .. N - 1
      PROVE  ~(Key(t[k]) < Key(t[k - 1]))
  <2> HIDE DEF s, t, N
  <2>0. i \in 1 .. N /\ k - 1 \in 1 .. N - 1 /\ k \in 1 .. N - 1 /\ k \in 2 .. N /\ k + 1 \in 2 .. N
    BY <1>1 DEF N, s
  <2>1. CASE k < i
    <3>1. t[k] = s[k] /\ t[k - 1] = s[k - 1]
      BY <1>3, <2>0, <2>1
    <3>2. QED
      BY <1>4, <2>0, <3>1
  <2>2. CASE k = i
    <3>1. t[k] = s[k + 1] /\ t[k - 1] = s[k - 1]
      BY <1>3, <2>0, <2>2
    <3>2. /\ Key(s[k + 1]) \in Nat /\ Key(s[(k + 1) - 1]) \in Nat
          /\ Key(s[(k + 1) - 1]) <= Key(s[k + 1]) /\ (k + 1) - 1 = k
      BY <1>4, <2>0
    <3>3. Key(s[k - 1]) \in Nat /\ Key(s[k - 1]) <= Key(s[k])
      BY <1>4, <2>0
    <3>4. QED
      BY <3>1, <3>2, <3>3
  <2>3. CASE k > i
    <3>1. t[k] = s[k + 1] /\ t[k - 1] = s[(k - 1) + 1]
      BY <1>3, <2>0, <2>3
    <3>2. /\ Key(s[k + 1]) \in Nat /\ Key(s[(k + 1) - 1]) \in Nat
          /\ Key(s[(k + 1) - 1]) <= Key(s[k + 1]) /\ (k + 1) - 1 = k /\ (k - 1) + 1 = k
      BY <1>4, <2>0
    <3>3. QED
      BY <3>1, <3>2
  <2>4. QED
    BY <2>0, <2>1, <2>2, <2>3
<1>6. QED
  <2> HIDE DEF N
  <2>1. QED
    BY <1>3, <1>5 DEF SanitySorted, Goes

\* Place i of a sorted list is behind all items that are not larger than x.
PlaceOf(s, x, i) ==
  /\ i \in 1 .. Len(s) + 1
  /\ \A k \in 1 .. i - 1 : Key(s[k]) <= Key(x)
  /\ \A k \in i .. Len(s) : Key(x) < Key(s[k])

LEMMA SortedFacts ==
  ASSUME NEW h, NEW l, WellFormed(h, l), SanitySorted(h, l)
  PROVE  LET s == Listed(h, l)
         IN  /\ s \in Seq(Items) /\ Len(s) \in Nat
             /\ \A k \in 1 .. Len(s) : Key(s[k]) \in Nat
             /\ \A k \in 2 .. Len(s) : Key(s[k - 1]) <= Key(s[k])
<1> DEFINE s == Listed(h, l)
           N == Len(s)
<1>1. s \in Seq(Items) /\ N \in Nat
  BY ListFacts
<1>2. \A k \in 1 .. N : s[k] \in Items
  <2> HIDE DEF s
  <2>1. QED
    BY <1>1
<1>3. \A k \in 1 .. N : Key(s[k]) \in Nat
  BY <1>2, ListAssumption
<1>4. \A k \in 2 .. N : ~(Key(s[k]) < Key(s[k - 1]))
  BY DEF SanitySorted, Goes
<1>5. \A k \in 2 .. N : k \in 1 .. N /\ k - 1 \in 1 .. N
  BY <1>1
<1>6. \A k \in 2 .. N : Key(s[k - 1]) <= Key(s[k])
  <2> HIDE DEF s, N
  <2>1. QED
    BY <1>3, <1>4, <1>5
<1>7. QED
  BY <1>1, <1>3, <1>6

LEMMA SortedPut ==
  ASSUME NEW h, NEW l, WellFormed(h, l), SanitySorted(h, l), NEW x \in Items,
         NEW i, PlaceOf(Listed(h, l), x, i), NEW e, PutsAt(h, l, x, i, e)
  PROVE  SanitySorted(e.heap, e.list)
<1> DEFINE s == Listed(h, l)
           t == Listed(e.heap, e.list)
           N == Len(s)
<1>1. /\ s \in Seq(Items) /\ N \in Nat
      /\ \A k \in 1 .. N : Key(s[k]) \in Nat
      /\ \A k \in 2 .. N : Key(s[k - 1]) <= Key(s[k])
  BY SortedFacts
<1>2. t = InsertedAt(s, i, x)
  BY DEF PutsAt
<1>3. /\ i \in 1 .. N + 1
      /\ \A k \in 1 .. i - 1 : Key(s[k]) <= Key(x)
      /\ \A k \in i .. N : Key(x) < Key(s[k])
  BY DEF PlaceOf
<1>4. Key(x) \in Nat
  BY ListAssumption
<1>5. Len(t) = N + 1 /\ \A k \in 1 .. N + 1 :
                          t[k] = IF k < i THEN s[k] ELSE IF k = i THEN x ELSE s[k - 1]
  <2> HIDE DEF s, t
  <2>1. s \in Seq(Items) /\ i \in 1 .. Len(s) + 1
    BY <1>1, <1>3
  <2>2. InsertedIs(Items, s, i, x)
    BY <2>1, InsertedSeq
  <2>3. QED
    BY <1>2, <2>2 DEF InsertedIs
<1> HIDE DEF s, t, N
<1>6. ASSUME NEW k \in 2 .. N + 1
      PROVE  ~(Key(t[k]) < Key(t[k - 1]))
  <2>0. k - 1 \in 1 .. N /\ k - 1 \in 1 .. N + 1 /\ k \in 1 .. N + 1
    BY <1>1
  <2>1. CASE k < i
    <3>1. t[k] = s[k] /\ t[k - 1] = s[k - 1] /\ k \in 2 .. N
      BY <1>1, <1>3, <1>5, <2>0, <2>1
    <3>2. Key(s[k]) \in Nat /\ Key(s[k - 1]) \in Nat /\ Key(s[k - 1]) <= Key(s[k])
      BY <1>1, <2>0, <3>1
    <3>3. QED
      BY <3>1, <3>2
  <2>2. CASE k = i
    <3>1. t[k] = x /\ t[k - 1] = s[k - 1] /\ k - 1 \in 1 .. i - 1
      BY <1>3, <1>5, <2>0, <2>2
    <3>2. Key(s[k - 1]) \in Nat /\ Key(s[k - 1]) <= Key(x)
      BY <1>1, <1>3, <2>0, <3>1
    <3>3. QED
      BY <1>4, <3>1, <3>2
  <2>3. CASE k = i + 1
    <3>1. t[k] = s[k - 1] /\ t[k - 1] = x /\ k - 1 \in i .. N
      BY <1>1, <1>3, <1>5, <2>0, <2>3
    <3>2. Key(s[k - 1]) \in Nat /\ Key(x) < Key(s[k - 1])
      BY <1>1, <1>3, <2>0, <3>1
    <3>3. QED
      BY <1>4, <3>1, <3>2
  <2>4. CASE k > i + 1
    <3>1. t[k] = s[k - 1] /\ t[k - 1] = s[(k - 1) - 1] /\ k - 1 \in 2 .. N /\ (k - 1) - 1 \in 1 .. N
      BY <1>1, <1>3, <1>5, <2>0, <2>4
    <3>2. Key(s[k - 1]) \in Nat /\ Key(s[(k - 1) - 1]) \in Nat /\ Key(s[(k - 1) - 1]) <= Key(s[k - 1])
      BY <1>1, <2>0, <3>1
    <3>3. QED
      BY <3>1, <3>2
  <2>5. QED
    BY <1>3, <2>0, <2>1, <2>2, <2>3, <2>4
<1>7. QED
  BY <1>5, <1>6 DEF SanitySorted, Goes, t

\* Behind an item that is larger all are.
LEMMA AllLarger ==
  ASSUME NEW h, NEW l, WellFormed(h, l), SanitySorted(h, l), NEW x \in Items,
         NEW i \in 1 .. Len(Listed(h, l)), Key(x) < Key(Listed(h, l)[i])
  PROVE  \A k \in i .. Len(Listed(h, l)) : Key(x) < Key(Listed(h, l)[k])
<1> DEFINE s == Listed(h, l)
           N == Len(s)
           Bad == {k \in i .. N : ~(Key(x) < Key(s[k]))}
<1>1. /\ N \in Nat
      /\ \A k \in 1 .. N : Key(s[k]) \in Nat
      /\ \A k \in 2 .. N : Key(s[k - 1]) <= Key(s[k])
  BY SortedFacts
<1>2. Key(x) \in Nat
  BY ListAssumption
<1>3. i \in 1 .. N /\ Key(x) < Key(s[i])
  OBVIOUS
<1> HIDE DEF s, N
<1>4. Bad = {}
  <2>1. SUFFICES ASSUME Bad # {} PROVE FALSE
    OBVIOUS
  <2>2. Bad \subseteq Nat
    BY <1>1
  <2>3. PICK k \in Bad : \A j \in Bad : k <= j
    BY <2>1, <2>2, LeastCell
  <2>4. k # i
    BY <1>3, <2>3
  <2>5. k \in 2 .. N /\ k \in 1 .. N /\ k - 1 \in i .. N /\ k - 1 \in 1 .. N /\ ~(k <= k - 1)
    BY <1>1, <1>3, <2>3, <2>4
  <2>6. k - 1 \notin Bad
    BY <2>3, <2>5
  <2>7. Key(x) < Key(s[k - 1])
    BY <2>5, <2>6
  <2>8. Key(s[k - 1]) <= Key(s[k]) /\ Key(s[k]) \in Nat /\ Key(s[k - 1]) \in Nat
    BY <1>1, <2>5
  <2>9. QED
    BY <1>2, <2>3, <2>7, <2>8
<1>5. QED
  BY <1>4 DEF s, N

\* SortedList::Insert (lib/list.cc): the item is put behind all that are not
\* larger, so that items with equal keys come out in the order in which they
\* went in, and the list is still sorted.
THEOREM InsertTheorem ==
  ASSUME NEW h, NEW l, WellFormed(h, l), SanitySorted(h, l),
         NEW x \in Items, ~IsInList(h, l, x), h.used # Cells
  PROVE  LET e == Insert(h, l, x)
         IN  /\ \E i : PlaceOf(Listed(h, l), x, i) /\ PutsAt(h, l, x, i, e)
             /\ SanitySorted(e.heap, e.list)
<1> DEFINE s == Chain(h, l)
           N == Len(s)
           q == Listed(h, l)
           e == Insert(h, l, x)
<1>1. /\ h \in Heaps /\ N \in Nat /\ l.numInList = N /\ IsChain(h, l, s)
      /\ s \in Seq(Cells) /\ \A k \in 1 .. N : s[k] \in Cells /\ s[k] \in h.used
      /\ N = 0 => l = EmptyList
      /\ N # 0 => l = [first |-> s[1], last |-> s[N], numInList |-> N]
      /\ Len(q) = N
  BY ListFacts
<1>2. \A k \in 1 .. N : q[k] = h.item[s[k]] /\ Key(q[k]) \in Nat
  <2>1. q = [k \in 1 .. N |-> h.item[s[k]]]
    BY ListFacts
  <2>2. \A k \in 1 .. Len(q) : Key(q[k]) \in Nat
    BY SortedFacts
  <2>3. QED
    BY <1>1, <2>1, <2>2
<1>3. Key(x) \in Nat
  BY ListAssumption
<1>4. IsEmpty(l) <=> N = 0
  BY <1>1 DEF IsEmpty
<1>5. SUFFICES \E i : PlaceOf(q, x, i) /\ PutsAt(h, l, x, i, e)
  BY SortedPut
<1> DEFINE larger == {k \in 2 .. Len(s) : Goes(x, h.item[s[k]])}
<1>6. CASE IsEmpty(l) \/ Goes(x, h.item[l.first])
  <2>1. PutsAt(h, l, x, 1, e)
    BY <1>6, PrependTheorem DEF Insert
  <2>2. PlaceOf(q, x, 1)
    <3>1. CASE N = 0
      BY <1>1, <3>1 DEF PlaceOf
    <3>2. CASE N # 0
      <4>1. 1 \in 1 .. N /\ l.first = s[1]
        BY <1>1, <3>2
      <4>2. Key(x) < Key(q[1]) /\ 1 \in 1 .. Len(q)
        BY <1>1, <1>2, <1>4, <1>6, <3>2, <4>1 DEF Goes
      <4>3. \A k \in 1 .. Len(q) : Key(x) < Key(q[k])
        BY <4>2, AllLarger
      <4>4. QED
        BY <1>1, <4>3 DEF PlaceOf
    <3>3. QED
      BY <3>1, <3>2
  <2>3. QED
    BY <2>1, <2>2
<1>7. CASE ~(IsEmpty(l) \/ Goes(x, h.item[l.first])) /\ larger = {}
  <2>1. e = Append_(h, l, x)
    BY <1>7 DEF Insert
  <2>2. PutsAt(h, l, x, Len(q) + 1, e)
    BY <2>1, AppendTheorem
  <2>3. 1 \in 1 .. N /\ l.first = s[1]
    BY <1>1, <1>4, <1>7
  <2>4. ASSUME NEW k \in 1 .. N PROVE Key(q[k]) <= Key(x)
    <3>1. ~(Key(x) < Key(q[k]))
      <4>1. CASE k = 1
        BY <1>2, <1>7, <2>3, <4>1 DEF Goes
      <4>2. CASE k # 1
        <5>1. k \in 2 .. Len(s) /\ ~Goes(x, h.item[s[k]])
          BY <1>1, <1>7, <4>2
        <5>2. QED
          BY <1>2, <5>1 DEF Goes
      <4>3. QED
        BY <4>1, <4>2
    <3>2. QED
      BY <1>2, <1>3, <3>1
  <2>5. PlaceOf(q, x, Len(q) + 1)
    <3> HIDE DEF N, q
    <3>1. QED
      BY <1>1, <2>4 DEF PlaceOf
  <2>6. QED
    BY <2>2, <2>5
<1>8. CASE ~(IsEmpty(l) \/ Goes(x, h.item[l.first])) /\ larger # {}
  <2> DEFINE i == CHOOSE j \in larger : \A k \in larger : j <= k
             c == Fresh(h)
             n == NewCell(h, x)
             k1 == Link(n, c, s[i])
             g == Link(k1, s[i - 1], c)
             m == [first |-> l.first, last |-> l.last, numInList |-> l.numInList + 1]
             ok == ~IsInList(h, l, x)
             t == InsertedAt(s, i, c)
  <2>1. i \in larger /\ \A k \in larger : i <= k
    <3>1. larger \subseteq Nat
      BY <1>1
    <3> HIDE DEF larger
    <3>2. \E j \in larger : \A k \in larger : j <= k
      BY <1>8, <3>1, LeastCell
    <3>3. QED
      BY <3>2
  <2>2. e = Effect(g, m, ok)
    BY <1>8 DEF Insert
  <2> HIDE DEF i
  <2>3. /\ i \in 2 .. N /\ i \in 1 .. N /\ i - 1 \in 1 .. N /\ i > 1 /\ i \in 1 .. N + 1
        /\ i # N + 1 /\ N > 1
    BY <1>1, <2>1
  <2>4. c \in Cells /\ c \notin h.used /\ s[i] \in Cells /\ s[i - 1] \in Cells /\ s[i - 1] # c
    BY <1>1, <2>3, FreshIs
  <2>5. /\ n \in Heaps /\ n.used = h.used \cup {c} /\ n.item = [h.item EXCEPT ![c] = x]
        /\ n.next = [h.next EXCEPT ![c] = NULL]
    BY <1>1, NewCellIs
  <2>6. PlaceOf(q, x, i)
    <3>1. Key(x) < Key(q[i])
      BY <1>2, <2>1, <2>3 DEF Goes
    <3>2. i \in 1 .. Len(q)
      BY <1>1, <2>3
    <3>3. \A k \in i .. Len(q) : Key(x) < Key(q[k])
      BY <3>1, <3>2, AllLarger
    <3>4. ASSUME NEW k \in 1 .. i - 1 PROVE Key(q[k]) <= Key(x)
      <4>1. k \in 1 .. N /\ ~(i <= k)
        BY <1>1, <2>3
      <4>2. ~(Key(x) < Key(q[k]))
        <5>1. CASE k = 1
          <6>1. l.first = s[1]
            BY <1>1, <2>3
          <6>2. QED
            BY <1>2, <1>8, <4>1, <5>1, <6>1 DEF Goes
        <5>2. CASE k # 1
          <6>1. k \in 2 .. Len(s) /\ k \notin larger
            BY <1>1, <2>1, <4>1, <5>2
          <6>2. ~Goes(x, h.item[s[k]])
            BY <6>1
          <6>3. QED
            BY <1>2, <4>1, <6>2 DEF Goes
        <5>3. QED
          BY <5>1, <5>2
      <4>3. QED
        BY <1>2, <1>3, <4>1, <4>2
    <3>5. QED
      BY <1>1, <2>3, <3>3, <3>4 DEF PlaceOf
  <2>7. DOMAIN h.next = Cells
    BY <1>1, NextsOf
  <2> HIDE DEF s, N, q, larger, c, n
  <2>8. /\ k1 \in Heaps /\ k1.used = n.used /\ k1.item = n.item
        /\ k1.next = [n.next EXCEPT ![c] = s[i]]
    BY <2>4, <2>5, LinkIs
  <2> HIDE DEF k1
  <2>9. /\ g \in Heaps /\ g.used = k1.used /\ g.item = k1.item
        /\ g.next = [k1.next EXCEPT ![s[i - 1]] = c]
    <3> DEFINE p == s[i - 1]
    <3>1. k1 \in Heaps /\ p \in Cells /\ c \in Cells \cup {NULL}
      BY <2>4, <2>8
    <3> HIDE DEF p
    <3>2. /\ Link(k1, p, c) \in Heaps /\ Link(k1, p, c).used = k1.used
          /\ Link(k1, p, c).item = k1.item /\ Link(k1, p, c).next = [k1.next EXCEPT ![p] = c]
      BY <3>1, LinkIs
    <3>3. QED
      BY <3>2 DEF p
  <2> HIDE DEF g
  <2>10. /\ g.next[c] = s[i] /\ g.next[s[i - 1]] = c
         /\ \A d \in Cells : d # c /\ d # s[i - 1] => g.next[d] = h.next[d]
         /\ g.used = h.used \cup {c} /\ g.item = [h.item EXCEPT ![c] = x]
    BY <2>4, <2>5, <2>7, <2>8, <2>9
  <2>11. m = ListRecord(t)
    <3>1. /\ t \in Seq(Cells) /\ Len(t) = N + 1
          /\ \A k \in 1 .. N + 1 : t[k] = IF k < i THEN s[k] ELSE IF k = i THEN c ELSE s[k - 1]
      <4>1. s \in Seq(Cells) /\ c \in Cells /\ i \in 1 .. Len(s) + 1
        BY <1>1, <2>3, <2>4 DEF N
      <4>2. InsertedIs(Cells, s, i, c)
        BY <4>1, InsertedSeq
      <4>3. QED
        BY <4>2 DEF InsertedIs, N
    <3> HIDE DEF t
    <3>2. ListRecord(t) = [first |-> t[1], last |-> t[N + 1], numInList |-> N + 1]
      BY <1>1, <3>1, RecordOf
    <3>3. t[1] = s[1] /\ t[N + 1] = s[N] /\ N # 0
      BY <1>1, <2>3, <3>1
    <3>4. l.first = s[1] /\ l.last = s[N] /\ l.numInList = N
      BY <1>1, <3>3
    <3>5. QED
      BY <3>2, <3>3, <3>4
  <2> HIDE DEF m, t, ok
  <2>12. PutsAt(h, l, x, i, Effect(g, m, ok))
    BY <2>3, <2>9, <2>10, <2>11, PutEffect DEF t, N, c, ok, s
  <2>13. QED
    BY <2>2, <2>6, <2>12
<1>9. QED
  BY <1>6, <1>7, <1>8
=============================================================================
