---------------------------- MODULE SynchProofs ----------------------------
(***************************************************************************)
(* Proofs about module Synch, for any number of threads and semaphores.    *)
(***************************************************************************)
EXTENDS Synch, SequenceTheorems, FiniteSetTheorems, TLAPS

(***************************************************************************)
(* Queues without repetition: what Append and RemoveFront of lib/list.cc   *)
(* do to the set of their elements.                                        *)
(***************************************************************************)
\* Appending adds one element to the range of a sequence, and keeps it without
\* repetition when the element is new (List::Append).
LEMMA AppendRange ==
  ASSUME NEW S, NEW q \in Seq(S), NEW x \in S
  PROVE  /\ Append(q, x) \in Seq(S)
         /\ Append(q, x) # <<>>
         /\ Range(Append(q, x)) = Range(q) \cup {x}
         /\ IsInjective(q) /\ x \notin Range(q) => IsInjective(Append(q, x))
  BY DEF Range, IsInjective

\* Removing the front of a sequence without repetition removes exactly that
\* element from its range (List::RemoveFront).
LEMMA TailRange ==
  ASSUME NEW S, NEW q \in Seq(S), q # <<>>
  PROVE  /\ Head(q) \in S
         /\ Head(q) \in Range(q)
         /\ Tail(q) \in Seq(S)
         /\ IsInjective(q) => /\ IsInjective(Tail(q))
                              /\ Range(Tail(q)) = Range(q) \ {Head(q)}
<1>1. /\ Head(q) \in S
      /\ Tail(q) \in Seq(S)
      /\ Head(q) \in Range(q)
  BY DEF Range
<1>2. ASSUME IsInjective(q)
      PROVE  IsInjective(Tail(q))
  BY <1>2 DEF IsInjective
<1>3. ASSUME IsInjective(q)
      PROVE  Range(Tail(q)) = Range(q) \ {Head(q)}
  <2>1. ASSUME NEW y \in Range(Tail(q))
        PROVE  y \in Range(q) \ {Head(q)}
    <3>1. PICK i \in 1 .. Len(q) - 1 : y = q[i + 1]
      BY <2>1 DEF Range
    <3>2. QED
      BY <1>3, <3>1 DEF Range, IsInjective
  <2>2. ASSUME NEW y \in Range(q), y # Head(q)
        PROVE  y \in Range(Tail(q))
    <3>1. PICK i \in 1 .. Len(q) : y = q[i]
      BY <2>2 DEF Range
    <3>2. i - 1 \in 1 .. Len(Tail(q)) /\ Tail(q)[i - 1] = y
      BY <2>2, <3>1
    <3>3. DOMAIN Tail(q) = 1 .. Len(Tail(q))
      BY <1>1, LenProperties
    <3>4. QED
      BY <3>2, <3>3 DEF Range
  <2>3. QED
    BY <2>1, <2>2
<1>4. QED
  BY <1>1, <1>2, <1>3

\* An empty queue has no elements.
LEMMA EmptyRange == Range(<<>>) = {} /\ IsInjective(<<>>)
  BY DEF Range, IsInjective

(***************************************************************************)
(* The inductive invariant, and each action's effect on its first three    *)
(* conjuncts: the shape of the dispatcher's state.                         *)
(***************************************************************************)
Shape == TypeOK /\ OneHome /\ CpuInv
IInv == Shape /\ NoLostWakeup

LEMMA ShapeInit == Init => Shape
  BY ThreadsAssumption, SemsAssumption, EmptyRange
     DEF Init, Shape, TypeOK, OneHome, CpuInv, ThreadStatus, Switched

\* The front of the ready list is a READY thread, and removing it leaves the
\* others (Scheduler::FindNextToRun).
LEMMA Front ==
  ASSUME TypeOK, OneHome, readyList # <<>>
  PROVE  /\ Head(readyList) \in Threads
         /\ status[Head(readyList)] = "READY"
         /\ Tail(readyList) \in Seq(Threads)
         /\ IsInjective(Tail(readyList))
         /\ Range(Tail(readyList)) = Range(readyList) \ {Head(readyList)}
<1>1. readyList \in Seq(Threads) /\ IsInjective(readyList)
  BY DEF TypeOK, OneHome
<1>2. /\ Head(readyList) \in Threads
      /\ Head(readyList) \in Range(readyList)
      /\ Tail(readyList) \in Seq(Threads)
      /\ IsInjective(Tail(readyList))
      /\ Range(Tail(readyList)) = Range(readyList) \ {Head(readyList)}
  BY <1>1, TailRange
<1>3. QED
  BY <1>2 DEF OneHome

\* Thread::Fork keeps the shape.
LEMMA ShapeFork ==
  ASSUME Shape, NEW t \in Threads, NEW child \in Threads, Fork(t, child)
  PROVE  Shape'
<1> USE DEF Shape, Fork, Running, threadVars, semVars
<1>1. /\ readyList' \in Seq(Threads)
      /\ Range(readyList') = Range(readyList) \cup {child}
      /\ IsInjective(readyList')
  BY AppendRange DEF TypeOK, OneHome
<1>2. TypeOK'
  BY <1>1 DEF TypeOK, ThreadStatus
<1>3. OneHome'
  BY <1>1 DEF TypeOK, OneHome
<1>4. CpuInv'
  BY DEF TypeOK, CpuInv, Switched
<1>5. QED
  BY <1>2, <1>3, <1>4

\* Thread::Yield keeps the shape.
LEMMA ShapeYield ==
  ASSUME Shape, NEW t \in Threads, Yield(t)
  PROVE  Shape'
<1> USE DEF Shape, Yield, Running, threadVars, semVars, Run
<1> DEFINE rl == Append(readyList, t)
<1>0. /\ t \notin Range(readyList)
      /\ readyList \in Seq(Threads)
      /\ readyList # <<>>
      /\ IsInjective(readyList)
  BY DEF TypeOK, OneHome
<1>1. /\ rl \in Seq(Threads)
      /\ rl # <<>>
      /\ Range(rl) = Range(readyList) \cup {t}
      /\ IsInjective(rl)
      /\ Head(rl) = Head(readyList)
      /\ Head(readyList) \in Range(readyList)
  <2>1. Head(rl) = Head(readyList)
    BY <1>0
  <2>2. Head(readyList) \in Range(readyList)
    BY <1>0, TailRange
  <2>3. QED
    BY <1>0, <2>1, <2>2, AppendRange
<1>2. /\ readyList' \in Seq(Threads)
      /\ Head(rl) \in Threads
      /\ Range(readyList') = Range(rl) \ {Head(rl)}
      /\ IsInjective(readyList')
  <2> HIDE DEF rl
  <2>1. readyList' = Tail(rl)
    BY DEF rl
  <2>2. /\ Head(rl) \in Threads
        /\ Tail(rl) \in Seq(Threads)
        /\ IsInjective(Tail(rl))
        /\ Range(Tail(rl)) = Range(rl) \ {Head(rl)}
    BY <1>1, TailRange
  <2>3. QED
    BY <2>1, <2>2
<1>3. Head(rl) # t
  BY <1>1 DEF OneHome
<1> HIDE DEF rl
<1>4. /\ currentThread' = Head(rl)
      /\ status' = [status EXCEPT ![t] = "READY", ![Head(rl)] = "RUNNING"]
      /\ toBeDestroyed' = toBeDestroyed
      /\ level' = "IntOff"
  BY DEF rl
<1>5. TypeOK'
  BY <1>2, <1>4 DEF TypeOK, ThreadStatus
<1>6. OneHome'
  BY <1>1, <1>2, <1>3, <1>4 DEF TypeOK, OneHome
<1>7. CpuInv'
  BY <1>1, <1>2, <1>3, <1>4 DEF TypeOK, OneHome, CpuInv, Switched
<1>8. QED
  BY <1>5, <1>6, <1>7


\* Thread::Finish keeps the shape.
LEMMA ShapeFinish ==
  ASSUME Shape, NEW t \in Threads, Finish(t)
  PROVE  Shape'
<1> USE DEF Shape, Finish, Running, threadVars, semVars, Sleep
<1>1. CASE readyList # <<>>
  <2> DEFINE next == Head(readyList)
  <2>1. /\ next \in Threads
        /\ next # t
        /\ status[next] = "READY"
        /\ readyList' \in Seq(Threads)
        /\ IsInjective(readyList')
        /\ Range(readyList') = Range(readyList) \ {next}
    BY <1>1, Front DEF Run
  <2>2. /\ currentThread' = next
        /\ status' = [status EXCEPT ![t] = "BLOCKED", ![next] = "RUNNING"]
        /\ toBeDestroyed' = t
        /\ level' = "IntOff"
    BY <1>1 DEF Run
  <2> HIDE DEF next
  <2>3. TypeOK'
    BY <2>1, <2>2 DEF TypeOK, ThreadStatus
  <2>4. OneHome'
    BY <2>1, <2>2 DEF TypeOK, OneHome, CpuInv
  <2>5. CpuInv'
    BY <2>1, <2>2 DEF TypeOK, OneHome, CpuInv, Switched
  <2>6. QED
    BY <2>3, <2>4, <2>5
<1>2. CASE readyList = <<>>
  <2>1. TypeOK'
    BY <1>2 DEF TypeOK, ThreadStatus
  <2>2. OneHome'
    BY <1>2 DEF TypeOK, OneHome, CpuInv
  <2>3. CpuInv'
    BY <1>2 DEF TypeOK, OneHome, CpuInv, Switched
  <2>4. QED
    BY <2>1, <2>2, <2>3
<1>3. QED
  BY <1>1, <1>2

\* The resumption of a thread after SWITCH keeps the shape.
LEMMA ShapeResume ==
  ASSUME Shape, NEW t \in Threads, Resume(t)
  PROVE  Shape'
<1> USE ThreadsAssumption
    DEF Shape, Resume, Switched, threadVars, semVars, CheckToBeDestroyed, Reaped
<1>1. TypeOK'
  BY DEF TypeOK, ThreadStatus
<1>2. OneHome'
  BY DEF TypeOK, OneHome, CpuInv
<1>3. CpuInv'
  BY DEF TypeOK, CpuInv
<1>4. QED
  BY <1>1, <1>2, <1>3

\* Leaving the idle loop keeps the shape.
LEMMA ShapeIdleRun ==
  ASSUME Shape, NEW t \in Threads, IdleRun(t)
  PROVE  Shape'
<1> USE DEF Shape, IdleRun, Idling, threadVars, semVars
<1> DEFINE next == Head(readyList)
<1>1. /\ next \in Threads
      /\ status[next] = "READY"
      /\ readyList' \in Seq(Threads)
      /\ IsInjective(readyList')
      /\ Range(readyList') = Range(readyList) \ {next}
  BY Front DEF Run
<1>2. /\ currentThread' = next
      /\ status' = [status EXCEPT ![next] = "RUNNING"]
      /\ toBeDestroyed' = IF t \in finished THEN t ELSE toBeDestroyed
      /\ level' = "IntOff"
  BY DEF Run
<1> HIDE DEF next
<1>3. TypeOK'
  BY <1>1, <1>2 DEF TypeOK, ThreadStatus
<1>4. OneHome'
  BY <1>1, <1>2 DEF TypeOK, OneHome
<1>5. CpuInv'
  BY <1>1, <1>2 DEF TypeOK, CpuInv, Switched
<1>6. QED
  BY <1>3, <1>4, <1>5


\* P() on an available semaphore keeps the shape.
LEMMA ShapePPass ==
  ASSUME Shape, NEW t \in Threads, NEW s \in Sems, PPass(t, s)
  PROVE  Shape'
<1> USE DEF Shape, PPass, Running, threadVars
<1>1. TypeOK'
  BY DEF TypeOK
<1>2. OneHome' /\ CpuInv'
  BY DEF OneHome, CpuInv, Switched
<1>3. QED
  BY <1>1, <1>2

\* P() on a semaphore at zero keeps the shape.
LEMMA ShapePBlock ==
  ASSUME Shape, NEW t \in Threads, NEW s \in Sems, PBlock(t, s)
  PROVE  Shape'
<1> USE SemsAssumption DEF Shape, PBlock, Running, threadVars, Sleep
<1>0. t \notin finished /\ t \notin Range(readyList) /\ toBeDestroyed = NoThread
  BY DEF TypeOK, OneHome, CpuInv, Switched
<1>1. /\ queue' \in [Sems -> Seq(Threads)]
      /\ Range(queue'[s]) = Range(queue[s]) \cup {t}
      /\ IsInjective(queue'[s])
      /\ \A r \in Sems \ {s} : queue'[r] = queue[r]
  <2>1. queue[s] \in Seq(Threads) /\ IsInjective(queue[s]) /\ t \notin Range(queue[s])
    BY DEF TypeOK, OneHome
  <2>2. /\ Append(queue[s], t) \in Seq(Threads)
        /\ Range(Append(queue[s], t)) = Range(queue[s]) \cup {t}
        /\ IsInjective(Append(queue[s], t))
    BY <2>1, AppendRange
  <2>3. QED
    BY <2>2 DEF TypeOK
<1>2. CASE readyList # <<>>
  <2> DEFINE next == Head(readyList)
  <2>1. /\ next \in Threads
        /\ next # t
        /\ status[next] = "READY"
        /\ readyList' \in Seq(Threads)
        /\ IsInjective(readyList')
        /\ Range(readyList') = Range(readyList) \ {next}
    BY <1>2, Front DEF Run
  <2>2. /\ currentThread' = next
        /\ status' = [status EXCEPT ![t] = "BLOCKED", ![next] = "RUNNING"]
        /\ toBeDestroyed' = toBeDestroyed
        /\ level' = "IntOff"
    BY <1>2 DEF Run
  <2> HIDE DEF next
  <2>3. TypeOK'
    BY <1>1, <2>1, <2>2 DEF TypeOK, ThreadStatus
  <2>4. OneHome'
    BY <1>0, <1>1, <2>1, <2>2 DEF TypeOK, OneHome
  <2>5. CpuInv'
    BY <1>0, <2>1, <2>2 DEF TypeOK, CpuInv
  <2>6. QED
    BY <2>3, <2>4, <2>5
<1>3. CASE readyList = <<>>
  <2>1. TypeOK'
    BY <1>1, <1>3 DEF TypeOK, ThreadStatus
  <2>2. OneHome'
    BY <1>0, <1>1, <1>3 DEF TypeOK, OneHome
  <2>3. CpuInv'
    BY <1>0, <1>3 DEF TypeOK, CpuInv
  <2>4. QED
    BY <2>1, <2>2, <2>3
<1>4. QED
  BY <1>2, <1>3

\* A woken thread that passes keeps the shape.
LEMMA ShapePRetryPass ==
  ASSUME Shape, NEW t \in Threads, PRetryPass(t)
  PROVE  Shape'
<1> USE ThreadsAssumption, SemsAssumption
    DEF Shape, PRetryPass, Switched, threadVars, CheckToBeDestroyed, Reaped
<1>1. TypeOK'
  BY DEF TypeOK, ThreadStatus
<1>2. OneHome'
  BY DEF TypeOK, OneHome, CpuInv
<1>3. CpuInv'
  BY DEF TypeOK, CpuInv
<1>4. QED
  BY <1>1, <1>2, <1>3

\* A woken thread that goes back to sleep keeps the shape.
LEMMA ShapePRetryBlock ==
  ASSUME Shape, NEW t \in Threads, PRetryBlock(t)
  PROVE  Shape'
<1> USE ThreadsAssumption, SemsAssumption DEF Shape, PRetryBlock, Switched, Sleep
<1> DEFINE s == sem[t]
<1>a. currentThread = t /\ status[t] = "RUNNING" /\ sem[t] # NoSem
  OBVIOUS
<1>0. s \in Sems /\ t \notin finished /\ t \notin Range(readyList) /\ t # toBeDestroyed
  BY DEF TypeOK, OneHome, CpuInv
<1>1. /\ queue' \in [Sems -> Seq(Threads)]
      /\ Range(queue'[s]) = Range(queue[s]) \cup {t}
      /\ IsInjective(queue'[s])
      /\ \A r \in Sems \ {s} : queue'[r] = queue[r]
  <2>1. queue[s] \in Seq(Threads) /\ IsInjective(queue[s]) /\ t \notin Range(queue[s])
    BY <1>0 DEF TypeOK, OneHome
  <2>2. /\ Append(queue[s], t) \in Seq(Threads)
        /\ Range(Append(queue[s], t)) = Range(queue[s]) \cup {t}
        /\ IsInjective(Append(queue[s], t))
    BY <2>1, AppendRange
  <2>3. QED
    BY <1>0, <2>2 DEF TypeOK
<1>2. /\ Reaped \in [Threads -> ThreadStatus]
      /\ \A u \in Threads : \/ Reaped[u] = status[u] /\ u # toBeDestroyed
                            \/ /\ u = toBeDestroyed
                               /\ Reaped[u] = "DELETED"
                               /\ u \in finished
                               /\ status[u] = "BLOCKED"
                               /\ sem[u] = NoSem
  BY DEF Reaped, TypeOK, CpuInv, ThreadStatus
<1>3. CASE readyList # <<>>
  <2> DEFINE next == Head(readyList)
  <2>1. /\ next \in Threads
        /\ next # t
        /\ status[next] = "READY"
        /\ readyList' \in Seq(Threads)
        /\ IsInjective(readyList')
        /\ Range(readyList') = Range(readyList) \ {next}
    BY <1>3, Front DEF Run
  <2>2. /\ currentThread' = next
        /\ status' = [Reaped EXCEPT ![t] = "BLOCKED", ![next] = "RUNNING"]
        /\ toBeDestroyed' = NoThread
        /\ level' = "IntOff"
    BY <1>3 DEF Run
  <2>u. UNCHANGED <<sem, finished, value, pending>>
    OBVIOUS
  <2> HIDE DEF next, s, Sleep, PRetryBlock
  <2>v. \A u \in Threads : status'[u] = IF u = next THEN "RUNNING"
                                       ELSE IF u = t THEN "BLOCKED" ELSE Reaped[u]
    BY <1>2, <2>1, <2>2
  <2>3. TypeOK'
    BY <1>1, <1>2, <2>1, <2>2, <2>u DEF TypeOK, ThreadStatus
  <2>4. OneHome'
    <3>1. \A u \in Threads : u \in Range(readyList') <=> status'[u] = "READY"
      BY <1>0, <1>2, <2>1, <2>v DEF OneHome
    <3>2. ASSUME NEW r \in Sems
          PROVE  /\ IsInjective(queue'[r])
                 /\ \A u \in Threads : u \in Range(queue'[r]) <=>
                      status'[u] = "BLOCKED" /\ u \notin finished /\ sem[u] = r
      <4>1. IsInjective(queue'[r])
        BY <1>1 DEF OneHome
      <4>2. ASSUME NEW u \in Threads
            PROVE  u \in Range(queue'[r]) <=>
                     status'[u] = "BLOCKED" /\ u \notin finished /\ sem[u] = r
        <5>1. u \in Range(queue[r]) <=>
                status[u] = "BLOCKED" /\ u \notin finished /\ sem[u] = r
          BY DEF OneHome
        <5>2. u \in Range(queue'[r]) <=> u \in Range(queue[r]) \/ (u = t /\ r = s)
          BY <1>1
        <5>3. QED
          BY <1>a, <1>0, <1>2, <2>1, <2>v, <5>1, <5>2 DEF s
      <4>3. QED
        BY <4>1, <4>2
    <3>3. QED
      BY <2>1, <2>u, <3>1, <3>2 DEF OneHome
  <2>5. CpuInv'
    BY <1>a, <1>0, <1>2, <2>1, <2>v, <2>2, <2>u DEF TypeOK, CpuInv
  <2>6. QED
    BY <2>3, <2>4, <2>5
<1>4. CASE readyList = <<>>
  <2>0. /\ status' = [Reaped EXCEPT ![t] = "BLOCKED"]
        /\ toBeDestroyed' = NoThread
        /\ level' = "IntOff"
        /\ UNCHANGED <<readyList, currentThread, sem, finished, value, pending>>
    BY <1>4
  <2> HIDE DEF s, Sleep, PRetryBlock
  <2>1. TypeOK'
    BY <1>1, <1>2, <2>0 DEF TypeOK, ThreadStatus
  <2>2. OneHome'
    <3>0. \A u \in Threads : status'[u] = IF u = t THEN "BLOCKED" ELSE Reaped[u]
      BY <1>2, <2>0
    <3>1. \A u \in Threads : u \in Range(readyList') <=> status'[u] = "READY"
      BY <1>0, <1>2, <2>0, <3>0 DEF OneHome
    <3>2. ASSUME NEW r \in Sems
          PROVE  /\ IsInjective(queue'[r])
                 /\ \A u \in Threads : u \in Range(queue'[r]) <=>
                      status'[u] = "BLOCKED" /\ u \notin finished /\ sem[u] = r
      <4>1. CASE r = s
        BY <1>0, <1>1, <1>2, <3>0, <4>1 DEF OneHome, s
      <4>2. CASE r # s
        BY <1>0, <1>1, <1>2, <3>0, <4>2 DEF OneHome, s
      <4>3. QED
        BY <4>1, <4>2
    <3>3. QED
      BY <2>0, <3>1, <3>2 DEF OneHome
  <2>3. CpuInv'
    BY <1>0, <1>2, <2>0 DEF TypeOK, CpuInv, s, PRetryBlock
  <2>4. QED
    BY <2>1, <2>2, <2>3
<1>5. QED
  BY <1>3, <1>4

\* V(), by a thread or by a handler, keeps the shape.
LEMMA ShapeVBody ==
  ASSUME Shape, NEW s \in Sems, VBody(s),
         UNCHANGED <<currentThread, toBeDestroyed, level, sem, finished>>,
         pending' \in [Sems -> Nat],
         toBeDestroyed = NoThread
  PROVE  Shape'
<1> USE SemsAssumption DEF Shape, VBody
<1>0. value' \in [Sems -> Nat]
  BY DEF TypeOK
<1>1. CASE queue[s] = <<>>
  BY <1>0, <1>1 DEF TypeOK, OneHome, CpuInv
<1>2. CASE queue[s] # <<>>
  <2> DEFINE w == Head(queue[s])
  <2>1. queue[s] \in Seq(Threads) /\ IsInjective(queue[s])
    BY DEF TypeOK, OneHome
  <2>2. /\ w \in Threads
        /\ w \in Range(queue[s])
        /\ Tail(queue[s]) \in Seq(Threads)
        /\ IsInjective(Tail(queue[s]))
        /\ Range(Tail(queue[s])) = Range(queue[s]) \ {w}
    BY <1>2, <2>1, TailRange
  <2>3. status[w] = "BLOCKED" /\ w \notin finished /\ sem[w] = s /\ w \notin Range(readyList)
    BY <2>2 DEF TypeOK, OneHome
  <2>4. /\ queue' \in [Sems -> Seq(Threads)]
        /\ Range(queue'[s]) = Range(queue[s]) \ {w}
        /\ IsInjective(queue'[s])
        /\ \A r \in Sems \ {s} : queue'[r] = queue[r]
    <3>1. queue' = [queue EXCEPT ![s] = Tail(queue[s])] /\ queue \in [Sems -> Seq(Threads)]
      BY <1>2 DEF TypeOK
    <3>2. queue'[s] = Tail(queue[s]) /\ \A r \in Sems \ {s} : queue'[r] = queue[r]
      BY <3>1
    <3>3. QED
      BY <2>2, <3>1, <3>2
  <2>5. /\ readyList' \in Seq(Threads)
        /\ Range(readyList') = Range(readyList) \cup {w}
        /\ IsInjective(readyList')
    <3>1. readyList' = Append(readyList, w) /\ readyList \in Seq(Threads) /\ IsInjective(readyList)
      BY <1>2 DEF TypeOK, OneHome
    <3>2. QED
      BY <2>2, <2>3, <3>1, AppendRange
  <2>6. status' = [status EXCEPT ![w] = "READY"]
    BY <1>2
  <2> HIDE DEF w
  <2>7. TypeOK'
    BY <1>0, <2>2, <2>4, <2>5, <2>6 DEF TypeOK, ThreadStatus
  <2>8. OneHome'
    <3>1. \A u \in Threads : u \in Range(readyList') <=> status'[u] = "READY"
      BY <2>2, <2>5, <2>6 DEF TypeOK, OneHome
    <3>2. ASSUME NEW r \in Sems
          PROVE  /\ IsInjective(queue'[r])
                 /\ \A u \in Threads : u \in Range(queue'[r]) <=>
                      status'[u] = "BLOCKED" /\ u \notin finished /\ sem[u] = r
      <4>0. \A u \in Threads : status'[u] = IF u = w THEN "READY" ELSE status[u]
        BY <2>6 DEF TypeOK
      <4>1. CASE r = s
        BY <2>2, <2>3, <2>4, <4>0, <4>1 DEF OneHome
      <4>2. CASE r # s
        <5>1. queue'[r] = queue[r]
          BY <2>4, <4>2
        <5>2. QED
          BY <2>2, <2>3, <4>0, <4>2, <5>1 DEF OneHome
      <4>3. QED
        BY <4>1, <4>2
    <3>3. QED
      BY <2>5, <3>1, <3>2 DEF OneHome
  <2>9. CpuInv'
    BY <2>2, <2>3, <2>6 DEF TypeOK, CpuInv, Switched
  <2>10. QED
    BY <2>7, <2>8, <2>9
<1>3. QED
  BY <1>1, <1>2


\* Every step keeps the shape.
LEMMA ShapeNext == Shape /\ [Next]_vars => Shape'
<1> SUFFICES ASSUME Shape, [Next]_vars
             PROVE  Shape'
  OBVIOUS
<1>1. ASSUME NEW t \in Threads, ThreadStep(t)
      PROVE  Shape'
  <2>1. CASE Yield(t) \/ Finish(t) \/ Resume(t) \/ IdleRun(t)
    BY <2>1, ShapeYield, ShapeFinish, ShapeResume, ShapeIdleRun
  <2>2. CASE PRetryPass(t) \/ PRetryBlock(t)
    BY <2>2, ShapePRetryPass, ShapePRetryBlock
  <2>3. ASSUME NEW child \in Threads, Fork(t, child)
        PROVE  Shape'
    BY <2>3, ShapeFork
  <2>4. ASSUME NEW s \in Sems, PPass(t, s) \/ PBlock(t, s)
        PROVE  Shape'
    BY <2>4, ShapePPass, ShapePBlock
  <2>5. ASSUME NEW s \in Sems, V(t, s)
        PROVE  Shape'
    <3>1. toBeDestroyed = NoThread /\ pending' \in [Sems -> Nat]
      BY <2>5 DEF V, Running, Shape, CpuInv, Switched, TypeOK
    <3>2. QED
      BY <2>5, <3>1, ShapeVBody DEF V
  <2>6. ASSUME NEW s \in Sems, Request(t, s)
        PROVE  Shape'
    <3>1. TypeOK'
      BY <2>6 DEF Request, Shape, TypeOK, threadVars, semVars
    <3>2. OneHome' /\ CpuInv'
      BY <2>6 DEF Request, Shape, OneHome, CpuInv, Switched, threadVars, semVars
    <3>3. QED
      BY <3>1, <3>2 DEF Shape
  <2>7. CASE IdleTick(t)
    BY <2>7 DEF IdleTick, vars, threadVars, semVars, Shape, TypeOK, OneHome, CpuInv, Switched
  <2>8. QED
    BY <1>1, <2>1, <2>2, <2>3, <2>4, <2>5, <2>6, <2>7 DEF ThreadStep
<1>2. ASSUME NEW s \in Sems, Interrupt(s)
      PROVE  Shape'
  <2>1. toBeDestroyed = NoThread
    BY <1>2 DEF Interrupt, Running, Idling, Shape, CpuInv, Switched
  <2>2. pending' \in [Sems -> Nat]
    BY <1>2 DEF Interrupt, Shape, TypeOK
  <2>3. QED
    BY <1>2, <2>1, <2>2, ShapeVBody DEF Interrupt
<1>3. CASE UNCHANGED vars
  BY <1>3 DEF vars, threadVars, semVars, Shape, TypeOK, OneHome, CpuInv, Switched
<1>4. QED
  BY <1>1, <1>2, <1>3 DEF Next

\* The dispatcher's state is well formed in every reachable state: types, every
\* thread in one place, one owner of the CPU.
THEOREM ShapeInvariant == Spec => []Shape
  BY ShapeInit, ShapeNext, PTL DEF Spec

\* Type correctness of the kernel's thread and semaphore state.
THEOREM TypeTheorem == Spec => []TypeOK
<1>1. Shape => TypeOK
  BY DEF Shape
<1>2. QED
  BY <1>1, ShapeInvariant, PTL

\* Every thread that can run is in exactly one place: no thread is run twice or
\* forgotten by ReadyToRun, FindNextToRun, P and V.
THEOREM OneHomeTheorem == Spec => []OneHome
<1>1. Shape => OneHome
  BY DEF Shape
<1>2. QED
  BY <1>1, ShapeInvariant, PTL

\* A finished thread's carcass is deleted before interrupts come back on, and a
\* deleted Thread is on no list (Scheduler::CheckToBeDestroyed, Run).
THEOREM CarcassTheorem == Spec => []CarcassReaped
<1>1. Shape => CarcassReaped
  BY ThreadsAssumption, SemsAssumption
     DEF Shape, TypeOK, OneHome, CpuInv, CarcassReaped, Running, Idling, Switched
<1>2. QED
  BY <1>1, ShapeInvariant, PTL

(***************************************************************************)
(* No wake-up is lost: counting the woken threads.                         *)
(***************************************************************************)
LEMMA WokenFinite ==
  ASSUME NEW s \in Sems
  PROVE  IsFiniteSet(Woken(s)) /\ Cardinality(Woken(s)) \in Nat
<1>1. Woken(s) \in SUBSET Threads
  BY DEF Woken
<1>2. QED
  BY <1>1, ThreadsAssumption, FS_Subset, FS_CardinalityType

\* V() adds the thread it wakes to the woken ones, and one unit.
LEMMA WakeupVBody ==
  ASSUME IInv, NEW s \in Sems, VBody(s), UNCHANGED sem
  PROVE  NoLostWakeup'
<1> USE DEF IInv, Shape
<1>1. CASE queue[s] = <<>>
  <2>1. \A r \in Sems : /\ Woken(r)' = Woken(r)
                        /\ queue'[r] # <<>> => queue[r] # <<>> /\ value'[r] = value[r]
    BY <1>1 DEF VBody, Woken, TypeOK
  <2>2. QED
    BY <2>1 DEF NoLostWakeup
<1>2. CASE queue[s] # <<>>
  <2> DEFINE w == Head(queue[s])
  <2>1. w \in Range(queue[s]) /\ w \in Threads
    BY <1>2, TailRange DEF TypeOK
  <2>2. status[w] = "BLOCKED" /\ sem[w] = s
    BY <2>1 DEF OneHome
  <2>3. status' = [status EXCEPT ![w] = "READY"]
    BY <1>2 DEF VBody
  <2> HIDE DEF w
  <2>4. /\ Woken(s)' = Woken(s) \cup {w}
        /\ w \notin Woken(s)
        /\ \A r \in Sems \ {s} : Woken(r)' = Woken(r)
    BY <2>1, <2>2, <2>3 DEF Woken, TypeOK
  <2>5. Cardinality(Woken(s)') = Cardinality(Woken(s)) + 1
    BY <2>4, WokenFinite, FS_AddElement
  <2>6. value'[s] = value[s] + 1 /\ value[s] <= Cardinality(Woken(s))
    BY <1>2 DEF VBody, TypeOK, NoLostWakeup
  <2>7. \A r \in Sems \ {s} : queue'[r] = queue[r] /\ value'[r] = value[r]
    BY <1>2 DEF VBody, TypeOK
  <2>8. value[s] \in Nat /\ Cardinality(Woken(s)) \in Nat
    BY WokenFinite DEF TypeOK
  <2>9. ASSUME NEW r \in Sems, queue'[r] # <<>>
        PROVE  value'[r] <= Cardinality(Woken(r)')
    <3>1. CASE r = s
      BY <2>5, <2>6, <2>8, <3>1
    <3>2. CASE r # s
      BY <2>4, <2>7, <2>9, <3>2 DEF NoLostWakeup
    <3>3. QED
      BY <3>1, <3>2
  <2>10. QED
    BY <2>9 DEF NoLostWakeup
<1>3. QED
  BY <1>1, <1>2

\* A woken thread that takes a unit leaves the woken ones.
LEMMA WakeupPRetryPass ==
  ASSUME IInv, NEW t \in Threads, PRetryPass(t)
  PROVE  NoLostWakeup'
<1> USE DEF IInv, Shape
<1>1. PICK s \in Sems : s = sem[t]
  BY DEF PRetryPass, TypeOK
<1>2. t \in Woken(s)
  BY <1>1 DEF PRetryPass, Switched, Woken
<1>3. /\ value'[s] = value[s] - 1
      /\ \A r \in Sems \ {s} : value'[r] = value[r]
      /\ UNCHANGED queue
      /\ value[s] \in Nat
  BY <1>1 DEF PRetryPass, TypeOK
<1>4. /\ Woken(s)' = Woken(s) \ {t}
      /\ \A r \in Sems \ {s} : Woken(r)' = Woken(r)
  <2>1. /\ sem'[t] = NoSem
        /\ \A u \in Threads \ {t} : sem'[u] = sem[u]
    BY DEF PRetryPass, TypeOK
  <2>2. \A u \in Threads : sem[u] # NoSem => status'[u] = status[u]
    BY ThreadsAssumption DEF PRetryPass, CheckToBeDestroyed, Reaped, CpuInv, TypeOK
  <2>3. QED
    BY <1>1, <2>1, <2>2, SemsAssumption DEF Woken
<1>5. Cardinality(Woken(s)') = Cardinality(Woken(s)) - 1 /\ Cardinality(Woken(s)) \in Nat
  BY <1>2, <1>4, WokenFinite, FS_RemoveElement
<1>6. ASSUME NEW r \in Sems, queue'[r] # <<>>
      PROVE  value'[r] <= Cardinality(Woken(r)')
  <2>1. CASE r = s
    <3>1. value[s] <= Cardinality(Woken(s))
      BY <1>3, <1>6, <2>1 DEF NoLostWakeup
    <3>2. QED
      BY <1>3, <1>5, <2>1, <3>1
  <2>2. CASE r # s
    BY <1>3, <1>4, <1>6, <2>2 DEF NoLostWakeup
  <2>3. QED
    BY <2>1, <2>2
<1>7. QED
  BY <1>6 DEF NoLostWakeup

\* A thread goes to sleep only on a semaphore at zero, and was not among the
\* woken ones of another.
LEMMA WakeupBlock ==
  ASSUME IInv, Shape', NEW t \in Threads, NEW s \in Sems,
         PBlock(t, s) \/ (PRetryBlock(t) /\ s = sem[t])
  PROVE  NoLostWakeup'
<1> USE DEF IInv, Shape
<1>1. /\ UNCHANGED value
      /\ value[s] = 0
      /\ \A r \in Sems \ {s} : queue'[r] = queue[r]
      /\ currentThread = t
      /\ status[t] = "RUNNING"
      /\ \A u \in Threads \ {t} : sem'[u] = sem[u]
      /\ sem'[t] = s
      /\ sem[t] \in {s, NoSem}
  BY DEF PBlock, PRetryBlock, Running, Switched, TypeOK, CpuInv
<1>2. \A u \in Threads \ {t} : status[u] \in {"READY", "RUNNING"} <=>
                               status'[u] \in {"READY", "RUNNING"}
  <2>1. CASE readyList = <<>>
    BY <2>1 DEF PBlock, PRetryBlock, Sleep, Reaped, CpuInv, TypeOK
  <2>2. CASE readyList # <<>>
    BY <2>2, Front DEF PBlock, PRetryBlock, Sleep, Run, Reaped, CpuInv, TypeOK
  <2>3. QED
    BY <2>1, <2>2
<1>3. \A r \in Sems \ {s} : Woken(r)' = Woken(r)
  BY <1>1, <1>2, SemsAssumption DEF Woken
<1>4. Cardinality(Woken(s)') \in Nat
  <2>1. Woken(s)' \in SUBSET Threads
    BY DEF Woken
  <2>2. QED
    BY <2>1, ThreadsAssumption, FS_Subset, FS_CardinalityType
<1>5. ASSUME NEW r \in Sems, queue'[r] # <<>>
      PROVE  value'[r] <= Cardinality(Woken(r)')
  <2>1. CASE r = s
    BY <1>1, <1>4, <2>1
  <2>2. CASE r # s
    BY <1>1, <1>3, <1>5, <2>2 DEF NoLostWakeup
  <2>3. QED
    BY <2>1, <2>2
<1>6. QED
  BY <1>5 DEF NoLostWakeup

\* A step that leaves sem and queue alone, raises no value and neither readies
\* nor stops a thread inside P() changes nothing for NoLostWakeup.
LEMMA WakeupSame ==
  ASSUME IInv, UNCHANGED <<sem, queue>>,
         \A s \in Sems : value'[s] <= value[s] /\ value'[s] \in Nat,
         \A u \in Threads : sem[u] # NoSem =>
            (status[u] \in {"READY", "RUNNING"} <=> status'[u] \in {"READY", "RUNNING"})
  PROVE  NoLostWakeup'
<1>1. \A s \in Sems : Woken(s)' = Woken(s)
  BY SemsAssumption DEF Woken
<1>2. \A s \in Sems : value[s] \in Nat /\ Cardinality(Woken(s)) \in Nat
  BY WokenFinite DEF IInv, Shape, TypeOK
<1>3. QED
  BY <1>1, <1>2 DEF IInv, NoLostWakeup


LEMMA WakeupNext == IInv /\ [Next]_vars => NoLostWakeup'
<1> SUFFICES ASSUME IInv, [Next]_vars
             PROVE  NoLostWakeup'
  OBVIOUS
<1> USE DEF IInv, Shape
<1>0. Shape'
  BY ShapeNext
<1>1. ASSUME NEW t \in Threads, ThreadStep(t)
      PROVE  NoLostWakeup'
  <2>1. CASE Yield(t)
    <3>1. \A u \in Threads : status[u] \in {"READY", "RUNNING"} <=>
                             status'[u] \in {"READY", "RUNNING"}
      <4>1. Head(Append(readyList, t)) = Head(readyList)
        BY <2>1 DEF Yield, TypeOK
      <4>2. QED
        BY <2>1, <4>1, Front DEF Yield, Run, Running, TypeOK
    <3>2. QED
      BY <2>1, <3>1, WakeupSame DEF Yield, semVars, TypeOK
  <2>2. CASE Finish(t)
    <3>1. sem[t] = NoSem
      BY <2>2 DEF Finish, Running, CpuInv
    <3>2. \A u \in Threads : sem[u] # NoSem =>
            (status[u] \in {"READY", "RUNNING"} <=> status'[u] \in {"READY", "RUNNING"})
      BY <2>2, <3>1, Front DEF Finish, Sleep, Run, TypeOK
    <3>3. QED
      BY <2>2, <3>2, WakeupSame DEF Finish, semVars, TypeOK
  <2>3. CASE Resume(t)
    <3>1. \A u \in Threads : sem[u] # NoSem => status'[u] = status[u]
      BY <2>3, ThreadsAssumption DEF Resume, CheckToBeDestroyed, Reaped, CpuInv, TypeOK
    <3>2. QED
      BY <2>3, <3>1, WakeupSame DEF Resume, semVars, TypeOK
  <2>4. CASE IdleRun(t)
    <3>1. \A u \in Threads : status[u] \in {"READY", "RUNNING"} <=>
                             status'[u] \in {"READY", "RUNNING"}
      BY <2>4, Front DEF IdleRun, Run, TypeOK
    <3>2. QED
      BY <2>4, <3>1, WakeupSame DEF IdleRun, semVars, TypeOK
  <2>5. CASE PRetryPass(t)
    BY <2>5, WakeupPRetryPass
  <2>6. CASE PRetryBlock(t)
    <3>1. PICK s \in Sems : s = sem[t]
      BY <2>6 DEF PRetryBlock, TypeOK
    <3>2. QED
      BY <1>0, <2>6, <3>1, WakeupBlock
  <2>7. ASSUME NEW child \in Threads, Fork(t, child)
        PROVE  NoLostWakeup'
    <3>1. \A u \in Threads : sem[u] # NoSem => status'[u] = status[u]
      BY <2>7 DEF Fork, CpuInv, TypeOK
    <3>2. QED
      BY <2>7, <3>1, WakeupSame DEF Fork, semVars, TypeOK
  <2>8. ASSUME NEW s \in Sems, PPass(t, s)
        PROVE  NoLostWakeup'
    <3>1. \A r \in Sems : value'[r] <= value[r] /\ value'[r] \in Nat
      BY <2>8 DEF PPass, TypeOK
    <3>2. QED
      BY <2>8, <3>1, WakeupSame DEF PPass, threadVars
  <2>9. ASSUME NEW s \in Sems, PBlock(t, s)
        PROVE  NoLostWakeup'
    BY <1>0, <2>9, WakeupBlock
  <2>10. ASSUME NEW s \in Sems, V(t, s)
         PROVE  NoLostWakeup'
    BY <2>10, WakeupVBody DEF V
  <2>11. ASSUME NEW s \in Sems, Request(t, s)
         PROVE  NoLostWakeup'
    BY <2>11, WakeupSame DEF Request, threadVars, semVars, TypeOK
  <2>12. CASE IdleTick(t)
    BY <2>12, WakeupSame DEF IdleTick, vars, threadVars, semVars, TypeOK
  <2>13. QED
    BY <1>1, <2>1, <2>2, <2>3, <2>4, <2>5, <2>6, <2>7, <2>8, <2>9, <2>10, <2>11, <2>12
       DEF ThreadStep
<1>2. ASSUME NEW s \in Sems, Interrupt(s)
      PROVE  NoLostWakeup'
  BY <1>2, WakeupVBody DEF Interrupt
<1>3. CASE UNCHANGED vars
  BY <1>3, WakeupSame DEF vars, threadVars, semVars, TypeOK
<1>4. QED
  BY <1>1, <1>2, <1>3 DEF Next

\* No wake-up of Semaphore::V is lost, for any number of threads and
\* semaphores and any interleaving of threads, handlers and time slices.
THEOREM NoLostWakeupTheorem == Spec => []NoLostWakeup
<1>1. Init => IInv
  <2>1. Init => NoLostWakeup
    BY DEF Init, NoLostWakeup
  <2>2. QED
    BY <2>1, ShapeInit DEF IInv
<1>2. IInv /\ [Next]_vars => IInv'
  BY ShapeNext, WakeupNext DEF IInv
<1>3. IInv => NoLostWakeup
  BY DEF IInv
<1>4. QED
  BY <1>1, <1>2, <1>3, PTL DEF Spec


(***************************************************************************)
(* The semaphores implement AbstractSemaphore.                             *)
(***************************************************************************)

\* A step that leaves value and sem alone is a stutter of the abstract one.
LEMMA AbstractStutter ==
  ASSUME UNCHANGED <<value, sem>>
  PROVE  UNCHANGED Abstract!vars
  BY DEF Abstract!vars

\* Every step of the kernel is a P, a V or a stutter of the abstract semaphore.
LEMMA AbstractStep ==
  ASSUME Shape, [Next]_vars
  PROVE  [Abstract!Next]_(Abstract!vars)
<1> DEFINE inside == [s \in Sems |-> {t \in Threads : sem[t] = s}]
<1> USE DEF Shape
<1>1. ASSUME NEW t \in Threads, ThreadStep(t)
      PROVE  Abstract!Next \/ UNCHANGED Abstract!vars
  <2>1. CASE Yield(t) \/ Finish(t) \/ Resume(t) \/ IdleRun(t) \/ IdleTick(t) \/ PRetryBlock(t)
    BY <2>1, AbstractStutter
       DEF Yield, Finish, Resume, IdleRun, IdleTick, PRetryBlock, vars, semVars
  <2>2. ASSUME NEW child \in Threads, Fork(t, child)
        PROVE  UNCHANGED Abstract!vars
    BY <2>2, AbstractStutter DEF Fork, semVars
  <2>3. ASSUME NEW s \in Sems, Request(t, s)
        PROVE  UNCHANGED Abstract!vars
    BY <2>3, AbstractStutter DEF Request, semVars
  <2>4. ASSUME NEW s \in Sems, V(t, s)
        PROVE  Abstract!V(s)
    BY <2>4 DEF V, VBody, Abstract!V
  <2>5. ASSUME NEW s \in Sems, PPass(t, s)
        PROVE  Abstract!PNow(t, s)
    <3>1. sem[t] = NoSem
      BY <2>5 DEF PPass, Running, CpuInv
    <3>2. QED
      BY <2>5, <3>1, SemsAssumption DEF PPass, Abstract!PNow, Abstract!Free
  <2>6. ASSUME NEW s \in Sems, PBlock(t, s)
        PROVE  Abstract!PEnter(t, s)
    <3>1. sem[t] = NoSem
      BY <2>6 DEF PBlock, Running, CpuInv
    <3>2. sem' = [sem EXCEPT ![t] = s] /\ value[s] = 0 /\ UNCHANGED value
      BY <2>6 DEF PBlock
    <3>3. inside' = [inside EXCEPT ![s] = @ \cup {t}]
      <4>1. /\ sem'[t] = s
            /\ \A u \in Threads \ {t} : sem'[u] = sem[u]
        BY <3>2 DEF TypeOK
      <4>2. \A r \in Sems : {u \in Threads : sem'[u] = r} =
              IF r = s THEN {u \in Threads : sem[u] = r} \cup {t}
                       ELSE {u \in Threads : sem[u] = r}
        BY <3>1, <4>1, SemsAssumption
      <4>3. QED
        BY <4>2
    <3>4. QED
      BY <3>1, <3>2, <3>3, SemsAssumption DEF Abstract!PEnter, Abstract!Free
  <2>7. CASE PRetryPass(t)
    <3>1. PICK s \in Sems : s = sem[t]
      BY <2>7 DEF PRetryPass, TypeOK
    <3>2. /\ sem' = [sem EXCEPT ![t] = NoSem]
          /\ value[s] # 0
          /\ value' = [value EXCEPT ![s] = @ - 1]
      BY <2>7, <3>1 DEF PRetryPass
    <3>3. inside' = [inside EXCEPT ![s] = @ \ {t}]
      <4>1. /\ sem'[t] = NoSem
            /\ \A u \in Threads \ {t} : sem'[u] = sem[u]
        BY <3>2 DEF TypeOK
      <4>2. \A r \in Sems : {u \in Threads : sem'[u] = r} =
              IF r = s THEN {u \in Threads : sem[u] = r} \ {t}
                       ELSE {u \in Threads : sem[u] = r}
        BY <3>1, <4>1, SemsAssumption
      <4>3. QED
        BY <4>2
    <3>4. Abstract!PLeave(t, s)
      BY <3>1, <3>2, <3>3 DEF Abstract!PLeave
    <3>5. QED
      BY <3>4 DEF Abstract!Next
  <2>8. QED
    BY <1>1, <2>1, <2>2, <2>3, <2>4, <2>5, <2>6, <2>7 DEF ThreadStep, Abstract!Next
<1>2. ASSUME NEW s \in Sems, Interrupt(s)
      PROVE  Abstract!V(s)
  BY <1>2 DEF Interrupt, VBody, Abstract!V
<1>3. CASE UNCHANGED vars
  BY <1>3, AbstractStutter DEF vars, semVars
<1>4. QED
  BY <1>1, <1>2, <1>3 DEF Next, Abstract!Next

\* The kernel's semaphores implement the abstract semaphores: queues, wake-ups
\* that find nothing and time slices are invisible to the callers of P and V.
THEOREM ImplementsTheorem == Spec => ImplementsSemaphore
<1>1. Init => Abstract!Init
  BY SemsAssumption DEF Init, Abstract!Init
<1>2. Shape /\ [Next]_vars => [Abstract!Next]_(Abstract!vars)
  BY AbstractStep
<1>3. QED
  BY <1>1, <1>2, ShapeInvariant, PTL DEF Spec, ImplementsSemaphore, Abstract!Spec

=============================================================================
