------------------------- MODULE ProcessTableProofs -------------------------
(***************************************************************************)
(* Proofs about ProcessTable, for a table of any size.                     *)
(*                                                                         *)
(* Tree is the inductive invariant: what an Exec or a Join under way knows *)
(* of the pid it is about, and that a pid without a PCB has no thread and  *)
(* no joinsem unit.  JoinAfterExit is a part of it.  On top of it the two  *)
(* counting invariants are inductive, because each action moves at most    *)
(* one process into Joined or Released and that process has one parent.    *)
(***************************************************************************)
EXTENDS ProcessTable, FiniteSetTheorems, WellFoundedInduction, TLAPS

\* FindAndSet returns a clear bit, and -1 only when there is none.
LEMMA FindAndSetFree == FindAndSet # -1 => FindAndSet \in Free
<1>1. SUFFICES ASSUME Free # {} PROVE Min(Free) \in Free
  BY DEF FindAndSet
<1>2. Free \subseteq Nat
  BY SizeAssumption DEF Free, Pids
<1>3. PICK x \in Free : \A y \in Free : ~ (<<y, x>> \in OpToRel(<, Nat))
  BY <1>1, <1>2, NatLessThanWellFounded, WFMin, Zenon
<1>4. \A y \in Free : x =< y
  <2>1. TAKE y \in Free
  <2>2. <<y, x>> \in Nat \X Nat /\ ~ (<<y, x>> \in OpToRel(<, Nat))
    BY <1>2, <1>3
  <2>3. ~ (y < x)
    BY <2>2 DEF OpToRel
  <2>4. QED
    BY <2>3, <1>2
<1>5. QED
  BY <1>3, <1>4 DEF Min

-----------------------------------------------------------------------------
Types ==
  /\ parentID \in [Pids -> Pids \cup {None}]
  /\ bmsem \in Int
  /\ joinsem \in [Pids -> {0, 1}]
  /\ exitsem \in [Pids -> Int]
  /\ multex \in [Pids -> Int]
  /\ numwait \in [Pids -> Int]
  /\ pc \in [Pids -> PC]
  /\ arg \in [Pids -> Pids \cup {None}]

Joining == {"join_inc", "join_num", "join_rel"}
Execing == {"exec_multex", "exec_fork", "exec_v"}
Leaving == {"exit_dec", "exit_num", "exit_wait", "exit_fin", "finished"}

\* The pid an Exec or a Join is about is a child of the caller; before the
\* Fork that child has no thread.
Arguments ==
  \A p \in Pids :
    /\ pc[p] \in Execing \cup Joining \cup {"join_wait"}
         => arg[p] \in Pids /\ parentID[arg[p]] = p
    /\ pc[p] \in {"exec_multex", "exec_fork"} => pc[arg[p]] = "none" /\ arg[p] # p

\* A pid without a PCB has no thread and no children, and process 0 never
\* waits to leave.
Threads ==
  /\ \A c \in Pids : parentID[c] = None => pc[c] = "none"
  /\ \A c \in Pids : parentID[c] # None => parentID[parentID[c]] # None
  /\ \A c \in Pids : c = 0 => parentID[c] = 0 /\ pc[c] \notin Leaving

Tree == Types /\ Arguments /\ Threads /\ JoinAfterExit

LEMMA PidsLemma == 0 \in Pids /\ Pids \subseteq Int /\ None \notin Pids
BY SizeAssumption DEF Pids, None

LEMMA TreeInit == Init => Tree
<1> SUFFICES ASSUME Init PROVE Tree
  OBVIOUS
<1> USE PidsLemma DEF Init
<1>1. Types
  BY DEF Types, PC
<1>2. Arguments
  BY DEF Arguments, Execing, Joining
<1>3. Threads
  BY DEF Threads, Leaving, None
<1>4. JoinAfterExit
  BY DEF JoinAfterExit
<1>5. QED
  BY <1>1, <1>2, <1>3, <1>4 DEF Tree

LEMMA TreeStep == Tree /\ [Next]_vars => Tree'
<1> SUFFICES ASSUME Tree, [Next]_vars PROVE Tree'
  OBVIOUS
<1> USE PidsLemma DEF Tree, At, Goto, Return, P, V, sems
<1>0. CASE UNCHANGED vars
  BY <1>0 DEF vars, Types, Arguments, Threads, JoinAfterExit, Exited, Joined
<1>1. ASSUME NEW p \in Pids, ExecMissing(p) PROVE Tree'
  BY <1>1 DEF ExecMissing, Types, Arguments, Threads, JoinAfterExit, Exited, Joined, PC, Execing, Joining, Leaving
<1>2. ASSUME NEW p \in Pids, ExecCall(p) PROVE Tree'
  BY <1>2 DEF ExecCall, Types, Arguments, Threads, JoinAfterExit, Exited, Joined, PC, Execing, Joining, Leaving
<1>3. ASSUME NEW p \in Pids, Halt(p) PROVE Tree'
  BY <1>3 DEF Halt, Types, Arguments, Threads, JoinAfterExit, Exited, Joined, PC, Execing, Joining, Leaving
<1>4. ASSUME NEW p \in Pids, NEW c \in Pids, JoinRefused(p, c) PROVE Tree'
  BY <1>4 DEF JoinRefused, Types, Arguments, Threads, JoinAfterExit, Exited, Joined, PC, Execing, Joining, Leaving
<1>5. ASSUME NEW p \in Pids, NEW c \in Pids, JoinCall(p, c) PROVE Tree'
  BY <1>5 DEF JoinCall, Types, Arguments, Threads, JoinAfterExit, Exited, Joined, PC, Execing, Joining, Leaving
<1>6. ASSUME NEW p \in Pids, NEW ec \in ExitCodes, ExitCall(p, ec) PROVE Tree'
  BY <1>6 DEF ExitCall, Types, Arguments, Threads, JoinAfterExit, Exited, Joined, PC, Execing, Joining, Leaving
<1>7. ASSUME NEW p \in Pids, ExecLock(p) PROVE Tree'
  BY <1>7 DEF ExecLock, Types, Arguments, Threads, JoinAfterExit, Exited, Joined, PC, Execing, Joining, Leaving
<1>8. ASSUME NEW p \in Pids, ExecFull(p) PROVE Tree'
  BY <1>8 DEF ExecFull, Types, Arguments, Threads, JoinAfterExit, Exited, Joined, PC, Execing, Joining, Leaving
<1>9. ASSUME NEW p \in Pids, ExecNew(p) PROVE Tree'
  <2> DEFINE c == FindAndSet
  <2>1. c \in Pids /\ parentID[c] = None /\ c # p /\ c # 0
    BY <1>9, FindAndSetFree DEF ExecNew, Free, Threads
  <2> HIDE DEF c
  <2>2. /\ parentID' = [parentID EXCEPT ![c] = p]
        /\ joinsem' = [joinsem EXCEPT ![c] = 0]
        /\ exitsem' = [exitsem EXCEPT ![c] = 0]
        /\ multex' = [multex EXCEPT ![c] = 1]
        /\ numwait' = [numwait EXCEPT ![c] = 0]
        /\ arg' = [arg EXCEPT ![p] = c]
        /\ bmsem' = bmsem + 1
        /\ pc' = [pc EXCEPT ![p] = "exec_multex"]
        /\ pc[p] = "exec_new"
    BY <1>9 DEF ExecNew, NewPCB, c
  <2>3. Types'
    BY <2>1, <2>2 DEF Types, PC
  <2>4. Threads'
    BY <2>1, <2>2 DEF Types, Threads, Leaving
  <2>5. Arguments'
    BY <2>1, <2>2 DEF Types, Threads, Arguments, Execing, Joining
  <2>6. JoinAfterExit'
    BY <2>1, <2>2 DEF Types, Threads, JoinAfterExit, Exited, Joined
  <2>7. QED
    BY <2>3, <2>4, <2>5, <2>6
<1>10. ASSUME NEW p \in Pids, ExecMultex(p) PROVE Tree'
  <2>1. PICK c \in Pids : c = arg[p] /\ parentID[c] = p
    BY <1>10 DEF ExecMultex, Types, Arguments, Execing
  <2>2. /\ pc[p] = "exec_multex"
        /\ multex' = [multex EXCEPT ![c] = @ - 1]
        /\ pc' = [pc EXCEPT ![p] = "exec_fork"]
        /\ UNCHANGED <<parentID, bmsem, joinsem, exitsem, numwait, arg>>
    BY <1>10, <2>1 DEF ExecMultex
  <2>3. Types'
    BY <2>1, <2>2 DEF Types, PC
  <2>4. Arguments'
    BY <2>1, <2>2 DEF Types, Arguments, Execing, Joining
  <2>5. Threads'
    BY <2>1, <2>2 DEF Types, Threads, Leaving
  <2>6. JoinAfterExit'
    BY <2>1, <2>2 DEF Types, JoinAfterExit, Exited, Joined
  <2>7. QED
    BY <2>3, <2>4, <2>5, <2>6
<1>11. ASSUME NEW p \in Pids, ExecFork(p) PROVE Tree'
  <2>1. PICK c \in Pids : c = arg[p] /\ parentID[c] = p
    BY <1>11 DEF ExecFork, Types, Arguments, Execing
  <2>2. /\ pc[p] = "exec_fork" /\ pc[c] = "none" /\ c # p
        /\ pc' = [pc EXCEPT ![p] = "exec_v", ![c] = "loading"]
        /\ UNCHANGED <<parentID, sems, numwait, arg>>
    BY <1>11, <2>1 DEF ExecFork, Arguments
  <2>3. Types'
    BY <2>1, <2>2 DEF Types, PC
  <2>4. Arguments'
    <3>1. SUFFICES ASSUME NEW q \in Pids
                   PROVE  /\ pc'[q] \in Execing \cup Joining \cup {"join_wait"}
                               => arg[q] \in Pids /\ parentID[arg[q]] = q
                          /\ pc'[q] \in {"exec_multex", "exec_fork"}
                               => pc'[arg[q]] = "none" /\ arg[q] # q
      BY <2>2 DEF Arguments
    <3>2. CASE q = p
      BY <2>1, <2>2, <3>2 DEF Types
    <3>3. CASE q = c
      BY <2>1, <2>2, <3>3 DEF Types, Execing, Joining
    <3>4. CASE q # p /\ q # c
      <4>1. pc'[q] = pc[q]
        BY <2>2, <3>4 DEF Types
      <4>2. pc[q] \in {"exec_multex", "exec_fork"} => arg[q] # c /\ arg[q] # p
        BY <2>1, <2>2, <3>4 DEF Arguments, Execing
      <4>3. QED
        BY <2>1, <2>2, <4>1, <4>2 DEF Types, Arguments, Execing
    <3>5. QED
      BY <3>2, <3>3, <3>4
  <2>5. Threads'
    BY <2>1, <2>2 DEF Types, Threads, Leaving
  <2>6. JoinAfterExit'
    BY <2>1, <2>2 DEF Types, JoinAfterExit, Exited, Joined
  <2>7. QED
    BY <2>3, <2>4, <2>5, <2>6
<1>12. ASSUME NEW p \in Pids, ExecV(p) PROVE Tree'
  <2>1. PICK c \in Pids : c = arg[p] /\ parentID[c] = p
    BY <1>12 DEF ExecV, Types, Arguments, Execing
  <2>2. /\ pc[p] = "exec_v"
        /\ multex' = [multex EXCEPT ![c] = @ + 1]
        /\ pc' = [pc EXCEPT ![p] = "user"]
        /\ arg' = [arg EXCEPT ![p] = None]
        /\ UNCHANGED <<parentID, bmsem, joinsem, exitsem, numwait>>
    BY <1>12, <2>1 DEF ExecV
  <2>3. Types'
    BY <2>1, <2>2 DEF Types, PC
  <2>4. Arguments'
    BY <2>1, <2>2 DEF Types, Arguments, Execing, Joining
  <2>5. Threads'
    BY <2>1, <2>2 DEF Types, Threads, Leaving
  <2>6. JoinAfterExit'
    BY <2>1, <2>2 DEF Types, JoinAfterExit, Exited, Joined
  <2>7. QED
    BY <2>3, <2>4, <2>5, <2>6
<1>13. ASSUME NEW p \in Pids, LoadOk(p) PROVE Tree'
  BY <1>13 DEF LoadOk, Types, Arguments, Threads, JoinAfterExit, Exited, Joined, PC, Execing, Joining, Leaving
<1>14. ASSUME NEW p \in Pids, LoadFails(p) PROVE Tree'
  BY <1>14 DEF LoadFails, Types, Arguments, Threads, JoinAfterExit, Exited, Joined, PC, Execing, Joining, Leaving
<1>15. ASSUME NEW p \in Pids, JoinWait(p) PROVE Tree'
  <2>1. PICK c \in Pids : c = arg[p] /\ parentID[c] = p
    BY <1>15 DEF JoinWait, Types, Arguments, Execing
  <2>2. /\ pc[p] = "join_wait" /\ joinsem[c] # 0
        /\ joinsem' = [joinsem EXCEPT ![c] = @ - 1]
        /\ pc' = [pc EXCEPT ![p] = "join_inc"]
        /\ UNCHANGED <<parentID, bmsem, multex, exitsem, numwait, arg>>
    BY <1>15, <2>1 DEF JoinWait
  <2>3. Types'
    BY <2>1, <2>2 DEF Types, PC
  <2>4. Arguments'
    BY <2>1, <2>2 DEF Types, Arguments, Execing, Joining
  <2>5. Threads'
    BY <2>1, <2>2 DEF Types, Threads, Leaving
  <2>6. JoinAfterExit'
    BY <2>1, <2>2 DEF Types, JoinAfterExit, Exited, Joined
  <2>7. QED
    BY <2>3, <2>4, <2>5, <2>6
<1>16. ASSUME NEW p \in Pids, JoinMultex(p) PROVE Tree'
  BY <1>16 DEF JoinMultex, Types, Arguments, Threads, JoinAfterExit, Exited, Joined, PC, Execing, Joining, Leaving
<1>17. ASSUME NEW p \in Pids, IncNumWait(p) PROVE Tree'
  BY <1>17 DEF IncNumWait, Types, Arguments, Threads, JoinAfterExit, Exited, Joined, PC, Execing, Joining, Leaving
<1>18. ASSUME NEW p \in Pids, JoinRelease(p) PROVE Tree'
  BY <1>18 DEF JoinRelease, Types, Arguments, Threads, JoinAfterExit, Exited, Joined, PC, Execing, Joining, Leaving
<1>19. ASSUME NEW p \in Pids, ExitMultex(p) PROVE Tree'
  <2>1. PICK c \in Pids : c = parentID[p] /\ p # 0
    BY <1>19 DEF ExitMultex, Types, Threads, Leaving
  <2>2. /\ pc[p] = "exit_dec"
        /\ multex' = [multex EXCEPT ![c] = @ - 1]
        /\ pc' = [pc EXCEPT ![p] = "exit_num"]
        /\ UNCHANGED <<parentID, bmsem, joinsem, exitsem, numwait, arg>>
    BY <1>19, <2>1 DEF ExitMultex
  <2>3. Types'
    BY <2>1, <2>2 DEF Types, PC
  <2>4. Arguments'
    BY <2>1, <2>2 DEF Types, Arguments, Execing, Joining
  <2>5. Threads'
    BY <2>1, <2>2 DEF Types, Threads, Leaving
  <2>6. JoinAfterExit'
    BY <2>1, <2>2 DEF Types, JoinAfterExit, Exited, Joined
  <2>7. QED
    BY <2>3, <2>4, <2>5, <2>6
<1>20. ASSUME NEW p \in Pids, DecNumWait(p) PROVE Tree'
  <2>1. PICK c \in Pids : c = parentID[p] /\ p # 0
    BY <1>20 DEF DecNumWait, Types, Threads, Leaving
  <2>2. /\ pc[p] = "exit_num"
        /\ numwait' = [numwait EXCEPT ![c] = @ - 1]
        /\ multex' = [multex EXCEPT ![c] = @ + 1]
        /\ pc' = [pc EXCEPT ![p] = "exit_wait"]
        /\ UNCHANGED <<parentID, bmsem, joinsem, exitsem, arg>>
    BY <1>20, <2>1 DEF DecNumWait
  <2>3. Types'
    BY <2>1, <2>2 DEF Types, PC
  <2>4. Arguments'
    BY <2>1, <2>2 DEF Types, Arguments, Execing, Joining
  <2>5. Threads'
    BY <2>1, <2>2 DEF Types, Threads, Leaving
  <2>6. JoinAfterExit'
    BY <2>1, <2>2 DEF Types, JoinAfterExit, Exited, Joined
  <2>7. QED
    BY <2>3, <2>4, <2>5, <2>6
<1>21. ASSUME NEW p \in Pids, ExitWait(p) PROVE Tree'
  <2>1. PICK c \in Pids : c = parentID[p] /\ p # 0
    BY <1>21 DEF ExitWait, Types, Threads, Leaving
  <2>2. /\ pc[p] = "exit_wait"
        /\ exitsem' = [exitsem EXCEPT ![c] = @ - 1]
        /\ pc' = [pc EXCEPT ![p] = "exit_fin"]
        /\ UNCHANGED <<parentID, bmsem, joinsem, multex, numwait, arg>>
    BY <1>21, <2>1 DEF ExitWait
  <2>3. Types'
    BY <2>1, <2>2 DEF Types, PC
  <2>4. Arguments'
    BY <2>1, <2>2 DEF Types, Arguments, Execing, Joining
  <2>5. Threads'
    BY <2>1, <2>2 DEF Types, Threads, Leaving
  <2>6. JoinAfterExit'
    BY <2>1, <2>2 DEF Types, JoinAfterExit, Exited, Joined
  <2>7. QED
    BY <2>3, <2>4, <2>5, <2>6
<1>22. ASSUME NEW p \in Pids, Finish(p) PROVE Tree'
  BY <1>22 DEF Finish, Types, Arguments, Threads, JoinAfterExit, Exited, Joined, PC, Execing, Joining, Leaving
<1>23. QED
  BY <1>0, <1>1, <1>2, <1>3, <1>4, <1>5, <1>6, <1>7, <1>8, <1>9, <1>10, <1>11, <1>12,
     <1>13, <1>14, <1>15, <1>16, <1>17, <1>18, <1>19, <1>20, <1>21, <1>22 DEF Next, Kernel

LEMMA TreeInvariant == Spec => []Tree
<1>1. QED
  BY TreeInit, TreeStep, PTL DEF Spec

\* A Join gets past JoinWait only once the child has called Exit, and each exit
\* serves one Join: PTable::JoinUpdate and ExitUpdate, for a table of any size.
THEOREM JoinAfterExitTheorem == Spec => []JoinAfterExit
<1>1. Tree => JoinAfterExit
  BY DEF Tree
<1>2. QED
  BY <1>1, TreeInvariant, PTL

\* A pid is never given to a second process: ExecUpdate takes only clear bits
\* and no code clears one.
THEOREM PidForeverTheorem == Spec => PidForever
<1>1. ASSUME Tree, [Next]_vars, NEW c \in Pids, parentID[c] # None
      PROVE  parentID'[c] = parentID[c]
  <2>1. ASSUME NEW p \in Pids, ExecNew(p) PROVE parentID'[c] = parentID[c]
    <3>1. FindAndSet # c
      BY <1>1, <2>1, FindAndSetFree DEF ExecNew, Free
    <3>2. QED
      BY <1>1, <2>1, <3>1 DEF ExecNew, NewPCB, Tree, Types
  <2>2. QED
    BY <1>1, <2>1
    DEF vars, sems, Next, Kernel, ExecMissing, ExecCall, Halt, JoinRefused, JoinCall,
        ExitCall, ExecLock, ExecFull, ExecMultex, ExecFork, ExecV, LoadOk, LoadFails,
        JoinWait, JoinMultex, IncNumWait, JoinRelease, ExitMultex, DecNumWait,
        ExitWait, Finish
<1>2. Tree /\ [Next]_vars
        => [\A c \in Pids : parentID[c] # None => parentID'[c] = parentID[c]]_vars
  BY <1>1
<1>3. QED
  BY <1>2, TreeInvariant, PTL DEF Spec, PidForever

-----------------------------------------------------------------------------
(* Counting. *)

Kept(p) == Children(p) \cap Joined
Gone(p) == Children(p) \cap Released
Counted == {"exit_wait", "exit_fin", "finished"}
Deducted(p) == {c \in Children(p) : pc[c] \in Counted}
MidJoin(p) == IF pc[p] \in Joining THEN 1 ELSE 0
MidInc(p) == IF pc[p] \in {"join_inc", "join_num"} THEN 1 ELSE 0

\* ReleasePerJoin and NumWaitExact, for one process.
Counts(p) ==
  /\ Cardinality(Kept(p)) = Cardinality(Gone(p)) + exitsem[p] + MidJoin(p)
  /\ numwait[p] = Cardinality(Kept(p)) - MidInc(p) - Cardinality(Deducted(p))

LEMMA CountsLemma == (\A p \in Pids : Counts(p)) => ReleasePerJoin /\ NumWaitExact
BY DEF Counts, Kept, Gone, Deducted, Counted, MidJoin, MidInc, Joining, ReleasePerJoin, NumWaitExact

LEMMA FiniteLemma ==
  \A p \in Pids : /\ IsFiniteSet(Children(p))
                  /\ IsFiniteSet(Kept(p)) /\ Cardinality(Kept(p)) \in Nat
                  /\ IsFiniteSet(Gone(p)) /\ Cardinality(Gone(p)) \in Nat
                  /\ IsFiniteSet(Deducted(p)) /\ Cardinality(Deducted(p)) \in Nat
<1>1. IsFiniteSet(Pids)
  BY SizeAssumption, FS_Interval DEF Pids
<1>2. TAKE p \in Pids
<1>3. Children(p) \subseteq Pids /\ Kept(p) \subseteq Pids /\ Gone(p) \subseteq Pids /\ Deducted(p) \subseteq Pids
  BY DEF Children, Kept, Gone, Deducted
<1>4. IsFiniteSet(Children(p)) /\ IsFiniteSet(Kept(p)) /\ IsFiniteSet(Gone(p)) /\ IsFiniteSet(Deducted(p))
  BY <1>1, <1>3, FS_Subset
<1>5. QED
  BY <1>4, FS_CardinalityType

\* What Counts(p) speaks of is left alone.
Still(p) ==
  /\ Kept(p)' = Kept(p) /\ Gone(p)' = Gone(p) /\ Deducted(p)' = Deducted(p)
  /\ exitsem'[p] = exitsem[p] /\ numwait'[p] = numwait[p]
  /\ MidJoin(p)' = MidJoin(p) /\ MidInc(p)' = MidInc(p)

LEMMA StillCounts == ASSUME NEW p \in Pids, Counts(p), Still(p) PROVE Counts(p)'
BY DEF Counts, Still

\* The thread of c stays on the same side of each line the counts draw.
SameSide(c) ==
  /\ pc'[c] \in Leaving <=> pc[c] \in Leaving
  /\ pc'[c] \in Counted <=> pc[c] \in Counted
  /\ pc'[c] \in {"exit_fin", "finished"} <=> pc[c] \in {"exit_fin", "finished"}
  /\ pc'[c] \in Joining <=> pc[c] \in Joining
  /\ pc'[c] \in {"join_inc", "join_num"} <=> pc[c] \in {"join_inc", "join_num"}

LEMMA SetsLemma ==
  ASSUME UNCHANGED parentID, NEW p \in Pids
  PROVE  /\ UNCHANGED joinsem /\ (\A c \in Pids : pc'[c] \in Leaving <=> pc[c] \in Leaving)
              => Kept(p)' = Kept(p)
         /\ (\A c \in Pids : pc'[c] \in {"exit_fin", "finished"} <=> pc[c] \in {"exit_fin", "finished"})
              => Gone(p)' = Gone(p)
         /\ (\A c \in Pids : pc'[c] \in Counted <=> pc[c] \in Counted)
              => Deducted(p)' = Deducted(p)
<1>0. Children(p)' = Children(p) /\ Children(p) \subseteq Pids
  BY DEF Children
<1>1. ASSUME UNCHANGED joinsem, \A c \in Pids : pc'[c] \in Leaving <=> pc[c] \in Leaving
      PROVE  Kept(p)' = Kept(p)
  <2>1. Joined' = Joined
    BY <1>1 DEF Joined, Exited, Leaving
  <2>2. QED
    BY <1>0, <2>1 DEF Kept
<1>2. ASSUME \A c \in Pids : pc'[c] \in {"exit_fin", "finished"} <=> pc[c] \in {"exit_fin", "finished"}
      PROVE  Gone(p)' = Gone(p)
  <2>1. Released' = Released
    BY <1>2 DEF Released
  <2>2. QED
    BY <1>0, <2>1 DEF Gone
<1>3. ASSUME \A c \in Pids : pc'[c] \in Counted <=> pc[c] \in Counted
      PROVE  Deducted(p)' = Deducted(p)
  BY <1>0, <1>3 DEF Deducted
<1>4. QED
  BY <1>1, <1>2, <1>3

\* A step that only moves threads, none across a line, disturbs no count.
LEMMA QuietLemma ==
  ASSUME UNCHANGED <<parentID, joinsem, exitsem, numwait>>, \A c \in Pids : SameSide(c)
  PROVE  \A p \in Pids : Still(p)
BY SetsLemma DEF Still, SameSide, MidJoin, MidInc

LEMMA CountsInit == Init => \A p \in Pids : Counts(p)
<1> SUFFICES ASSUME Init, NEW p \in Pids PROVE Counts(p)
  OBVIOUS
<1>1. Kept(p) = {} /\ Gone(p) = {} /\ Deducted(p) = {}
  BY DEF Init, Kept, Gone, Deducted, Counted, Children, Joined, Exited, Released
<1>2. MidJoin(p) = 0 /\ MidInc(p) = 0 /\ exitsem[p] = 0 /\ numwait[p] = 0
  BY DEF Init, MidJoin, MidInc, Joining
<1>3. QED
  BY <1>1, <1>2, FS_EmptySet DEF Counts

LEMMA CountsStep == ASSUME Tree, \A p \in Pids : Counts(p), [Next]_vars
                    PROVE  \A p \in Pids : Counts(p)'
<1> USE PidsLemma DEF At, Goto, Return, P, V, sems
<1> Types /\ Arguments /\ Threads /\ JoinAfterExit
  BY DEF Tree
<1>s. SUFFICES (\A q \in Pids : Still(q)) \/ (\A p \in Pids : Counts(p)')
  BY StillCounts
<1>0. CASE UNCHANGED vars
  <2>1. \A c \in Pids : SameSide(c)
    BY <1>0 DEF vars, SameSide
  <2>2. QED
    BY <1>0, <2>1, QuietLemma DEF vars
<1>1. ASSUME NEW p \in Pids, ExecMissing(p) PROVE \A q \in Pids : Still(q)
  <2>1. \A c \in Pids : SameSide(c)
    BY <1>1 DEF ExecMissing, Types, SameSide, Leaving, Counted, Joining
  <2>2. QED
    BY <1>1, <2>1, QuietLemma DEF ExecMissing
<1>2. ASSUME NEW p \in Pids, ExecCall(p) PROVE \A q \in Pids : Still(q)
  <2>1. \A c \in Pids : SameSide(c)
    BY <1>2 DEF ExecCall, Types, SameSide, Leaving, Counted, Joining
  <2>2. QED
    BY <1>2, <2>1, QuietLemma DEF ExecCall
<1>3. ASSUME NEW p \in Pids, Halt(p) PROVE \A q \in Pids : Still(q)
  <2>1. \A c \in Pids : SameSide(c)
    BY <1>3 DEF Halt, Types, SameSide, Leaving, Counted, Joining
  <2>2. QED
    BY <1>3, <2>1, QuietLemma DEF Halt
<1>4. ASSUME NEW p \in Pids, ExecLock(p) PROVE \A q \in Pids : Still(q)
  <2>1. \A c \in Pids : SameSide(c)
    BY <1>4 DEF ExecLock, Types, SameSide, Leaving, Counted, Joining
  <2>2. QED
    BY <1>4, <2>1, QuietLemma DEF ExecLock
<1>5. ASSUME NEW p \in Pids, ExecFull(p) PROVE \A q \in Pids : Still(q)
  <2>1. \A c \in Pids : SameSide(c)
    BY <1>5 DEF ExecFull, Types, SameSide, Leaving, Counted, Joining
  <2>2. QED
    BY <1>5, <2>1, QuietLemma DEF ExecFull
<1>6. ASSUME NEW p \in Pids, ExecMultex(p) PROVE \A q \in Pids : Still(q)
  <2>1. \A c \in Pids : SameSide(c)
    BY <1>6 DEF ExecMultex, Types, SameSide, Leaving, Counted, Joining
  <2>2. QED
    BY <1>6, <2>1, QuietLemma DEF ExecMultex
<1>7. ASSUME NEW p \in Pids, ExecV(p) PROVE \A q \in Pids : Still(q)
  <2>1. \A c \in Pids : SameSide(c)
    BY <1>7 DEF ExecV, Types, SameSide, Leaving, Counted, Joining
  <2>2. QED
    BY <1>7, <2>1, QuietLemma DEF ExecV
<1>8. ASSUME NEW p \in Pids, LoadOk(p) PROVE \A q \in Pids : Still(q)
  <2>1. \A c \in Pids : SameSide(c)
    BY <1>8 DEF LoadOk, Types, SameSide, Leaving, Counted, Joining
  <2>2. QED
    BY <1>8, <2>1, QuietLemma DEF LoadOk
<1>9. ASSUME NEW p \in Pids, LoadFails(p) PROVE \A q \in Pids : Still(q)
  <2>1. \A c \in Pids : SameSide(c)
    BY <1>9 DEF LoadFails, Types, SameSide, Leaving, Counted, Joining
  <2>2. QED
    BY <1>9, <2>1, QuietLemma DEF LoadFails
<1>10. ASSUME NEW p \in Pids, JoinMultex(p) PROVE \A q \in Pids : Still(q)
  <2>1. \A c \in Pids : SameSide(c)
    BY <1>10 DEF JoinMultex, Types, SameSide, Leaving, Counted, Joining
  <2>2. QED
    BY <1>10, <2>1, QuietLemma DEF JoinMultex
<1>11. ASSUME NEW p \in Pids, ExitMultex(p) PROVE \A q \in Pids : Still(q)
  <2>1. \A c \in Pids : SameSide(c)
    BY <1>11 DEF ExitMultex, Types, SameSide, Leaving, Counted, Joining
  <2>2. QED
    BY <1>11, <2>1, QuietLemma DEF ExitMultex
<1>12. ASSUME NEW p \in Pids, Finish(p) PROVE \A q \in Pids : Still(q)
  <2>1. \A c \in Pids : SameSide(c)
    BY <1>12 DEF Finish, Types, SameSide, Leaving, Counted, Joining
  <2>2. QED
    BY <1>12, <2>1, QuietLemma DEF Finish
<1>13. ASSUME NEW p \in Pids, NEW c \in Pids, JoinRefused(p, c) PROVE \A q \in Pids : Still(q)
  <2>1. \A d \in Pids : SameSide(d)
    BY <1>13 DEF JoinRefused, Types, SameSide, Leaving, Counted, Joining
  <2>2. QED
    BY <1>13, <2>1, QuietLemma DEF JoinRefused
<1>14. ASSUME NEW p \in Pids, NEW c \in Pids, JoinCall(p, c) PROVE \A q \in Pids : Still(q)
  <2>1. \A d \in Pids : SameSide(d)
    BY <1>14 DEF JoinCall, Types, SameSide, Leaving, Counted, Joining
  <2>2. QED
    BY <1>14, <2>1, QuietLemma DEF JoinCall
<1>15. ASSUME NEW p \in Pids, ExecFork(p) PROVE \A q \in Pids : Still(q)
  <2>1. PICK k \in Pids : k = arg[p] /\ pc[k] = "none" /\ k # p
    BY <1>15 DEF ExecFork, Types, Arguments, Execing
  <2>2. pc[p] = "exec_fork" /\ pc' = [pc EXCEPT ![p] = "exec_v", ![k] = "loading"]
    BY <1>15, <2>1 DEF ExecFork
  <2>3. \A c \in Pids : SameSide(c)
    BY <2>1, <2>2 DEF Types, SameSide, Leaving, Counted, Joining
  <2>4. QED
    BY <1>15, <2>3, QuietLemma DEF ExecFork
<1>16. ASSUME NEW p \in Pids, ExecNew(p) PROVE \A q \in Pids : Counts(q)'
  <2> DEFINE k == FindAndSet
  <2>1. k \in Pids /\ parentID[k] = None /\ pc[k] = "none" /\ k # p
    BY <1>16, FindAndSetFree DEF ExecNew, Free, Threads
  <2> HIDE DEF k
  <2>2. /\ pc[p] = "exec_new"
        /\ parentID' = [parentID EXCEPT ![k] = p]
        /\ joinsem' = [joinsem EXCEPT ![k] = 0]
        /\ exitsem' = [exitsem EXCEPT ![k] = 0]
        /\ numwait' = [numwait EXCEPT ![k] = 0]
        /\ pc' = [pc EXCEPT ![p] = "exec_multex"]
    BY <1>16 DEF ExecNew, NewPCB, k
  <2>3. Joined' = Joined /\ Released' = Released /\ k \notin Joined /\ k \notin Released
    BY <2>1, <2>2 DEF Types, Joined, Exited, Released
  <2>4. \A q \in Pids : Children(q)' \ {k} = Children(q) /\ k \notin Children(q)
    BY <2>1, <2>2 DEF Types, Children
  <2>5. \A q \in Pids : Kept(q)' = Kept(q) /\ Gone(q)' = Gone(q)
    BY <2>3, <2>4 DEF Kept, Gone
  <2>6. \A c \in Pids : pc'[c] \in Counted <=> pc[c] \in Counted
    BY <2>2 DEF Types, Counted
  <2>7. pc'[k] \notin Counted
    BY <2>1, <2>2 DEF Types, Counted
  <2>8. \A q \in Pids : Deducted(q)' = Deducted(q)
    <3>1. \A q \in Pids : Children(q) \subseteq Pids
      BY DEF Children
    <3>2. QED
      BY <2>4, <2>6, <2>7, <3>1 DEF Deducted
  <2>9. \A q \in Pids : MidJoin(q)' = MidJoin(q) /\ MidInc(q)' = MidInc(q)
    BY <2>2 DEF Types, MidJoin, MidInc, Joining
  <2>10. Children(k) = {}
    BY <2>1 DEF Children, Types, Threads
  <2>11. ASSUME NEW q \in Pids PROVE Counts(q)'
    <3>1. CASE q # k
      <4>1. exitsem'[q] = exitsem[q] /\ numwait'[q] = numwait[q]
        BY <2>2, <3>1 DEF Types
      <4>2. Still(q)
        BY <2>5, <2>8, <2>9, <4>1 DEF Still
      <4>3. QED
        BY <4>2, StillCounts
    <3>2. CASE q = k
      <4>1. Kept(q) = {} /\ Gone(q) = {} /\ Deducted(q) = {}
        BY <2>10, <3>2 DEF Kept, Gone, Deducted
      <4>2. MidJoin(q) = 0 /\ MidInc(q) = 0
        BY <2>1, <3>2 DEF MidJoin, MidInc, Joining
      <4>3. exitsem'[q] = 0 /\ numwait'[q] = 0
        BY <2>1, <2>2, <3>2 DEF Types
      <4>4. QED
        BY <2>5, <2>8, <2>9, <4>1, <4>2, <4>3, FS_EmptySet DEF Counts
    <3>3. QED
      BY <3>1, <3>2
  <2>12. QED
    BY <2>11
<1>17. ASSUME NEW p \in Pids, JoinWait(p) PROVE \A q \in Pids : Counts(q)'
  <2>1. PICK k \in Pids : k = arg[p] /\ parentID[k] = p
    BY <1>17 DEF JoinWait, Types, Arguments
  <2>2. /\ pc[p] = "join_wait" /\ joinsem[k] = 1
        /\ joinsem' = [joinsem EXCEPT ![k] = 0]
        /\ pc' = [pc EXCEPT ![p] = "join_inc"]
        /\ UNCHANGED <<parentID, exitsem, numwait>>
    <3>1. joinsem[k] # 0 /\ joinsem' = [joinsem EXCEPT ![k] = joinsem[k] - 1]
      BY <1>17, <2>1 DEF JoinWait
    <3>2. joinsem[k] = 1
      BY <3>1 DEF Types
    <3>3. QED
      BY <1>17, <2>1, <3>1, <3>2 DEF JoinWait
  <2>3. k \in Exited /\ k \notin Joined /\ k # 0
    BY <2>2 DEF JoinAfterExit, Joined, Threads, Exited, Leaving
  <2>4. Joined' = Joined \cup {k}
    BY <2>2, <2>3 DEF Types, Joined, Exited
  <2>5. \A q \in Pids : Children(q)' = Children(q)
    BY <2>2 DEF Children
  <2>6. \A c \in Pids : /\ pc'[c] \in Counted <=> pc[c] \in Counted
                        /\ pc'[c] \in {"exit_fin", "finished"} <=> pc[c] \in {"exit_fin", "finished"}
    BY <2>2 DEF Types, Counted
  <2>7. \A q \in Pids : Gone(q)' = Gone(q) /\ Deducted(q)' = Deducted(q)
    BY <2>2, <2>6, SetsLemma
  <2>8. ASSUME NEW q \in Pids PROVE Counts(q)'
    <3>1. CASE q # p
      <4>1. k \notin Children(q)
        BY <2>1, <3>1 DEF Children
      <4>2. Kept(q)' = Kept(q)
        BY <2>4, <2>5, <4>1 DEF Kept
      <4>3. MidJoin(q)' = MidJoin(q) /\ MidInc(q)' = MidInc(q)
        BY <2>2, <3>1 DEF Types, MidJoin, MidInc
      <4>4. QED
        BY <2>2, <2>7, <4>2, <4>3, StillCounts DEF Still
    <3>2. CASE q = p
      <4>1. k \in Children(q)
        BY <2>1, <2>3, <3>2 DEF Children
      <4>2. Kept(q)' = Kept(q) \cup {k} /\ k \notin Kept(q)
        BY <2>3, <2>4, <2>5, <4>1 DEF Kept
      <4>3. Cardinality(Kept(q)') = Cardinality(Kept(q)) + 1
        BY <4>2, FiniteLemma, FS_AddElement
      <4>4. MidJoin(q) = 0 /\ MidInc(q) = 0 /\ MidJoin(q)' = 1 /\ MidInc(q)' = 1
        BY <2>2, <3>2 DEF Types, MidJoin, MidInc, Joining
      <4>5. exitsem[q] \in Int /\ numwait[q] \in Int /\ exitsem'[q] = exitsem[q] /\ numwait'[q] = numwait[q]
        BY <2>2 DEF Types
      <4>6. QED
        BY <2>7, <4>3, <4>4, <4>5, FiniteLemma DEF Counts
    <3>3. QED
      BY <3>1, <3>2
  <2>9. QED
    BY <2>8
<1>18. ASSUME NEW p \in Pids, IncNumWait(p) PROVE \A q \in Pids : Counts(q)'
  <2>1. /\ pc[p] = "join_num" /\ pc' = [pc EXCEPT ![p] = "join_rel"]
        /\ numwait' = [numwait EXCEPT ![p] = @ + 1]
        /\ UNCHANGED <<parentID, joinsem, exitsem>>
    BY <1>18 DEF IncNumWait
  <2>2. \A c \in Pids : /\ pc'[c] \in Leaving <=> pc[c] \in Leaving
                        /\ pc'[c] \in Counted <=> pc[c] \in Counted
                        /\ pc'[c] \in {"exit_fin", "finished"} <=> pc[c] \in {"exit_fin", "finished"}
    BY <2>1 DEF Types, Leaving, Counted
  <2>3. \A q \in Pids : Kept(q)' = Kept(q) /\ Gone(q)' = Gone(q) /\ Deducted(q)' = Deducted(q)
    BY <2>1, <2>2, SetsLemma
  <2>4. ASSUME NEW q \in Pids PROVE Counts(q)'
    <3>1. CASE q # p
      <4>1. MidJoin(q)' = MidJoin(q) /\ MidInc(q)' = MidInc(q)
        BY <2>1, <3>1 DEF Types, MidJoin, MidInc
      <4>2. exitsem'[q] = exitsem[q] /\ numwait'[q] = numwait[q]
        BY <2>1, <3>1 DEF Types
      <4>3. QED
        BY <2>3, <4>1, <4>2, StillCounts DEF Still
    <3>2. CASE q = p
      <4>1. /\ MidJoin(q) = 1 /\ MidJoin(q)' = 1
            /\ MidInc(q) = 1 /\ MidInc(q)' = 0
        BY <2>1, <3>2 DEF Types, MidJoin, MidInc, Joining
      <4>2. /\ exitsem[q] \in Int /\ numwait[q] \in Int
            /\ numwait'[q] = numwait[q] + 1 /\ exitsem'[q] = exitsem[q]
        BY <2>1, <3>2 DEF Types
      <4>3. QED
        BY <2>3, <4>1, <4>2, FiniteLemma DEF Counts
    <3>3. QED
      BY <3>1, <3>2
  <2>5. QED
    BY <2>4
<1>19. ASSUME NEW p \in Pids, JoinRelease(p) PROVE \A q \in Pids : Counts(q)'
  <2>1. /\ pc[p] = "join_rel" /\ pc' = [pc EXCEPT ![p] = "user"]
        /\ exitsem' = [exitsem EXCEPT ![p] = @ + 1]
        /\ UNCHANGED <<parentID, joinsem, numwait>>
    BY <1>19 DEF JoinRelease
  <2>2. \A c \in Pids : /\ pc'[c] \in Leaving <=> pc[c] \in Leaving
                        /\ pc'[c] \in Counted <=> pc[c] \in Counted
                        /\ pc'[c] \in {"exit_fin", "finished"} <=> pc[c] \in {"exit_fin", "finished"}
    BY <2>1 DEF Types, Leaving, Counted
  <2>3. \A q \in Pids : Kept(q)' = Kept(q) /\ Gone(q)' = Gone(q) /\ Deducted(q)' = Deducted(q)
    BY <2>1, <2>2, SetsLemma
  <2>4. ASSUME NEW q \in Pids PROVE Counts(q)'
    <3>1. CASE q # p
      <4>1. MidJoin(q)' = MidJoin(q) /\ MidInc(q)' = MidInc(q)
        BY <2>1, <3>1 DEF Types, MidJoin, MidInc
      <4>2. exitsem'[q] = exitsem[q] /\ numwait'[q] = numwait[q]
        BY <2>1, <3>1 DEF Types
      <4>3. QED
        BY <2>3, <4>1, <4>2, StillCounts DEF Still
    <3>2. CASE q = p
      <4>1. /\ MidJoin(q) = 1 /\ MidJoin(q)' = 0
            /\ MidInc(q) = 0 /\ MidInc(q)' = 0
        BY <2>1, <3>2 DEF Types, MidJoin, MidInc, Joining
      <4>2. /\ exitsem[q] \in Int /\ numwait[q] \in Int
            /\ exitsem'[q] = exitsem[q] + 1 /\ numwait'[q] = numwait[q]
        BY <2>1, <3>2 DEF Types
      <4>3. QED
        BY <2>3, <4>1, <4>2, FiniteLemma DEF Counts
    <3>3. QED
      BY <3>1, <3>2
  <2>5. QED
    BY <2>4
<1>20. ASSUME NEW p \in Pids, NEW ec \in ExitCodes, ExitCall(p, ec)
      PROVE  \A q \in Pids : Still(q)
  <2>1. /\ pc[p] = "user" /\ pc' = [pc EXCEPT ![p] = "exit_dec"]
        /\ joinsem' = [joinsem EXCEPT ![p] = @ + 1]
        /\ UNCHANGED <<parentID, exitsem, numwait>>
    BY <1>20 DEF ExitCall
  <2>2. p \notin Exited /\ joinsem[p] = 0
    BY <2>1 DEF Types, JoinAfterExit, Exited
  <2>3. Joined' = Joined
    BY <2>1, <2>2 DEF Types, Joined, Exited
  <2>4. \A q \in Pids : Children(q)' = Children(q)
    BY <2>1 DEF Children
  <2>5. \A q \in Pids : Kept(q)' = Kept(q)
    BY <2>3, <2>4 DEF Kept
  <2>6. \A c \in Pids : /\ pc'[c] \in Counted <=> pc[c] \in Counted
                        /\ pc'[c] \in {"exit_fin", "finished"} <=> pc[c] \in {"exit_fin", "finished"}
    BY <2>1 DEF Types, Counted
  <2>7. \A q \in Pids : Gone(q)' = Gone(q) /\ Deducted(q)' = Deducted(q)
    BY <2>1, <2>6, SetsLemma
  <2>8. \A q \in Pids : MidJoin(q)' = MidJoin(q) /\ MidInc(q)' = MidInc(q)
    BY <2>1 DEF Types, MidJoin, MidInc, Joining
  <2>9. QED
    BY <2>1, <2>5, <2>7, <2>8 DEF Still
<1>21. ASSUME NEW p \in Pids, DecNumWait(p) PROVE \A q \in Pids : Counts(q)'
  <2>1. PICK k \in Pids : k = parentID[p] /\ p # 0
    BY <1>21 DEF DecNumWait, Types, Threads, Leaving
  <2>2. /\ pc[p] = "exit_num" /\ pc' = [pc EXCEPT ![p] = "exit_wait"]
        /\ numwait' = [numwait EXCEPT ![k] = @ - 1]
        /\ UNCHANGED <<parentID, joinsem, exitsem>>
    BY <1>21, <2>1 DEF DecNumWait
  <2>3. \A c \in Pids : /\ pc'[c] \in Leaving <=> pc[c] \in Leaving
                        /\ pc'[c] \in {"exit_fin", "finished"} <=> pc[c] \in {"exit_fin", "finished"}
    BY <2>2 DEF Types, Leaving, Counted
  <2>4. \A q \in Pids : Kept(q)' = Kept(q) /\ Gone(q)' = Gone(q)
    BY <2>2, <2>3, SetsLemma
  <2>5. \A q \in Pids : MidJoin(q)' = MidJoin(q) /\ MidInc(q)' = MidInc(q)
    BY <2>2 DEF Types, MidJoin, MidInc, Joining
  <2>6. \A q \in Pids : Children(q)' = Children(q)
    BY <2>2 DEF Children
  <2>7. /\ pc'[p] \in Counted /\ pc[p] \notin Counted
        /\ \A c \in Pids \ {p} : pc'[c] = pc[c]
    BY <2>2 DEF Types, Counted
  <2>8. ASSUME NEW q \in Pids PROVE Counts(q)'
    <3>0. Children(q) \subseteq Pids
      BY DEF Children
    <3>1. CASE q # k
      <4>1. p \notin Children(q)
        BY <2>1, <3>1 DEF Children
      <4>2. Deducted(q)' = Deducted(q)
        BY <2>6, <2>7, <3>0, <4>1 DEF Deducted, Counted
      <4>3. exitsem'[q] = exitsem[q] /\ numwait'[q] = numwait[q]
        BY <2>2, <3>1 DEF Types
      <4>4. QED
        BY <2>4, <2>5, <4>2, <4>3, StillCounts DEF Still
    <3>2. CASE q = k
      <4>1. p \in Children(q)
        BY <2>1, <3>2 DEF Children
      <4>2. Deducted(q)' = Deducted(q) \cup {p} /\ p \notin Deducted(q)
        BY <2>6, <2>7, <3>0, <4>1 DEF Deducted, Counted
      <4>3. Cardinality(Deducted(q)') = Cardinality(Deducted(q)) + 1
        BY <4>2, FiniteLemma, FS_AddElement
      <4>4. /\ exitsem[q] \in Int /\ numwait[q] \in Int
            /\ numwait'[q] = numwait[q] - 1 /\ exitsem'[q] = exitsem[q]
        BY <2>2, <3>2 DEF Types
      <4>5. MidJoin(q) \in Int /\ MidInc(q) \in Int
        BY DEF MidJoin, MidInc
      <4>6. QED
        BY <2>4, <2>5, <4>3, <4>4, <4>5, FiniteLemma DEF Counts
    <3>3. QED
      BY <3>1, <3>2
  <2>9. QED
    BY <2>8
<1>22. ASSUME NEW p \in Pids, ExitWait(p) PROVE \A q \in Pids : Counts(q)'
  <2>1. PICK k \in Pids : k = parentID[p] /\ p # 0
    BY <1>22 DEF ExitWait, Types, Threads, Leaving
  <2>2. /\ pc[p] = "exit_wait" /\ pc' = [pc EXCEPT ![p] = "exit_fin"]
        /\ exitsem' = [exitsem EXCEPT ![k] = @ - 1]
        /\ UNCHANGED <<parentID, joinsem, numwait>>
    BY <1>22, <2>1 DEF ExitWait
  <2>3. \A c \in Pids : /\ pc'[c] \in Leaving <=> pc[c] \in Leaving
                        /\ pc'[c] \in Counted <=> pc[c] \in Counted
    BY <2>2 DEF Types, Leaving, Counted
  <2>4. \A q \in Pids : Kept(q)' = Kept(q) /\ Deducted(q)' = Deducted(q)
    BY <2>2, <2>3, SetsLemma
  <2>5. \A q \in Pids : MidJoin(q)' = MidJoin(q) /\ MidInc(q)' = MidInc(q)
    BY <2>2 DEF Types, MidJoin, MidInc, Joining
  <2>6. \A q \in Pids : Children(q)' = Children(q)
    BY <2>2 DEF Children
  <2>7. /\ pc'[p] \in {"exit_fin", "finished"} /\ pc[p] \notin {"exit_fin", "finished"}
        /\ \A c \in Pids \ {p} : pc'[c] = pc[c]
    BY <2>2 DEF Types, Counted
  <2>8. ASSUME NEW q \in Pids PROVE Counts(q)'
    <3>0. Children(q) \subseteq Pids
      BY DEF Children
    <3>1. CASE q # k
      <4>1. p \notin Children(q)
        BY <2>1, <3>1 DEF Children
      <4>2. Gone(q)' = Gone(q)
        BY <2>6, <2>7, <3>0, <4>1 DEF Gone, Released
      <4>3. exitsem'[q] = exitsem[q] /\ numwait'[q] = numwait[q]
        BY <2>2, <3>1 DEF Types
      <4>4. QED
        BY <2>4, <2>5, <4>2, <4>3, StillCounts DEF Still
    <3>2. CASE q = k
      <4>1. p \in Children(q)
        BY <2>1, <3>2 DEF Children
      <4>2. Gone(q)' = Gone(q) \cup {p} /\ p \notin Gone(q)
        BY <2>6, <2>7, <3>0, <4>1 DEF Gone, Released
      <4>3. Cardinality(Gone(q)') = Cardinality(Gone(q)) + 1
        BY <4>2, FiniteLemma, FS_AddElement
      <4>4. /\ exitsem[q] \in Int /\ numwait[q] \in Int
            /\ exitsem'[q] = exitsem[q] - 1 /\ numwait'[q] = numwait[q]
        BY <2>2, <3>2 DEF Types
      <4>5. MidJoin(q) \in Int /\ MidInc(q) \in Int
        BY DEF MidJoin, MidInc
      <4>6. QED
        BY <2>4, <2>5, <4>3, <4>4, <4>5, FiniteLemma DEF Counts
    <3>3. QED
      BY <3>1, <3>2
  <2>9. QED
    BY <2>8
<1>23. QED
  BY <1>0, <1>1, <1>2, <1>3, <1>4, <1>5, <1>6, <1>7, <1>8, <1>9, <1>10, <1>11, <1>12, <1>13, <1>14, <1>15, <1>16, <1>17, <1>18, <1>19, <1>20, <1>21, <1>22 DEF Next, Kernel

LEMMA CountsInvariant == Spec => [](\A p \in Pids : Counts(p))
<1>1. Tree /\ (\A p \in Pids : Counts(p)) /\ [Next]_vars => (\A p \in Pids : Counts(p))'
  BY CountsStep
<1>2. QED
  BY <1>1, CountsInit, TreeInvariant, PTL DEF Spec

\* PCB::exitsem, shared by the children of a process: as many children are let
\* go, or may still go, as the process has joined.
THEOREM ReleasePerJoinTheorem == Spec => []ReleasePerJoin
<1>1. QED
  BY CountsLemma, CountsInvariant, PTL

\* PCB::numwait loses no update: it is the joins less the exits.
THEOREM NumWaitTheorem == Spec => []NumWaitExact
<1>1. QED
  BY CountsLemma, CountsInvariant, PTL
=============================================================================
