------------------------------ MODULE MCSynch ------------------------------
(* Three threads on two semaphores, one of them initially zero. *)
EXTENDS Synch

CONSTANTS t1, t2, t3, s1, s2
MCThreads == {t1, t2, t3}
MCSems == {s1, s2}
MCInitialValue == [s \in MCSems |-> IF s = s1 THEN 0 ELSE 1]
=============================================================================
