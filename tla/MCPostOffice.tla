---------------------------- MODULE MCPostOffice -----------------------------
(* PostOffice for TLC: two senders share the first machine.                  *)
EXTENDS PostOffice

CONSTANTS m1, m2, t1, t2

MCHost(t) == m1
=============================================================================
