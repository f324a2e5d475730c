---------------------------- MODULE MCContainers -----------------------------
(* Containers for TLC: the items are numbers and their own keys, except that   *)
(* item 3 has the key of item 1.  The self-tests put in a largest, a smallest  *)
(* and a middle item, as listTestVector does, and enough keys for ReHash.      *)
EXTENDS Containers

MCItems == 0 .. 4
MCKey(x) == CASE x = 3 -> 1 [] OTHER -> x
MCListVector == <<4, 0, 2>>
MCHashVector == <<0, 1, 2, 4>>
=============================================================================
