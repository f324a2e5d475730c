----------------------------- MODULE MCFileTable -----------------------------
(* FileTable for TLC: the inodes are interchangeable. *)
EXTENDS FileTable, TLC

Symmetry == Permutations(Inodes)
=============================================================================
