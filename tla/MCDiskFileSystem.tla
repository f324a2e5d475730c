-------------------------- MODULE MCDiskFileSystem ---------------------------
(* DiskFileSystem for TLC: a directory of two sectors whose second entry lies *)
(* across both.                                                              *)
EXTENDS DiskFileSystem, TLC

MCFlagSector == <<0, 0>>
MCNameSector == <<0, 1>>

Symmetry == Permutations(Names)
=============================================================================
