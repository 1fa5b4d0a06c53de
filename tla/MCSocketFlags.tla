---------------------------- MODULE MCSocketFlags ----------------------------
(* Small instances of SocketFlags for TLC.                                 *)
EXTENDS SocketFlags, TLC

Symmetric == Permutations(Descriptors)
=============================================================================
