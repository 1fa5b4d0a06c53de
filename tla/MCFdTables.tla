----------------------------- MODULE MCFdTables -----------------------------
(* Small instances of FdTables for TLC.                                    *)
EXTENDS FdTables, TLC

Symmetric == Permutations(Threads)
=============================================================================
