----------------------------- MODULE MCLogFull ------------------------------
(* The log with the sizes in the proportion of param.h and mkfs.c (LOGSIZE   *)
(* is MAXOPBLOCKS * 3, and the log has LOGSIZE blocks, header included) and  *)
(* calls that write all the blocks begin_op() reserves for them.             *)
EXTENDS Log, TLC

CONSTANTS p1, p2, p3, v0

ThreeProcs == {p1, p2, p3}
OneValue == {v0}
Symmetry == Permutations(Procs)
=============================================================================
