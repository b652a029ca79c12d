------------------------------ MODULE MCFileSys ------------------------------
(* The file system under the tests of usertests.c and under processes that   *)
(* choose their calls freely.                                                *)
EXTENDS UserTests, TLC

CONSTANTS p1, p2, p3

AllPrograms == Tests \cup {Crowd, Shared}
==============================================================================
