------------------------------- MODULE MCProc -------------------------------
(* Small instances of Proc for TLC. *)
EXTENDS Proc, TLC

CONSTANTS c1, c2

OneCpu == {c1}
TwoCpus == {c1, c2}

(* The pids of the processes that fork() creates. *)
ChildPids == 2 .. MaxPid

(* One of them. *)
OnePid == {3}

Symmetry == Permutations(CPUs)
=============================================================================
