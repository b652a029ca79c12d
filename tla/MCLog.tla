------------------------------- MODULE MCLog --------------------------------
(* The log on a small disk, with calls that its reservation covers. *)
EXTENDS LogInv, TLC

CONSTANTS p1, p2, p3, v0, v1

ASSUME Capacity(OPMAX)

TwoProcs == {p1, p2}
ThreeProcs == {p1, p2, p3}
OneValue == {v0}
TwoValues == {v0, v1}
Symmetry == Permutations(Procs) \cup Permutations(Values)
=============================================================================
