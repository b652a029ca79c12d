------------------------------ MODULE MCBcache ------------------------------
(* Small instances of Bcache for TLC. *)
EXTENDS Bcache, TLC

CONSTANTS p1, p2, p3, p4, k1, k2, k3, k4, v0, v1

TwoProcs == {p1, p2}
ThreeProcs == {p1, p2, p3}
FourProcs == {p1, p2, p3, p4}
TwoBlocks == {k1, k2}
ThreeBlocks == {k1, k2, k3}
FourBlocks == {k1, k2, k3, k4}
OneValue == {v0}
TwoValues == {v0, v1}

(* Nobody has two buffers; any two users may have any two blocks. *)
OneEach == [p \in Procs |-> NoProc]

(* p2 is the second buffer of the process whose first is p1, and so p4 and p3. *)
TwoEach == (p1 :> NoProc) @@ (p2 :> p1) @@ (p3 :> NoProc) @@ (p4 :> p3)

(* A log block before a home block; an indirect block before the bitmap      *)
(* block or a new data block.                                                *)
FirstBefore == {<<k1, k2>>}
NoPairs == {}

Symmetry == Permutations(Procs) \cup Permutations(Blocks)
=============================================================================
