---------------------------- MODULE BlockStore -----------------------------
(***************************************************************************)
(* What the buffer cache promises its callers: every disk block has one    *)
(* current content, at most one process uses a block at a time, and that   *)
(* process sees, and alone may change, the current content.                *)
(***************************************************************************)
CONSTANTS Procs, Blocks, Values, NoProc, NoValue

VARIABLES content, owner, view

svars == <<content, owner, view>>

Init ==
  /\ content \in [Blocks -> Values]
  /\ owner = [k \in Blocks |-> NoProc]
  /\ view = [p \in Procs |-> NoValue]

Bread(p, k) ==
  /\ owner[k] = NoProc /\ view[p] = NoValue
  /\ owner' = [owner EXCEPT ![k] = p]
  /\ view' = [view EXCEPT ![p] = content[k]]
  /\ UNCHANGED content

Write(p, k) ==
  /\ owner[k] = p
  /\ \E v \in Values :
       /\ content' = [content EXCEPT ![k] = v]
       /\ view' = [view EXCEPT ![p] = v]
  /\ UNCHANGED owner

Brelse(p, k) ==
  /\ owner[k] = p
  /\ owner' = [owner EXCEPT ![k] = NoProc]
  /\ view' = [view EXCEPT ![p] = NoValue]
  /\ UNCHANGED content

Next == \E p \in Procs, k \in Blocks : Bread(p, k) \/ Write(p, k) \/ Brelse(p, k)

Spec == Init /\ [][Next]_svars
=============================================================================
