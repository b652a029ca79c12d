----------------------------- MODULE AtomicDisk -----------------------------
(***************************************************************************)
(* What the logging layer (log.c) promises to the file system above it: a  *)
(* disk of blocks on which the writes of the system calls between two      *)
(* commits take effect all together or, after a crash, not at all.  A      *)
(* commit happens only when no system call is in progress, so a crash      *)
(* never exposes half of one.                                              *)
(***************************************************************************)
CONSTANTS Procs, Blocks, Values

VARIABLES
  stable,     \* what a crash at this moment leaves behind
  current,    \* what a read of a block returns now
  active      \* the processes between begin_op() and end_op()

avars == <<stable, current, active>>

Init ==
  /\ stable \in [Blocks -> Values]
  /\ current = stable
  /\ active = {}

Begin(p) ==
  /\ p \notin active
  /\ active' = active \cup {p}
  /\ UNCHANGED <<stable, current>>

Write(p, b, v) ==
  /\ p \in active
  /\ current' = [current EXCEPT ![b] = v]
  /\ UNCHANGED <<stable, active>>

End(p) ==
  /\ p \in active
  /\ active' = active \ {p}
  /\ UNCHANGED <<stable, current>>

Commit ==
  /\ active = {}
  /\ stable' = current
  /\ UNCHANGED <<current, active>>

Crash ==
  /\ current' = stable
  /\ active' = {}
  /\ UNCHANGED stable

Next ==
  \/ \E p \in Procs : Begin(p) \/ End(p)
  \/ \E p \in Procs, b \in Blocks, v \in Values : Write(p, b, v)
  \/ Commit
  \/ Crash

Spec == Init /\ [][Next]_avars
=============================================================================
