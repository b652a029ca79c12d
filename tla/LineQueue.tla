------------------------------ MODULE LineQueue ------------------------------
(***************************************************************************)
(* What the console promises its readers: a queue of finished lines, and   *)
(* one line being typed that erasing and killing can still change.         *)
(***************************************************************************)
EXTENDS Naturals, Sequences

CONSTANTS Capacity, Glyphs, Enders

VARIABLES lines, edit

lvars == <<lines, edit>>

Init == lines = <<>> /\ edit = <<>>

Commit(s) == lines' = lines \o s /\ edit' = <<>>

Type(c) ==
  /\ Len(lines) + Len(edit) < Capacity
  /\ IF c \in Enders \/ Len(lines) + Len(edit) + 1 = Capacity
     THEN Commit(Append(edit, c))
     ELSE edit' = Append(edit, c) /\ UNCHANGED lines

Erase ==
  /\ edit # <<>>
  /\ edit' = SubSeq(edit, 1, Len(edit) - 1)
  /\ UNCHANGED lines

KillLine == edit' = <<>> /\ UNCHANGED lines

Take ==
  /\ lines # <<>>
  /\ lines' = Tail(lines)
  /\ UNCHANGED edit

Next == (\E c \in Glyphs \cup Enders : Type(c)) \/ Erase \/ KillLine \/ Take

Spec == Init /\ [][Next]_lvars
==============================================================================
