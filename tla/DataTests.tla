------------------------------ MODULE DataTests ------------------------------
(***************************************************************************)
(* The tests of usertests.c about the contents of files, as programs for   *)
(* FileData, with a file in place of their many and sizes in proportion to *)
(* the block; and programs that choose their calls freely.                 *)
(***************************************************************************)
EXTENDS FileData

ASSUME TwoOfEach == Procs = {1, 2} /\ Files = {1, 2} /\ Inums = {1, 2}

Write(n) == {[op |-> "filewrite", n |-> n]}
Read(n) == {[op |-> "fileread", n |-> n]}
Open == {[op |-> "open", n |-> 0]}
Unlink == {[op |-> "unlink", n |-> 0]}

(* Which struct file a process has, and which inode a struct file. *)
One == [x \in {1, 2} |-> 1]
Own == [x \in {1, 2} |-> x]

Program(fd, ino, prog) ==
  [fd |-> fd, ino |-> ino, prog |-> prog, appends |-> FALSE, total |-> One]
Appends(program, total) == [program EXCEPT !.appends = TRUE, !.total = total]

(* Blocks of 2 cells: as many writes of a block as a file has blocks. *)
writetest1 ==
  Program(Own, Own,
    <<<<Write(2), Write(2), Write(2), Open, Read(2), Read(2), Read(2), Read(2), Unlink>>, <<>>>>)

sharedfd ==
  Appends(Program(One, Own, <<<<Write(2), Write(1)>>, <<Write(1), Write(2)>>>>), [p \in {1, 2} |-> 3])

(* Writes that do not end at a block. *)
fourfiles ==
  LET child == <<Write(3), Write(1), Open, Read(6)>>
  IN  Appends(Program(Own, Own, <<child, child>>), [p \in {1, 2} |-> 4])

bigwrite ==
  Program(Own, Own, <<<<Write(1), Write(1), Unlink, Write(3), Write(3), Unlink>>, <<>>>>)

(* More is written than the disk holds. *)
fsfull == Program(Own, Own, <<<<Write(4), Write(2)>>, <<Write(4), Write(2)>>>>)

(* No tests of the repository: each process with a file of its own, and both *)
(* with the same file opened twice.                                          *)
Apart ==
  LET any == UNION {Write(1), Write(5), Read(3), Unlink}
  IN  Program(Own, Own, <<<<Write(3), any, any>>, <<Write(5), any>>>>)
Twice ==
  LET any == UNION {Write(1), Write(5), Read(3), Open}
  IN  Program(Own, One, <<<<any, any, any>>, <<any, any>>>>)

Tests == {writetest1, sharedfd, fourfiles, bigwrite, fsfull, Apart, Twice}
==============================================================================
