---------------------------- MODULE LogCapacity -----------------------------
(***************************************************************************)
(* What param.h and mkfs.c let a file system call write.  begin_op()       *)
(* reserves MAXOPBLOCKS blocks for a call, but log_write() needs one free  *)
(* entry even when it absorbs, and the header takes one of the NLOG        *)
(* blocks, so a call may safely log fewer.  With the values of the         *)
(* repository, MAXOPBLOCKS = 10 and LOGSIZE = NLOG = 30, Capacity(n) says  *)
(* n <= 9.  Most calls stay below that; a write() of many blocks does not  *)
(* (file.c:132), so nothing here is assumed of the calls: the theorems     *)
(* that need it say so.                                                    *)
(***************************************************************************)
EXTENDS Log

(* The reservation of begin_op() covers calls that log n blocks. *)
Capacity(n) ==
  /\ n < MAXOPBLOCKS
  /\ n < LOGSIZE
  /\ n + 2 <= NLOG
  /\ LOGSIZE + 2 * n + 2 <= NLOG + 2 * MAXOPBLOCKS

(* The blocks a call has logged or is about to. *)
Logged(p) == written[p] \cup ({buf[p]} \ {NoBlock})

(* No call in progress logs more than n blocks. *)
Modest(n) == \A p \in InOp : Cardinality(Logged(p)) <= n

(* Every entry of log.lh has its place in struct logheader and its block in  *)
(* the log on disk.  log_write() tests this before it takes log.lock, so a   *)
(* full log and two calls at the test can break it.                          *)
WithinLog == Len(lh) <= LOGSIZE /\ Len(lh) < NLOG
=============================================================================
