------------------------------- MODULE MCPipe -------------------------------
(* Small instances of Pipe for TLC. *)
EXTENDS Pipe, TLC

CONSTANTS w1, w2, r1

TwoWriters == {w1, w2}
OneReader == {r1}

AllProcs == Procs
AllReaders == Readers
=============================================================================
