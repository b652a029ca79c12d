------------------------------- MODULE LogInv -------------------------------
(* The inductive invariants of the log: IndInv, from which LogProofs derives *)
(* WriteAhead, DurableOnReturn and the refinement of AtomicDisk, and         *)
(* SpaceInv, from which it derives NoPanic and LogFits.                      *)
EXTENDS LogCapacity

(* Who may be where: booting excludes everything else, one process commits   *)
(* at a time, and only when no call is in progress; a call panics only       *)
(* because the log is full, and the commit that would empty it never comes.  *)
ControlInv ==
  /\ Booting \/ \A p \in Procs : pc[p] # "boot"
  /\ Booting => ~committing /\ phase \in {"read_head", "install", "erase", "finish"}
  /\ ~Booting => (phase = "none" <=> ~committing) /\ phase # "read_head"
  /\ committing <=> \E p \in Procs : pc[p] = "commit"
  /\ \A p, q \in Procs : pc[p] = "commit" /\ pc[q] = "commit" => p = q
  /\ committing => InOp = {}
  /\ outstanding = Cardinality(InOp)
  /\ ~Booting /\ ~committing /\ InOp = {} => lh = <<>>
  /\ \A p \in Procs : pc[p] = "panic" => ~Fits(Len(lh))

(* A process holds a buffer exactly while it is inside log_write(). *)
BufInv ==
  /\ \A p \in Procs : pc[p] \in {"log", "panic"} <=> buf[p] # NoBlock
  /\ \A p, q \in Procs : buf[p] = buf[q] /\ buf[p] # NoBlock => p = q

(* The header on disk is empty except between the two write_head()s. *)
HeadInv ==
  /\ \A i, j \in DOMAIN lh : lh[i] = lh[j] => i = j
  /\ \A i, j \in DOMAIN loghead : loghead[i] = loghead[j] => i = j
  /\ phase \in {"none", "write_log", "write_head", "finish"} => loghead = <<>>
  /\ phase \in {"install", "erase"} => lh = loghead
  /\ phase \in {"read_head", "finish"} => lh = <<>>
  /\ phase \in {"write_log", "write_head", "install"} => lh # <<>>
  /\ IF phase \in {"write_log", "install"} THEN tail < Len(lh) ELSE tail = 0

(* What the log blocks, the home blocks and the cache say about each other. *)
DataInv ==
  /\ phase = "write_log" =>
       \A i \in 1 .. tail : logblk[i] = cache[lh[i]]
  /\ phase = "write_head" \/ (phase = "install" /\ ~Booting) =>
       \A i \in 1 .. Len(lh) : logblk[i] = cache[lh[i]]
  /\ phase = "install" => \A i \in 1 .. tail : disk[lh[i]] = logblk[i]
  /\ phase = "erase" => \A i \in 1 .. Len(lh) : disk[lh[i]] = logblk[i]
  /\ Booting => cache = disk /\ dirty = {}
  /\ \A b \in Blocks \ dirty : (\A p \in Procs : buf[p] # b) => cache[b] = disk[b]
  /\ phase \in {"none", "write_log", "write_head"} => dirty = Range(lh)
  /\ phase = "install" /\ ~Booting => dirty = {lh[i] : i \in tail + 1 .. Len(lh)}
  /\ phase \in {"erase", "finish"} => dirty = {}

(* Everything above: the steps of log.c preserve the conjunction as long as  *)
(* the entries of log.lh stay within the log.                                *)
IndInv == TypeOK /\ ControlInv /\ BufInv /\ HeadInv /\ DataInv

-----------------------------------------------------------------------------
(* The blocks the calls in progress may still add if each logs at most n. *)
Reserved(n) == {s \in InOp \X (1 .. n) : s[2] > Cardinality(written[s[1]])}

(* The log has room for them, with the one entry to spare of log_write(). *)
SpaceInv(n) ==
  /\ NoPanic
  /\ \A p \in InOp : written[p] \subseteq Range(lh)
  /\ Fits(Len(lh) + Cardinality(Reserved(n)))
  /\ Fits(Len(loghead))
=============================================================================
