-------------------------------- MODULE Log ---------------------------------
(***************************************************************************)
(* The redo log of xv6 (log.c): group commit of concurrent file system     *)
(* calls, and recovery after a crash.  A critical section under log.lock   *)
(* is one step; a bwrite() of one block is one step, because a block is    *)
(* one disk sector (BSIZE = 512) and a crash leaves it old or new.         *)
(*                                                                         *)
(* Blocks are numbered from the first block after the log, where mkfs.c    *)
(* puts the inodes: block k is disk block log.start + NLOG + k.            *)
(***************************************************************************)
EXTENDS Naturals, Sequences, FiniteSets, Functions

CONSTANTS
  Procs,         \* processes that make file system calls
  Values,        \* contents of a block
  NBLOCKS,       \* blocks outside the log
  MAXOPBLOCKS,   \* blocks begin_op() reserves for one call (param.h)
  LOGSIZE,       \* capacity of struct logheader (param.h)
  NLOG,          \* blocks of the on-disk log, header included (mkfs.c, sb.nlog)
  OPMAX,         \* distinct blocks one call really writes
  MaxCrashes     \* bound on the crashes of a behaviour

Blocks == 0 .. NBLOCKS - 1

ASSUME ConstantsAssumption ==
  /\ IsFiniteSet(Procs) /\ Procs # {}
  /\ Values # {}
  /\ NBLOCKS \in Nat \ {0}
  /\ {MAXOPBLOCKS, LOGSIZE, OPMAX} \subseteq Nat \ {0}
  /\ NLOG \in Nat /\ NLOG >= 2
  /\ MaxCrashes \in Nat

VARIABLES
  disk,          \* the blocks at their home locations
  loghead,       \* the on-disk header block: the block numbers of a commit
  logblk,        \* the on-disk log blocks 1 .. NLOG - 1
  cache,         \* what bread() returns for a home block
  dirty,         \* home blocks pinned in the cache by B_DIRTY
  lh,            \* log.lh
  outstanding,   \* log.outstanding
  committing,    \* log.committing
  pc,            \* where each process is
  buf,           \* the block whose buffer a process holds inside log_write()
  written,       \* the blocks a call has logged since its begin_op()
  phase,         \* progress of commit() or recover_from_log()
  tail,          \* loop counter of write_log() and install_trans()
  crashes

diskVars == <<disk, loghead, logblk>>
logVars == <<lh, outstanding, committing>>
procVars == <<pc, buf, written>>
vars == <<disk, loghead, logblk, cache, dirty, lh, outstanding, committing,
          pc, buf, written, phase, tail, crashes>>

NoBlock == NBLOCKS

PCs == {"boot", "idle", "begin", "sleep", "op", "log", "commit", "panic"}

Phases == {"none", "read_head", "write_log", "write_head", "install", "erase",
           "finish"}

-----------------------------------------------------------------------------
(* mkfs.c clears every log block; the first process then runs initlog(). *)
Init ==
  /\ disk \in [Blocks -> Values]
  /\ loghead = <<>>
  /\ \E zero \in Values : logblk = [i \in 1 .. NLOG - 1 |-> zero]
  /\ cache = disk
  /\ dirty = {}
  /\ lh = <<>>
  /\ outstanding = 0
  /\ committing = FALSE
  /\ pc = [p \in Procs |-> "boot"]
  /\ buf = [p \in Procs |-> NoBlock]
  /\ written = [p \in Procs |-> {}]
  /\ phase = "read_head"
  /\ tail = 0
  /\ crashes = 0

-----------------------------------------------------------------------------
(* wakeup(&log): every process asleep in begin_op() runs its loop again. *)
Wakeup(f) == [p \in Procs |-> IF f[p] = "sleep" THEN "begin" ELSE f[p]]

(* Faulty variant: the reservation of the caller itself is forgotten. *)
MustWait_forgets_caller ==
  committing \/ Len(lh) + outstanding * MAXOPBLOCKS > LOGSIZE

(* begin_op(): the two conditions on which it sleeps. *)
MustWait ==
  \/ committing
  \/ Len(lh) + (outstanding + 1) * MAXOPBLOCKS > LOGSIZE

begin_op(p) ==
  /\ pc[p] \in {"idle", "begin"}
  /\ ~MustWait
  /\ outstanding' = outstanding + 1
  /\ pc' = [pc EXCEPT ![p] = "op"]
  /\ written' = [written EXCEPT ![p] = {}]
  /\ UNCHANGED <<diskVars, cache, dirty, lh, committing, buf, phase, tail,
                 crashes>>

begin_op_sleep(p) ==
  /\ pc[p] \in {"idle", "begin"}
  /\ MustWait
  /\ pc' = [pc EXCEPT ![p] = "sleep"]
  /\ UNCHANGED <<diskVars, cache, dirty, logVars, buf, written, phase, tail,
                 crashes>>

(* The test of log_write(): room for one more entry in log.lh and on disk. *)
Fits(n) == n < LOGSIZE /\ n < NLOG - 1

(* A caller has read block b, holds its buffer, modifies it and calls        *)
(* log_write(), which tests the log without holding log.lock.                *)
log_write_check(p, b, v) ==
  /\ pc[p] = "op"
  /\ \A q \in Procs : buf[q] # b
  /\ b \notin written[p] => Cardinality(written[p]) < OPMAX
  /\ cache' = [cache EXCEPT ![b] = v]
  /\ buf' = [buf EXCEPT ![p] = b]
  /\ pc' = [pc EXCEPT ![p] =
              IF Fits(Len(lh)) /\ outstanding >= 1 THEN "log" ELSE "panic"]
  /\ UNCHANGED <<diskVars, dirty, logVars, written, phase, tail, crashes>>

(* The rest of log_write(), under log.lock, with absorption; then brelse(). *)
log_write(p) ==
  /\ pc[p] = "log"
  /\ lh' = IF buf[p] \in Range(lh) THEN lh ELSE Append(lh, buf[p])
  /\ dirty' = dirty \cup {buf[p]}
  /\ written' = [written EXCEPT ![p] = @ \cup {buf[p]}]
  /\ buf' = [buf EXCEPT ![p] = NoBlock]
  /\ pc' = [pc EXCEPT ![p] = "op"]
  /\ UNCHANGED <<diskVars, cache, outstanding, committing, phase, tail,
                 crashes>>

(* Faulty variant: commit() writes the header before the log blocks. *)
end_op_head_first(p) ==
  /\ pc[p] = "op" /\ ~committing
  /\ outstanding' = outstanding - 1
  /\ committing' = (outstanding = 1)
  /\ phase' = IF outstanding = 1
              THEN IF lh = <<>> THEN "finish" ELSE "write_head"
              ELSE phase
  /\ pc' = Wakeup([pc EXCEPT ![p] = IF outstanding = 1 THEN "commit" ELSE "idle"])
  /\ UNCHANGED <<diskVars, cache, dirty, lh, buf, written, tail, crashes>>

(* end_op() up to its first release(): the last call out starts commit(). *)
end_op(p) ==
  /\ pc[p] = "op"
  /\ outstanding' = outstanding - 1
  /\ \/ /\ committing
        /\ pc' = [pc EXCEPT ![p] = "panic"]
        /\ UNCHANGED <<committing, phase>>
     \/ /\ ~committing
        /\ outstanding = 1
        /\ committing' = TRUE
        /\ phase' = IF lh = <<>> THEN "finish" ELSE "write_log"
        /\ pc' = [pc EXCEPT ![p] = "commit"]
     \/ /\ ~committing
        /\ outstanding # 1
        /\ pc' = Wakeup([pc EXCEPT ![p] = "idle"])
        /\ UNCHANGED <<committing, phase>>
  /\ UNCHANGED <<diskVars, cache, dirty, lh, buf, written, tail, crashes>>

-----------------------------------------------------------------------------
(* Block log.start + i.  Past the end of the log lie the home blocks. *)
LogBlock(i) == IF i < NLOG THEN logblk[i] ELSE cache[i - NLOG]

PutLogBlock(i, v) ==
  IF i < NLOG
  THEN /\ logblk' = [logblk EXCEPT ![i] = v]
       /\ UNCHANGED <<disk, cache, dirty>>
  ELSE /\ disk' = [disk EXCEPT ![i - NLOG] = v]
       /\ cache' = [cache EXCEPT ![i - NLOG] = v]
       /\ dirty' = dirty \ {i - NLOG}
       /\ UNCHANGED logblk

(* One turn of a loop over the blocks of log.lh, then phase `after'. *)
LoopStep(after) ==
  IF tail + 1 < Len(lh)
  THEN tail' = tail + 1 /\ phase' = phase
  ELSE tail' = 0 /\ phase' = after

(* Faulty variant: commit() forgets the first write_head(). *)
write_log_no_head ==
  /\ phase = "write_log"
  /\ PutLogBlock(tail + 1, cache[lh[tail + 1]])
  /\ LoopStep("install")
  /\ UNCHANGED <<loghead, logVars, procVars, crashes>>

write_log ==
  /\ phase = "write_log"
  /\ PutLogBlock(tail + 1, cache[lh[tail + 1]])
  /\ LoopStep("write_head")
  /\ UNCHANGED <<loghead, logVars, procVars, crashes>>

write_head ==
  /\ phase = "write_head"
  /\ loghead' = lh
  /\ phase' = "install"
  /\ UNCHANGED <<disk, logblk, cache, dirty, logVars, procVars, tail, crashes>>

(* bwrite() of the destination also clears its B_DIRTY. *)
install_trans ==
  /\ phase = "install"
  /\ LET b == lh[tail + 1]
         v == LogBlock(tail + 1)
     IN  /\ disk' = [disk EXCEPT ![b] = v]
         /\ cache' = [cache EXCEPT ![b] = v]
         /\ dirty' = dirty \ {b}
  /\ LoopStep("erase")
  /\ UNCHANGED <<loghead, logblk, logVars, procVars, crashes>>

(* log.lh.n = 0; write_head(): the end of both commit() and recovery. *)
erase ==
  /\ phase = "erase"
  /\ lh' = <<>>
  /\ loghead' = <<>>
  /\ phase' = "finish"
  /\ UNCHANGED <<disk, logblk, cache, dirty, outstanding, committing, procVars,
                 tail, crashes>>

(* Faulty variant: end_op() forgets the wakeup after the commit. *)
end_op_finish_no_wakeup(p) ==
  /\ pc[p] = "commit"
  /\ phase = "finish"
  /\ committing' = FALSE
  /\ phase' = "none"
  /\ pc' = [pc EXCEPT ![p] = "idle"]
  /\ UNCHANGED <<diskVars, cache, dirty, lh, outstanding, buf, written, tail,
                 crashes>>

(* The rest of end_op(), once commit() has returned. *)
end_op_finish(p) ==
  /\ pc[p] = "commit"
  /\ phase = "finish"
  /\ committing' = FALSE
  /\ phase' = "none"
  /\ pc' = Wakeup([pc EXCEPT ![p] = "idle"])
  /\ UNCHANGED <<diskVars, cache, dirty, lh, outstanding, buf, written, tail,
                 crashes>>

-----------------------------------------------------------------------------
(* recover_from_log() begins with read_head(); install_trans and erase follow. *)
read_head ==
  /\ phase = "read_head"
  /\ lh' = loghead
  /\ phase' = IF loghead = <<>> THEN "erase" ELSE "install"
  /\ UNCHANGED <<diskVars, cache, dirty, outstanding, committing, procVars,
                 tail, crashes>>

(* initlog() returns and the other processes can start. *)
initlog_done ==
  /\ phase = "finish"
  /\ \A p \in Procs : pc[p] = "boot"
  /\ phase' = "none"
  /\ pc' = [p \in Procs |-> "idle"]
  /\ UNCHANGED <<diskVars, cache, dirty, logVars, buf, written, tail, crashes>>

(* bget() recycles a buffer that is neither B_BUSY nor B_DIRTY: the next     *)
(* bread() of its block reads the disk.                                      *)
bget_recycle(b) ==
  /\ b \notin dirty
  /\ \A p \in Procs : buf[p] # b
  /\ cache' = [cache EXCEPT ![b] = disk[b]]
  /\ UNCHANGED <<diskVars, dirty, logVars, procVars, phase, tail, crashes>>

(* Power fails: only the disk survives, and the machine boots again. *)
Crash ==
  /\ crashes < MaxCrashes
  /\ crashes' = crashes + 1
  /\ cache' = disk
  /\ dirty' = {}
  /\ lh' = <<>>
  /\ outstanding' = 0
  /\ committing' = FALSE
  /\ pc' = [p \in Procs |-> "boot"]
  /\ buf' = [p \in Procs |-> NoBlock]
  /\ written' = [p \in Procs |-> {}]
  /\ phase' = "read_head"
  /\ tail' = 0
  /\ UNCHANGED diskVars

-----------------------------------------------------------------------------
CommitStep ==
  write_log \/ write_head \/ install_trans \/ erase \/ read_head \/ initlog_done

ProcStep(p) ==
  \/ begin_op(p)
  \/ begin_op_sleep(p)
  \/ \E b \in Blocks, v \in Values : log_write_check(p, b, v)
  \/ log_write(p)
  \/ end_op(p)
  \/ end_op_finish(p)

Next ==
  \/ \E p \in Procs : ProcStep(p)
  \/ CommitStep
  \/ \E b \in Blocks : bget_recycle(b)
  \/ Crash

(* A process inside begin_op(), log_write() or end_op() keeps running, and   *)
(* a system call makes finitely many log_write()s before its end_op(), hence *)
(* strong fairness there; nobody has to make another system call.            *)
Fairness ==
  /\ WF_vars(CommitStep)
  /\ \A p \in Procs : /\ WF_vars(pc[p] = "begin" /\ ProcStep(p))
                      /\ WF_vars(log_write(p))
                      /\ SF_vars(end_op(p))
                      /\ WF_vars(end_op_finish(p))

Spec == Init /\ [][Next]_vars /\ Fairness

-----------------------------------------------------------------------------
TypeOK ==
  /\ disk \in [Blocks -> Values]
  /\ loghead \in Seq(Blocks)
  /\ logblk \in [1 .. NLOG - 1 -> Values]
  /\ cache \in [Blocks -> Values]
  /\ dirty \subseteq Blocks
  /\ lh \in Seq(Blocks)
  /\ outstanding \in Nat
  /\ committing \in BOOLEAN
  /\ pc \in [Procs -> PCs]
  /\ buf \in [Procs -> Blocks \cup {NoBlock}]
  /\ written \in [Procs -> SUBSET Blocks]
  /\ phase \in Phases
  /\ tail \in Nat
  /\ crashes \in 0 .. MaxCrashes

(* No file system call ever runs into one of the panics of log.c ("too big a *)
(* transaction", "log_write outside of trans", "log.committing").            *)
NoPanic == \A p \in Procs : pc[p] # "panic"

(* The transaction fits struct logheader and the on-disk log, each with the  *)
(* one block to spare that log_write() insists on even to absorb, although   *)
(* log_write() tests the length before it takes log.lock and others may      *)
(* append in between; so write_log() never writes past the end of the log.   *)
LogFits == Fits(Len(lh))

Booting == \A p \in Procs : pc[p] = "boot"

InOp == {p \in Procs : pc[p] \in {"op", "log", "panic"}}

(* The disk that recover_from_log() would produce if power failed now. *)
Recovered ==
  [b \in Blocks |-> IF b \in Range(loghead)
                    THEN logblk[CHOOSE i \in DOMAIN loghead : loghead[i] = b]
                    ELSE disk[b]]

AD == INSTANCE AtomicDisk WITH
        stable <- Recovered,
        current <- IF Booting THEN Recovered ELSE cache,
        active <- InOp

(* The log implements the atomic disk: whatever the moment of a crash, a     *)
(* crash during recovery included, the writes since the last commit are      *)
(* recovered all together or not at all (write_head() is "the true point at  *)
(* which the current transaction commits"), and what bread() returns never   *)
(* changes except by a log_write() or a crash.                               *)
CrashAtomic == AD!Spec

(* Write-ahead: a block's home location changes only while the on-disk       *)
(* header lists the block, so recovery would write it again                  *)
(* (install_trans() runs after write_head()).                                *)
WriteAhead ==
  [][\A b \in Blocks : disk'[b] # disk[b] => b \in Range(loghead)]_vars

(* When the end_op() that ran commit() returns, everything written so far is *)
(* durable and the blocks are unpinned.                                      *)
DurableOnReturn ==
  [][\A p \in Procs : pc[p] = "commit" /\ pc'[p] = "idle"
                      => Recovered = cache /\ dirty = {}]_vars

(* No lost wakeup: a process asleep in begin_op() is woken (end_op() wakes   *)
(* it when space may have become free and when a commit ends).               *)
SleeperWakes == \A p \in Procs : pc[p] = "sleep" ~> pc[p] # "sleep"
=============================================================================
