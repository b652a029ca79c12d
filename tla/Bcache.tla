------------------------------- MODULE Bcache -------------------------------
(***************************************************************************)
(* The buffer cache (bio.c) over the IDE driver (ide.c): processes bread,  *)
(* change and brelse blocks; the driver serves one queued buffer after the *)
(* other; the disk answers with an interrupt.  A critical section under    *)
(* bcache.lock or idelock, up to its end or to the call of sleep() that    *)
(* releases the lock, is one step.  Both bget() and iderw() sleep on the   *)
(* address of the buffer, so a wakeup(b) of either reaches both.           *)
(*                                                                         *)
(* Some code has two buffers at a time: bmap() and itrunc() call balloc()  *)
(* and bfree() with an indirect block in hand, commit() copies between a   *)
(* log block and a home block.  A member of Procs has one buffer; such a   *)
(* process is two members, and Outer leads from the one for its second     *)
(* buffer to the one for its first.                                        *)
(***************************************************************************)
EXTENDS Naturals, Sequences, FiniteSets

CONSTANTS
  Procs, Blocks, Values,
  Outer,        \* the user that has the first buffer of a process, for that of the second
  Nested,       \* the pairs of blocks that a process asks for in this order
  NBUF,         \* buffers (param.h)
  MaxPinned,    \* most buffers that log_write() keeps dirty at a time
  ReadErrors    \* may the disk report an error for a read?

Bufs == 1 .. NBUF
NoBuf == 0
NoBlock == "no block"
NoProc == "no process"
NoValue == "no value"

ASSUME BcacheConstants ==
  /\ NBUF \in Nat /\ MaxPinned \in Nat
  /\ ReadErrors \in BOOLEAN
  /\ IsFiniteSet(Procs) /\ Outer \in [Procs -> Procs \cup {NoProc}]
  /\ Nested \in SUBSET (Blocks \X Blocks)
  /\ NoBlock \notin Blocks /\ NoProc \notin Procs /\ NoValue \notin Values
  /\ Values # {}

VARIABLES
  lru,                 \* the list of buffers, most recently used first
  blockno, busy, valid, dirty, data,   \* struct buf
  idequeue,            \* the buffers that wait for the disk, the active one first
  irq,                 \* the disk has finished the active request
  disk,
  pc, buf, want        \* each process: point of the call, its buffer, its block

bufVars == <<lru, blockno, busy, valid, dirty, data>>
procVars == <<pc, buf, want>>
vars == <<lru, blockno, busy, valid, dirty, data, idequeue, irq, disk, pc, buf, want>>

(* binit(): every buffer is put in front of the ones before it. *)
Init ==
  /\ lru = [i \in 1 .. NBUF |-> NBUF + 1 - i]
  /\ blockno = [b \in Bufs |-> NoBlock]
  /\ busy = [b \in Bufs |-> FALSE]
  /\ valid = [b \in Bufs |-> FALSE]
  /\ dirty = [b \in Bufs |-> FALSE]
  /\ data = [b \in Bufs |-> CHOOSE v \in Values : TRUE]
  /\ idequeue = <<>>
  /\ irq = FALSE
  /\ disk \in [Blocks -> Values]
  /\ pc = [p \in Procs |-> "idle"]
  /\ buf = [p \in Procs |-> NoBuf]
  /\ want = [p \in Procs |-> NoBlock]

(* pcs after wakeup(b): sleepers of bget() and of iderw() alike. *)
Wakeup(b) ==
  [p \in Procs |-> IF buf[p] = b /\ pc[p] = "bget_asleep" THEN "bget"
                   ELSE IF buf[p] = b /\ pc[p] = "rw_asleep" THEN "rw_woken"
                   ELSE pc[p]]

-----------------------------------------------------------------------------
(* A process has its second buffer only inside the use of the first, and     *)
(* asks for no first one while it has a second.                              *)
InOrder(p, k) ==
  /\ Outer[p] # NoProc => pc[Outer[p]] = "use" /\ <<want[Outer[p]], k>> \in Nested
  /\ \A q \in Procs : Outer[q] = p => pc[q] = "idle"

(* It does nothing with one buffer while a call for the other is under way. *)
OtherAtRest(p) ==
  \A q \in Procs : Outer[p] = q \/ Outer[q] = p => pc[q] \in {"idle", "use"}

(* bcache.lock can be taken: panic() in bget() keeps it for ever. *)
LockFree == \A q \in Procs : pc[q] # "panic"

(* bread() is called. *)
bread(p, k) ==
  /\ pc[p] = "idle"
  /\ InOrder(p, k)
  /\ pc' = [pc EXCEPT ![p] = "bget"]
  /\ want' = [want EXCEPT ![p] = k]
  /\ UNCHANGED <<bufVars, idequeue, irq, disk, buf>>

Cached(k) == {b \in Bufs : blockno[b] = k}

(* bread() returns the buffer if it is valid and calls iderw() otherwise. *)
AfterBget(b) == IF valid[b] THEN "use" ELSE "rw"

Free(b) == ~busy[b]

(* bget() finds the block and nobody uses it. *)
bget_hit(p) ==
  /\ pc[p] = "bget" /\ LockFree
  /\ \E b \in Cached(want[p]) :
       /\ Free(b)
       /\ busy' = [busy EXCEPT ![b] = TRUE]
       /\ buf' = [buf EXCEPT ![p] = b]
       /\ pc' = [pc EXCEPT ![p] = AfterBget(b)]
  /\ UNCHANGED <<lru, blockno, valid, dirty, data, idequeue, irq, disk, want>>

(* It finds it in use and sleeps; once woken it searches from the start. *)
bget_sleep(p) ==
  /\ pc[p] = "bget" /\ LockFree
  /\ \E b \in Cached(want[p]) :
       /\ ~Free(b)
       /\ buf' = [buf EXCEPT ![p] = b]
       /\ pc' = [pc EXCEPT ![p] = "bget_asleep"]
  /\ UNCHANGED <<bufVars, idequeue, irq, disk, want>>

(* Faulty variant: a dirty buffer is recycled. *)
Recyclable_dirty(b) == ~busy[b]

Recyclable(b) == ~busy[b] /\ ~dirty[b]

(* b->flags = B_BUSY *)
FlagWhenRecycled(flag) == FALSE

(* It does not find it and recycles the least recently used clean buffer. *)
bget_recycle(p) ==
  /\ pc[p] = "bget" /\ LockFree
  /\ Cached(want[p]) = {}
  /\ \E i \in 1 .. NBUF :
       /\ Recyclable(lru[i])
       /\ \A j \in i + 1 .. NBUF : ~Recyclable(lru[j])
       /\ blockno' = [blockno EXCEPT ![lru[i]] = want[p]]
       /\ busy' = [busy EXCEPT ![lru[i]] = TRUE]
       /\ valid' = [valid EXCEPT ![lru[i]] = FlagWhenRecycled(@)]
       /\ dirty' = [dirty EXCEPT ![lru[i]] = FlagWhenRecycled(@)]
       /\ buf' = [buf EXCEPT ![p] = lru[i]]
  /\ pc' = [pc EXCEPT ![p] = "rw"]
  /\ UNCHANGED <<lru, data, idequeue, irq, disk, want>>

(* There is none: panic("bget: no buffers"). *)
bget_panic(p) ==
  /\ pc[p] = "bget" /\ LockFree
  /\ Cached(want[p]) = {}
  /\ \A b \in Bufs : ~Recyclable(b)
  /\ pc' = [pc EXCEPT ![p] = "panic"]
  /\ UNCHANGED <<bufVars, idequeue, irq, disk, buf, want>>

-----------------------------------------------------------------------------
(* The user of a buffer changes it and calls bwrite(). *)
bwrite(p, v) ==
  /\ pc[p] = "use" /\ OtherAtRest(p)
  /\ data' = [data EXCEPT ![buf[p]] = v]
  /\ dirty' = [dirty EXCEPT ![buf[p]] = TRUE]
  /\ pc' = [pc EXCEPT ![p] = "rw"]
  /\ UNCHANGED <<lru, blockno, busy, valid, idequeue, irq, disk, buf, want>>

(* Every pinned buffer has an entry in log.lh, whose room log_write() tests, *)
(* so no more than LOGSIZE - 1 are pinned.                                   *)
MayPin(b) == Cardinality({c \in Bufs : dirty[c]} \cup {b}) <= MaxPinned

(* It changes it and calls log_write(): dirty, but written only when some    *)
(* process, committing, calls bwrite().                                      *)
log_write(p, v) ==
  /\ pc[p] = "use" /\ OtherAtRest(p)
  /\ MayPin(buf[p])
  /\ data' = [data EXCEPT ![buf[p]] = v]
  /\ dirty' = [dirty EXCEPT ![buf[p]] = TRUE]
  /\ UNCHANGED <<lru, blockno, busy, valid, idequeue, irq, disk, procVars>>

(* Faulty variant: waiters are not woken. *)
Released_silently(b) == pc

Released(b) == Wakeup(b)

(* b is unlinked and linked in again as the first. *)
ToFront(list, b) ==
  LET at == CHOOSE i \in DOMAIN list : list[i] = b
  IN  [i \in DOMAIN list |->
         IF i = 1 THEN b ELSE IF i <= at THEN list[i - 1] ELSE list[i]]

brelse(p) ==
  /\ pc[p] = "use" /\ OtherAtRest(p) /\ LockFree
  /\ lru' = ToFront(lru, buf[p])
  /\ busy' = [busy EXCEPT ![buf[p]] = FALSE]
  /\ pc' = [Released(buf[p]) EXCEPT ![p] = "idle"]
  /\ buf' = [buf EXCEPT ![p] = NoBuf]
  /\ want' = [want EXCEPT ![p] = NoBlock]
  /\ UNCHANGED <<blockno, valid, dirty, data, idequeue, irq, disk>>

-----------------------------------------------------------------------------
(* iderw(): queue the buffer, start the disk if it is idle, sleep. *)
iderw(p) ==
  /\ pc[p] = "rw"
  /\ idequeue' = Append(idequeue, buf[p])
  /\ pc' = [pc EXCEPT ![p] = "rw_asleep"]
  /\ UNCHANGED <<bufVars, irq, disk, buf, want>>

Done(b) == valid[b] /\ ~dirty[b]

(* Woken in iderw(): return if the request is done, otherwise sleep again. *)
iderw_woken(p) ==
  /\ pc[p] = "rw_woken"
  /\ pc' = [pc EXCEPT ![p] = IF Done(buf[p]) THEN "use" ELSE "rw_asleep"]
  /\ UNCHANGED <<bufVars, idequeue, irq, disk, buf, want>>

(* The disk finishes the active request; a write takes effect. *)
disk_done ==
  /\ idequeue # <<>> /\ ~irq
  /\ irq' = TRUE
  /\ disk' = IF dirty[Head(idequeue)]
             THEN [disk EXCEPT ![blockno[Head(idequeue)]] = data[Head(idequeue)]]
             ELSE disk
  /\ UNCHANGED <<bufVars, idequeue, procVars>>

(* Faulty variant: the wrong end of the queue is removed. *)
Unqueued_last(q) == SubSeq(q, 1, Len(q) - 1)

Unqueued(q) == Tail(q)

(* ideintr(): fetch the data of a read (not if the disk reports an error),   *)
(* set the flags, wake the waiters, start the next request.                  *)
ideintr ==
  /\ irq /\ idequeue # <<>>
  /\ LET b == Head(idequeue)
     IN  /\ \/ ~dirty[b] /\ data' = [data EXCEPT ![b] = disk[blockno[b]]]
            \/ (dirty[b] \/ ReadErrors) /\ UNCHANGED data
         /\ valid' = [valid EXCEPT ![b] = TRUE]
         /\ dirty' = [dirty EXCEPT ![b] = FALSE]
         /\ pc' = Wakeup(b)
  /\ idequeue' = Unqueued(idequeue)
  /\ irq' = FALSE
  /\ UNCHANGED <<lru, blockno, busy, disk, buf, want>>

-----------------------------------------------------------------------------
GetStep(p) == bget_hit(p) \/ bget_sleep(p) \/ bget_recycle(p) \/ bget_panic(p)

UseStep(p) == brelse(p) \/ \E v \in Values : bwrite(p, v) \/ log_write(p, v)

RwStep(p) == iderw(p) \/ iderw_woken(p)

Next ==
  \/ \E p \in Procs : (\E k \in Blocks : bread(p, k)) \/ GetStep(p) \/ UseStep(p) \/ RwStep(p)
  \/ disk_done
  \/ ideintr

SafetySpec == Init /\ [][Next]_vars

(* The disk answers every command, calls keep executing, and the user of a   *)
(* buffer releases it.  Waiters compete for a released buffer without order, *)
(* hence the strong fairness of bget().                                      *)
Spec ==
  /\ SafetySpec
  /\ WF_vars(disk_done) /\ WF_vars(ideintr)
  /\ \A p \in Procs :
       /\ WF_vars(RwStep(p))
       /\ SF_vars(bget_hit(p) \/ bget_recycle(p)) /\ WF_vars(bget_sleep(p))
       /\ SF_vars(brelse(p))

-----------------------------------------------------------------------------
(* Every variable keeps its type; the list holds every buffer once. *)
TypeOK ==
  /\ lru \in [1 .. NBUF -> Bufs] /\ \A b \in Bufs : \E i \in 1 .. NBUF : lru[i] = b
  /\ blockno \in [Bufs -> Blocks \cup {NoBlock}]
  /\ busy \in [Bufs -> BOOLEAN] /\ valid \in [Bufs -> BOOLEAN]
  /\ dirty \in [Bufs -> BOOLEAN]
  /\ data \in [Bufs -> Values]
  /\ idequeue \in Seq(Bufs)
  /\ irq \in BOOLEAN
  /\ disk \in [Blocks -> Values]
  /\ pc \in [Procs -> {"idle", "bget", "bget_asleep", "panic", "use", "rw", "rw_asleep", "rw_woken"}]
  /\ buf \in [Procs -> Bufs \cup {NoBuf}]
  /\ want \in [Procs -> Blocks \cup {NoBlock}]

Holds(p) == pc[p] \in {"use", "rw", "rw_asleep", "rw_woken"}

(* "Only one process at a time can use a buffer": a busy buffer has exactly  *)
(* one holder, and no block is cached in two buffers.                        *)
OneHolder ==
  /\ \A b \in Bufs : busy[b] <=> \E p \in Procs : Holds(p) /\ buf[p] = b
  /\ \A p, q \in Procs : Holds(p) /\ Holds(q) /\ buf[p] = buf[q] => p = q
  /\ \A b, c \in Bufs : blockno[b] = blockno[c] /\ blockno[b] # NoBlock => b = c

(* The disk queue never holds a buffer twice or one that nobody holds, so    *)
(* linking it through qnext is safe, and its user is inside iderw().         *)
QueueSound ==
  /\ \A i, j \in DOMAIN idequeue : idequeue[i] = idequeue[j] => i = j
  /\ \A i \in DOMAIN idequeue :
       \E p \in Procs : buf[p] = idequeue[i] /\ pc[p] \in {"rw_asleep", "rw_woken"}

(* A valid buffer without unwritten changes equals the disk: "B_VALID: the   *)
(* buffer data has been read from the disk".                                 *)
ValidMatchesDisk ==
  \A b \in Bufs : valid[b] /\ ~dirty[b] => data[b] = disk[blockno[b]]

(* A process has the buffer of the block it asked for; what bread() returned *)
(* is valid, and iderw() is called with something to do.                     *)
HolderInv ==
  \A p \in Procs :
    /\ pc[p] # "idle" => want[p] \in Blocks
    /\ Holds(p) => buf[p] \in Bufs /\ blockno[buf[p]] = want[p]
    /\ pc[p] = "use" => valid[buf[p]]
    /\ pc[p] = "rw" => ~Done(buf[p])

(* What the flags of a buffer say, also about its place in the disk queue,   *)
(* and that the interrupt of a write comes after the write.                  *)
FlagInv ==
  /\ \A b \in Bufs : (dirty[b] => valid[b]) /\ (valid[b] => blockno[b] \in Blocks)
  /\ \A i \in DOMAIN idequeue : ~Done(idequeue[i])
  /\ irq => idequeue # <<>>
  /\ irq /\ dirty[Head(idequeue)] =>
       data[Head(idequeue)] = disk[blockno[Head(idequeue)]]

(* bget() panics only if every one of the NBUF buffers has a user or a       *)
(* change that the log has yet to commit: none is lost on the way.           *)
PanicOnlyWhenFull ==
  \A p \in Procs : pc[p] = "panic" =>
    Cardinality({q \in Procs : Holds(q)}) + Cardinality({b \in Bufs : dirty[b] /\ ~busy[b]}) = NBUF

(* What bget(), iderw() and ideintr() keep true of flags, list and queue     *)
(* whatever order processes, sleeps and disk interrupts come in.  After an   *)
(* error ideintr() leaves the data as it was and still sets B_VALID.         *)
BuffersSound ==
  /\ TypeOK /\ OneHolder /\ QueueSound /\ HolderInv /\ FlagInv /\ PanicOnlyWhenFull
  /\ ReadErrors \/ ValidMatchesDisk

(* The content of block k, wherever its current copy is. *)
Content(k) ==
  IF \E b \in Cached(k) : valid[b] \/ dirty[b]
  THEN data[CHOOSE b \in Cached(k) : TRUE] ELSE disk[k]

(* The process that bread() has returned block k to. *)
InUse(p) == Holds(p) /\ valid[buf[p]]
Owner(k) ==
  IF \E p \in Procs : InUse(p) /\ blockno[buf[p]] = k
  THEN CHOOSE p \in Procs : InUse(p) /\ blockno[buf[p]] = k ELSE NoProc

Store == INSTANCE BlockStore WITH
  content <- [k \in Blocks |-> Content(k)],
  owner <- [k \in Blocks |-> Owner(k)],
  view <- [p \in Procs |-> IF InUse(p) THEN data[buf[p]] ELSE NoValue]

(* The cache is transparent: recycling, disk requests and sleeping users     *)
(* never lose a change nor show a stale block.                               *)
CacheIsStore == Store!Spec

(* Every bread() returns, even if others keep using the block and the disk   *)
(* and processes wait for one buffer with another in hand: no waiter of      *)
(* bget() or iderw() misses its wakeup, and they do not wait in a circle.    *)
BreadReturns == \A p \in Procs : pc[p] = "bget" ~> pc[p] = "use"
=============================================================================
