-------------------------------- MODULE Pipe --------------------------------
(***************************************************************************)
(* A pipe (pipe.c) used by several writers and readers.  p->lock is held   *)
(* for the whole of a call except while the caller sleeps, so a call is a  *)
(* sequence of steps: what it does under the lock up to its return or to   *)
(* the call of sleep(), then sleep() itself, then, once woken, the next    *)
(* round.  kill() takes ptable.lock only and may come between the test of  *)
(* proc->killed and the sleep().                                           *)
(***************************************************************************)
EXTENDS Integers, Sequences, FiniteSets

CONSTANTS
  Writers, Readers,  \* the processes that hold the write and the read end
  Killable,          \* the processes kill() is called for
  Bytes,             \* byte values
  PIPESIZE,
  WORD,              \* 2^w for the w-bit counters nread and nwrite
  MaxN,              \* largest n of a read or write
  MaxWrites          \* bound on the number of write calls

Procs == Writers \cup Readers
NoOne == "none"

ASSUME PipeConstants ==
  /\ PIPESIZE \in Nat \ {0} /\ WORD \in Nat
  /\ WORD % PIPESIZE = 0 /\ WORD > PIPESIZE
  /\ MaxN \in Nat \ {0} /\ MaxWrites \in Nat
  /\ Bytes # {}
  /\ Writers \cap Readers = {}
  /\ NoOne \notin Procs
  /\ Killable \subseteq Procs

VARIABLES
  data, nread, nwrite, readopen, writeopen,  \* struct pipe
  lock,       \* the holder of p->lock
  pc,         \* idle, tosleep (tested, holds the lock), asleep, woken
  left,       \* writer: the bytes not yet written; reader: n of the call
  killed,
  holders,    \* the processes that have not closed their end
  delivered,  \* the bytes that the last step, if a piperead(), returned
  writes      \* number of write calls made

pipeVars == <<data, nread, nwrite, readopen, writeopen>>
vars == <<data, nread, nwrite, readopen, writeopen, lock, pc, left, killed,
          holders, delivered, writes>>

(* pipealloc(); kfree() has filled the page with one byte value. *)
Init ==
  /\ data = [j \in 0 .. PIPESIZE - 1 |-> CHOOSE b \in Bytes : TRUE]
  /\ nread = 0 /\ nwrite = 0
  /\ readopen = TRUE /\ writeopen = TRUE
  /\ lock = NoOne
  /\ pc = [p \in Procs |-> "idle"]
  /\ left = [p \in Procs |-> IF p \in Writers THEN <<>> ELSE 0]
  /\ killed = [p \in Procs |-> FALSE]
  /\ holders = Procs
  /\ delivered = <<>>
  /\ writes = 0

(* Bytes in the pipe, in the arithmetic of the counters. *)
Count == (nwrite - nread) % WORD

Contents == [i \in 1 .. Count |-> data[(nread + i - 1) % PIPESIZE]]

(* Faulty variants: nobody is woken; one sleeper is. *)
Wakeup_none(f, who) == f
Wakeup_one(f, who) ==
  IF \E p \in who : f[p] = "asleep"
  THEN [f EXCEPT ![CHOOSE p \in who : f[p] = "asleep"] = "woken"] ELSE f

(* pcs after wakeup() on the channel of the given processes. *)
Wakeup(f, who) == [p \in Procs |-> IF p \in who /\ f[p] = "asleep" THEN "woken" ELSE f[p]]

SmallerOf(m, n) == IF m < n THEN m ELSE n

-----------------------------------------------------------------------------
Room == PIPESIZE - Count

(* Faulty variant: the message starts over after a sleep. *)
Unwritten_restart(msg) == IF Len(msg) <= Room THEN <<>> ELSE msg

Unwritten(msg) == SubSeq(msg, SmallerOf(Len(msg), Room) + 1, Len(msg))

(* The loop of pipewrite() until the message is written or the pipe is full. *)
PutBytes(msg) ==
  LET k == SmallerOf(Len(msg), Room)
  IN  /\ data' = [j \in 0 .. PIPESIZE - 1 |->
                    LET i == (j - nwrite) % PIPESIZE
                    IN  IF i < k THEN msg[i + 1] ELSE data[j]]
      /\ nwrite' = (nwrite + k) % WORD

(* One round of pipewrite(): return n, return -1 or prepare to sleep. *)
WriteRound(p, msg) ==
  /\ lock = NoOne
  /\ PutBytes(msg)
  /\ \/ /\ Unwritten(msg) = <<>>
        /\ pc' = [Wakeup(pc, Readers) EXCEPT ![p] = "idle"]
        /\ UNCHANGED lock
     \/ /\ Unwritten(msg) # <<>>
        /\ ~readopen \/ killed[p]
        /\ pc' = [pc EXCEPT ![p] = "idle"]
        /\ UNCHANGED lock
     \/ /\ Unwritten(msg) # <<>>
        /\ readopen /\ ~killed[p]
        /\ pc' = [Wakeup(pc, Readers) EXCEPT ![p] = "tosleep"]
        /\ lock' = p
  /\ left' = [left EXCEPT ![p] = IF pc'[p] = "idle" THEN <<>> ELSE Unwritten(msg)]
  /\ delivered' = <<>>
  /\ UNCHANGED <<nread, readopen, writeopen, killed, holders>>

pipewrite(p) ==
  /\ p \in holders /\ pc[p] = "idle" /\ ~killed[p]
  /\ writes < MaxWrites
  /\ \E n \in 1 .. MaxN : \E msg \in [1 .. n -> Bytes] : WriteRound(p, msg)
  /\ writes' = writes + 1

pipewrite_woken(p) ==
  /\ pc[p] = "woken"
  /\ WriteRound(p, left[p])
  /\ UNCHANGED writes

(* One round of piperead(): sleep on an empty pipe, or copy and return. *)
ReadRound(p, n) ==
  /\ lock = NoOne
  /\ \/ /\ nread = nwrite /\ writeopen
        /\ \/ /\ killed[p]
              /\ pc' = [pc EXCEPT ![p] = "idle"]
              /\ left' = [left EXCEPT ![p] = 0]
              /\ UNCHANGED lock
           \/ /\ ~killed[p]
              /\ pc' = [pc EXCEPT ![p] = "tosleep"]
              /\ left' = [left EXCEPT ![p] = n]
              /\ lock' = p
        /\ delivered' = <<>>
        /\ UNCHANGED nread
     \/ /\ ~(nread = nwrite /\ writeopen)
        /\ LET k == SmallerOf(n, Count)
           IN  /\ nread' = (nread + k) % WORD
               /\ delivered' = SubSeq(Contents, 1, k)
        /\ pc' = [Wakeup(pc, Writers) EXCEPT ![p] = "idle"]
        /\ left' = [left EXCEPT ![p] = 0]
        /\ UNCHANGED lock
  /\ UNCHANGED <<data, nwrite, readopen, writeopen, killed, holders, writes>>

piperead(p) ==
  /\ p \in holders /\ pc[p] = "idle" /\ ~killed[p]
  /\ \E n \in 1 .. MaxN : ReadRound(p, n)

piperead_woken(p) == pc[p] = "woken" /\ ReadRound(p, left[p])

(* sleep(): with ptable.lock held, p->lock is released and p sleeps. *)
sleep(p) ==
  /\ pc[p] = "tosleep"
  /\ pc' = [pc EXCEPT ![p] = "asleep"]
  /\ lock' = NoOne
  /\ delivered' = <<>>
  /\ UNCHANGED <<pipeVars, left, killed, holders, writes>>

-----------------------------------------------------------------------------
(* fileclose() by p, on its own or in exit(): the last holder of an end      *)
(* calls pipeclose().                                                        *)
pipeclose(p) ==
  /\ p \in holders /\ pc[p] = "idle" /\ lock = NoOne
  /\ holders' = holders \ {p}
  /\ IF holders' \cap Writers = {} /\ p \in Writers
     THEN writeopen' = FALSE /\ pc' = Wakeup(pc, Readers) /\ UNCHANGED readopen
     ELSE IF holders' \cap Readers = {} /\ p \in Readers
     THEN readopen' = FALSE /\ pc' = Wakeup(pc, Writers) /\ UNCHANGED writeopen
     ELSE UNCHANGED <<readopen, writeopen, pc>>
  /\ delivered' = <<>>
  /\ UNCHANGED <<data, nread, nwrite, lock, left, killed, writes>>

(* kill(): under ptable.lock, so at any point of a call; p wakes if asleep. *)
kill(p) ==
  /\ p \in Killable \cap holders /\ ~killed[p]
  /\ killed' = [killed EXCEPT ![p] = TRUE]
  /\ pc' = Wakeup(pc, {p})
  /\ delivered' = <<>>
  /\ UNCHANGED <<pipeVars, lock, left, holders, writes>>

WriterStep(p) == pipewrite(p) \/ pipewrite_woken(p)

ReaderStep(p) == piperead(p) \/ piperead_woken(p)

Next ==
  \/ \E p \in Writers : WriterStep(p)
  \/ \E p \in Readers : ReaderStep(p)
  \/ \E p \in Procs : sleep(p) \/ pipeclose(p) \/ kill(p)

SafetySpec == Init /\ [][Next]_vars

(* A process inside a call keeps executing and gets p->lock in the end; one  *)
(* that holds an end and is not in a call uses the end again or closes it    *)
(* (a killed one does, in exit()).                                           *)
Spec ==
  /\ SafetySpec
  /\ \A p \in Procs : WF_vars(sleep(p))
  /\ \A p \in Writers : SF_vars(pipewrite_woken(p)) /\ SF_vars(pipewrite(p) \/ pipeclose(p))
  /\ \A p \in Readers : SF_vars(piperead_woken(p)) /\ SF_vars(piperead(p) \/ pipeclose(p))

-----------------------------------------------------------------------------
(* Every variable keeps its type. *)
TypeOK ==
  /\ data \in [0 .. PIPESIZE - 1 -> Bytes]
  /\ nread \in 0 .. WORD - 1 /\ nwrite \in 0 .. WORD - 1
  /\ readopen \in BOOLEAN /\ writeopen \in BOOLEAN
  /\ lock \in Procs \cup {NoOne}
  /\ pc \in [Procs -> {"idle", "tosleep", "asleep", "woken"}]
  /\ DOMAIN left = Procs
  /\ \A p \in Writers : left[p] \in Seq(Bytes)
  /\ \A p \in Readers : left[p] \in 0 .. MaxN
  /\ killed \in [Procs -> BOOLEAN]
  /\ holders \subseteq Procs
  /\ Count <= PIPESIZE

(* A call is made by a process that holds its end, so that the end is open;  *)
(* a writer in a call has bytes left to write, a reader room for some; who   *)
(* is about to sleep has the lock, and what it tested still holds.           *)
CallInv ==
  /\ \A p \in Procs : pc[p] # "idle" => p \in holders
  /\ holders \cap Readers # {} => readopen
  /\ holders \cap Writers # {} => writeopen
  /\ \A p \in Writers : left[p] = <<>> <=> pc[p] = "idle"
  /\ \A p \in Readers : left[p] = 0 <=> pc[p] = "idle"
  /\ \A p \in Procs : lock = p <=> pc[p] = "tosleep"
  /\ lock \in Readers => nread = nwrite /\ writeopen
  /\ lock \in Writers => Count = PIPESIZE /\ readopen

(* Nobody sleeps on a condition that has already changed: a reader sleeps    *)
(* only on an empty pipe somebody may still write to, a writer only on a     *)
(* full one somebody may still read.                                         *)
NoLostWakeup ==
  /\ \A p \in Readers : pc[p] = "asleep" => nread = nwrite /\ writeopen
  /\ \A p \in Writers : pc[p] = "asleep" => Count = PIPESIZE /\ readopen

(* Counters, flags, calls and sleepers agree at every point of piperead(),   *)
(* pipewrite() and pipeclose(), the test for a full pipe included, unless a  *)
(* writer was killed: its pipewrite() returns -1 without a wakeup().         *)
PipeSound ==
  /\ TypeOK /\ CallInv
  /\ NoLostWakeup \/ \E p \in Writers : killed[p]

Queue == INSTANCE ByteQueue WITH
  Capacity <- PIPESIZE, MaxLen <- MaxN, queue <- Contents,
  pending <- [p \in Writers |-> left[p]], ropen <- readopen, wopen <- writeopen

(* Through all interleavings, wrapped counters and reused slots the pipe is  *)
(* a bounded FIFO queue: every byte written is read once, in order, and a    *)
(* read returns 0 bytes only at the end of the file.                         *)
PipeIsQueue == Queue!Spec

(* Every piperead() and pipewrite() returns. *)
CallReturns == \A p \in Procs : pc[p] # "idle" ~> pc[p] = "idle"
=============================================================================
