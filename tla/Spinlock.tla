------------------------------- MODULE Spinlock -------------------------------
(***************************************************************************)
(* Spin locks (spinlock.c) on several CPUs that take interrupts.  Kernel   *)
(* code runs with interrupts on when it holds no lock; an interrupt gate   *)
(* turns them off, the handler takes locks of its own, and iret turns them *)
(* on again.  Code takes locks in one order and never one it has.          *)
(***************************************************************************)
EXTENDS Integers, FiniteSets

CONSTANTS
  CPUs,
  Locks,      \* numbers, in the order in which code takes them
  NoCpu

ASSUME LocksAssumption == IsFiniteSet(Locks) /\ Locks \subseteq Nat
ASSUME NoCpuAssumption == NoCpu \notin CPUs

VARIABLES
  locked,     \* the locks with lk->locked = 1
  lkcpu,      \* lk->cpu
  eflags,     \* the CPUs with FL_IF set
  ncli,       \* cpu->ncli
  intena,     \* the CPUs with cpu->intena set
  irq,        \* the CPUs that run an interrupt handler
  held,       \* the locks that the code on a CPU has been granted
  spinpc,     \* where it is in acquire() or release()
  lk,         \* and of which lock
  spinpanic

spinVars == <<locked, lkcpu, eflags, ncli, intena, irq, held, spinpc, lk, spinpanic>>

SpinInit ==
  /\ locked = {} /\ lkcpu = [l \in Locks |-> NoCpu]
  /\ eflags = CPUs /\ ncli = [c \in CPUs |-> 0] /\ intena = {} /\ irq = {}
  /\ held = [c \in CPUs |-> {}] /\ spinpc = [c \in CPUs |-> "run"]
  /\ lk \in [CPUs -> Locks]
  /\ spinpanic = "no"

holding(c, l) == l \in locked /\ lkcpu[l] = c

Step(c, from, to) == spinpanic = "no" /\ spinpc[c] = from /\ spinpc' = [spinpc EXCEPT ![c] = to]

(* Faulty variant: intena is overwritten by the inner call. *)
Intena_inner(c) == IF c \in eflags THEN intena \cup {c} ELSE intena \ {c}

(* What pushcli() leaves in cpu->intena. *)
Intena(c) ==
  IF ncli[c] # 0 THEN intena
  ELSE IF c \in eflags THEN intena \cup {c} ELSE intena \ {c}

(* acquire() up to the loop: pushcli() and the test of holding(). *)
acquire(c, l) ==
  /\ \A h \in held[c] : h < l
  /\ Step(c, "run", "xchg")
  /\ lk' = [lk EXCEPT ![c] = l]
  /\ eflags' = eflags \ {c}
  /\ intena' = Intena(c)
  /\ ncli' = [ncli EXCEPT ![c] = @ + 1]
  /\ spinpanic' = IF holding(c, l) THEN "acquire" ELSE "no"
  /\ UNCHANGED <<locked, lkcpu, irq, held>>

(* What the xchg() of acquire() finds when the loop ends. *)
Unlocked(l) == l \notin locked

acquire_xchg(c) ==
  /\ Step(c, "xchg", "record")
  /\ Unlocked(lk[c])
  /\ locked' = locked \cup {lk[c]}
  /\ held' = [held EXCEPT ![c] = @ \cup {lk[c]}]
  /\ UNCHANGED <<lkcpu, eflags, ncli, intena, irq, lk, spinpanic>>

acquire_record(c) ==
  /\ Step(c, "record", "run")
  /\ lkcpu' = [lkcpu EXCEPT ![lk[c]] = c]
  /\ UNCHANGED <<locked, eflags, ncli, intena, irq, held, lk, spinpanic>>

Disowned(l) == [lkcpu EXCEPT ![l] = NoCpu]

release(c, l) ==
  /\ l \in held[c]
  /\ Step(c, "run", "unlock")
  /\ lk' = [lk EXCEPT ![c] = l]
  /\ lkcpu' = Disowned(l)
  /\ spinpanic' = IF holding(c, l) THEN "no" ELSE "release"
  /\ UNCHANGED <<locked, eflags, ncli, intena, irq, held>>

release_xchg(c) ==
  /\ Step(c, "unlock", "popcli")
  /\ locked' = locked \ {lk[c]}
  /\ held' = [held EXCEPT ![c] = @ \ {lk[c]}]
  /\ UNCHANGED <<lkcpu, eflags, ncli, intena, irq, lk, spinpanic>>

(* popcli() calls sti(). *)
Sti(c) == ncli[c] = 1 /\ c \in intena

popcli(c) ==
  /\ Step(c, "popcli", "run")
  /\ ncli' = [ncli EXCEPT ![c] = @ - 1]
  /\ eflags' = IF Sti(c) THEN eflags \cup {c} ELSE eflags
  /\ spinpanic' = IF c \in eflags THEN "popcli - interruptible"
                  ELSE IF ncli[c] < 1 THEN "popcli" ELSE "no"
  /\ UNCHANGED <<locked, lkcpu, intena, irq, held, lk>>

interrupt(c) ==
  /\ Step(c, "run", "run")
  /\ c \in eflags
  /\ eflags' = eflags \ {c}
  /\ irq' = irq \cup {c}
  /\ UNCHANGED <<locked, lkcpu, ncli, intena, held, lk, spinpanic>>

iret(c) ==
  /\ Step(c, "run", "run")
  /\ c \in irq /\ held[c] = {}
  /\ eflags' = eflags \cup {c}
  /\ irq' = irq \ {c}
  /\ UNCHANGED <<locked, lkcpu, ncli, intena, held, lk, spinpanic>>

SpinNext ==
  \E c \in CPUs :
    \/ \E l \in Locks : acquire(c, l) \/ release(c, l)
    \/ acquire_xchg(c) \/ acquire_record(c) \/ release_xchg(c) \/ popcli(c)
    \/ interrupt(c) \/ iret(c)

SpinSpec == SpinInit /\ [][SpinNext]_spinVars

-----------------------------------------------------------------------------
(* Two CPUs never hold the same lock. *)
MutualExclusion == \A c, d \in CPUs : c # d => held[c] \cap held[d] = {}

(* holding() is right for the CPU that asks, although it reads lk->locked    *)
(* and lk->cpu without a lock while other CPUs write them.                   *)
HoldingExact ==
  \A c \in CPUs, l \in Locks : spinpc[c] = "run" => (holding(c, l) <=> l \in held[c])

(* A CPU that holds or waits for a lock takes no interrupt, so no handler    *)
(* can wait for its own CPU: acquire() says "to avoid deadlock".             *)
QuietWhileHeld ==
  \A c \in CPUs : held[c] # {} \/ spinpc[c] # "run" => c \notin eflags

(* When the last lock is released interrupts are again as they were: on in   *)
(* ordinary code, off in a handler.                                          *)
InterruptsRestored ==
  \A c \in CPUs : spinpc[c] = "run" /\ held[c] = {} => (c \in eflags <=> c \notin irq)

(* No assertion of spinlock.c fails. *)
NoSpinPanic == spinpanic = "no"

(* What the kernel relies on in spin locks. *)
LocksSafe ==
  MutualExclusion /\ HoldingExact /\ QuietWhileHeld /\ InterruptsRestored /\ NoSpinPanic

Sites == {"run", "xchg", "record", "unlock", "popcli"}

SpinTypeOK ==
  /\ locked \subseteq Locks /\ lkcpu \in [Locks -> CPUs \cup {NoCpu}]
  /\ eflags \subseteq CPUs /\ intena \subseteq CPUs /\ irq \subseteq CPUs
  /\ ncli \in [CPUs -> Nat] /\ held \in [CPUs -> SUBSET Locks]
  /\ spinpc \in [CPUs -> Sites] /\ lk \in [CPUs -> Locks]

(* lk->locked is set while a CPU has the lock, and lk->cpu names that CPU    *)
(* but for the steps of acquire() and release() on the two sides.            *)
GrantInv ==
  /\ \A l \in locked : \E c \in CPUs : l \in held[c]
  /\ \A c \in CPUs : held[c] \subseteq locked
  /\ \A l \in Locks, c \in CPUs : lkcpu[l] = c => l \in held[c]
  /\ \A c \in CPUs : \A l \in held[c] :
       lkcpu[l] = c \/ (spinpc[c] \in {"record", "unlock"} /\ lk[c] = l)
  /\ \A c \in CPUs : spinpc[c] \in {"record", "unlock"} => lk[c] \in held[c]
  /\ \A c \in CPUs : spinpc[c] = "xchg" => lk[c] \notin held[c]
  /\ \A c \in CPUs : spinpc[c] = "unlock" => lkcpu[lk[c]] # c

(* cpu->ncli is the number of locks that the CPU has or is taking or giving  *)
(* back, and cpu->intena the flag that the first of them found.              *)
CliOf(c) ==
  /\ ncli[c] = Cardinality(held[c]) + IF spinpc[c] \in {"xchg", "popcli"} THEN 1 ELSE 0
  /\ IF ncli[c] = 0 THEN c \in eflags <=> c \notin irq
     ELSE c \notin eflags /\ (c \in intena <=> c \notin irq)
CliInv == \A c \in CPUs : CliOf(c)

(* The invariant that acquire(), release(), pushcli() and popcli() keep by   *)
(* induction, and with it the safety of spin locks.                          *)
SpinInv == LocksSafe /\ SpinTypeOK /\ GrantInv /\ CliInv
==============================================================================
