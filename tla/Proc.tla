-------------------------------- MODULE Proc --------------------------------
(***************************************************************************)
(* The process table of xv6 (proc.c) and the parts of trap.c that drive    *)
(* it: fork, exit, wait, kill, sleep, wakeup, yield and the per-CPU        *)
(* scheduler.  ptable.lock is explicit, because it is handed over: the     *)
(* process that calls sched() acquires it and the scheduler, or the next   *)
(* process, releases it.  A critical section that does not call sched() is *)
(* one step; a swtch() is a step of its own.                               *)
(***************************************************************************)
EXTENDS Naturals, FiniteSets

CONSTANTS
  NPROC,      \* slots of the process table (param.h)
  CPUs,       \* the processors
  KillPids,   \* the arguments kill() is called with
  MaxPid      \* bound on the pids handed out

Slots == 1 .. NPROC
initproc == 1
NoProc == 0     \* the null struct proc pointer; as ctx[c]: the scheduler's stack
NoCpu == "no cpu"   \* ptable.lock is free
IoChan == NPROC + 1   \* a channel other than a process: a buffer, a pipe, ticks

ASSUME ProcConstants ==
  /\ NPROC \in Nat /\ NPROC >= 1
  /\ NoCpu \notin CPUs
  /\ KillPids \subseteq Nat
  /\ MaxPid \in Nat

VARIABLES
  state, pid, parent, chan, killed,   \* struct proc
  pc,        \* what the process does next: a point in user or kernel code
  kst,       \* is it running, inside sched(), switched out, or resuming?
  np,        \* the child that a fork() in progress is building
  ctx,       \* whose kernel stack each CPU runs on
  next,      \* the slot at which each CPU's scheduler() resumes its scan
  lock,      \* the CPU that holds ptable.lock
  nextpid

tableVars == <<state, pid, parent, chan, killed>>
cpuVars == <<ctx, next>>
vars == <<state, pid, parent, chan, killed, pc, kst, np, ctx, next, lock, nextpid>>

States == {"UNUSED", "EMBRYO", "SLEEPING", "RUNNABLE", "RUNNING", "ZOMBIE"}

PCs == {"none", "forkret", "user", "fork_alloc", "fork_ready", "wait_slept", "io",
        "dead"}

-----------------------------------------------------------------------------
(* userinit(): the first process is ready to run and every CPU is about to   *)
(* enter scheduler().                                                        *)
Init ==
  /\ state = [p \in Slots |-> IF p = initproc THEN "RUNNABLE" ELSE "UNUSED"]
  /\ pid = [p \in Slots |-> IF p = initproc THEN 1 ELSE 0]
  /\ parent = [p \in Slots |-> NoProc]
  /\ chan = [p \in Slots |-> NoProc]
  /\ killed = [p \in Slots |-> FALSE]
  /\ pc = [p \in Slots |-> IF p = initproc THEN "forkret" ELSE "none"]
  /\ kst = [p \in Slots |-> IF p = initproc THEN "off" ELSE "none"]
  /\ np = [p \in Slots |-> NoProc]
  /\ ctx = [c \in CPUs |-> NoProc]
  /\ next = [c \in CPUs |-> 1]
  /\ lock = NoCpu
  /\ nextpid = 2

(* Process p executes on CPU c, outside sched(). *)
Runs(c, p) == ctx[c] = p /\ kst[p] = "run"

(* p can execute a short critical section under ptable.lock on CPU c. *)
CanLock(c, p) == Runs(c, p) /\ lock = NoCpu

(* Faulty variant: the lock is released before the swtch(). *)
EnterSched_unlocked(c, p, point) ==
  /\ lock' = NoCpu
  /\ kst' = [kst EXCEPT ![p] = "sched"]
  /\ pc' = [pc EXCEPT ![p] = point]

(* sched() is entered with ptable.lock held and the state already changed. *)
EnterSched(c, p, point) ==
  /\ lock' = c
  /\ kst' = [kst EXCEPT ![p] = "sched"]
  /\ pc' = [pc EXCEPT ![p] = point]

(* wakeup1(): every process of s asleep on ch becomes runnable. *)
wakeup1(s, ch) ==
  [p \in Slots |-> IF s[p] = "SLEEPING" /\ chan[p] = ch THEN "RUNNABLE" ELSE s[p]]

-----------------------------------------------------------------------------
(* A loop over ptable.proc that looks for a slot of S finds q. *)
First(q, S) == q \in S /\ \A other \in S : q <= other

(* fork(), first part: allocproc() claims the first UNUSED slot. *)
Unused == {p \in Slots : state[p] = "UNUSED"}

PidAfter(n) == n + 1

allocproc(c, p) ==
  /\ CanLock(c, p) /\ pc[p] = "user" /\ ~killed[p]
  /\ nextpid <= MaxPid
  /\ \E q \in Slots :
       /\ First(q, Unused)
       /\ state' = [state EXCEPT ![q] = "EMBRYO"]
       /\ pid' = [pid EXCEPT ![q] = nextpid]
       /\ np' = [np EXCEPT ![p] = q]
  /\ nextpid' = PidAfter(nextpid)
  /\ pc' = [pc EXCEPT ![p] = "fork_alloc"]
  /\ UNCHANGED <<parent, chan, killed, kst, cpuVars, lock>>

(* kalloc() or copyuvm() fails: the slot is given back without the lock. *)
fork_fail(c, p) ==
  /\ Runs(c, p) /\ pc[p] = "fork_alloc"
  /\ state' = [state EXCEPT ![np[p]] = "UNUSED"]
  /\ np' = [np EXCEPT ![p] = NoProc]
  /\ pc' = [pc EXCEPT ![p] = "user"]
  /\ UNCHANGED <<pid, parent, chan, killed, kst, cpuVars, lock, nextpid>>

(* The memory is copied; the parent pointer is set without the lock. *)
fork_copy(c, p) ==
  /\ Runs(c, p) /\ pc[p] = "fork_alloc"
  /\ parent' = [parent EXCEPT ![np[p]] = p]
  /\ pc' = [pc EXCEPT ![p] = "fork_ready"]
  /\ UNCHANGED <<state, pid, chan, killed, kst, np, cpuVars, lock, nextpid>>

(* The last part of fork(): the child may run, and starts in forkret(). *)
fork_ready(c, p) ==
  /\ CanLock(c, p) /\ pc[p] = "fork_ready"
  /\ state' = [state EXCEPT ![np[p]] = "RUNNABLE"]
  /\ pc' = [pc EXCEPT ![p] = "user", ![np[p]] = "forkret"]
  /\ kst' = [kst EXCEPT ![np[p]] = "off"]
  /\ np' = [np EXCEPT ![p] = NoProc]
  /\ UNCHANGED <<pid, parent, chan, killed, cpuVars, lock, nextpid>>

-----------------------------------------------------------------------------
Kids(p) == {q \in Slots : parent[q] = p}

(* Faulty variant: the children keep the dead process as their parent. *)
Reparented_no(p) == parent

Reparented(p) == [q \in Slots |-> IF q \in Kids(p) THEN initproc ELSE parent[q]]

(* Faulty variant: nobody is woken. *)
WokenByExit_none(p) == state

(* The parent is woken, and init when it inherits a zombie. *)
WokenByExit(p) ==
  LET woken == wakeup1(state, parent[p])
  IN  IF \E q \in Kids(p) : woken[q] = "ZOMBIE" THEN wakeup1(woken, initproc) ELSE woken

(* exit(), called by the process or by trap() for one that is killed or has  *)
(* misbehaved: wake the parent, pass the children to init, become a zombie,  *)
(* enter the scheduler.  init never exits ("init exiting" is a panic).       *)
exit(c, p) ==
  /\ CanLock(c, p) /\ pc[p] = "user" /\ p # initproc
  /\ state' = [WokenByExit(p) EXCEPT ![p] = "ZOMBIE"]
  /\ parent' = Reparented(p)
  /\ EnterSched(c, p, "dead")
  /\ UNCHANGED <<pid, chan, killed, np, cpuVars, nextpid>>

-----------------------------------------------------------------------------
(* wait() scans the table with ptable.lock: on entry it acquires it, after a *)
(* sleep it still holds it.                                                  *)
InWait(c, p) ==
  \/ CanLock(c, p) /\ pc[p] = "user" /\ ~killed[p]
  \/ ctx[c] = p /\ kst[p] = "resume" /\ pc[p] = "wait_slept" /\ lock = c

ZombieKids(p) == {q \in Kids(p) : state[q] = "ZOMBIE"}

(* A zombie child is found: its stack and memory are freed with the slot. *)
wait_reap(c, p) ==
  /\ InWait(c, p)
  /\ \E q \in Slots :
       /\ First(q, ZombieKids(p))
       /\ state' = [state EXCEPT ![q] = "UNUSED"]
       /\ pid' = [pid EXCEPT ![q] = 0]
       /\ parent' = [parent EXCEPT ![q] = NoProc]
       /\ killed' = [killed EXCEPT ![q] = FALSE]
       /\ pc' = [pc EXCEPT ![p] = "user", ![q] = "none"]
       /\ kst' = [kst EXCEPT ![p] = "run", ![q] = "none"]
  /\ chan' = [chan EXCEPT ![p] = NoProc]
  /\ lock' = NoCpu
  /\ UNCHANGED <<np, cpuVars, nextpid>>

wait_fail(c, p) ==
  /\ InWait(c, p)
  /\ ZombieKids(p) = {}
  /\ Kids(p) = {} \/ killed[p]
  /\ pc' = [pc EXCEPT ![p] = "user"]
  /\ kst' = [kst EXCEPT ![p] = "run"]
  /\ chan' = [chan EXCEPT ![p] = NoProc]
  /\ lock' = NoCpu
  /\ UNCHANGED <<state, pid, parent, killed, np, cpuVars, nextpid>>

(* sleep(proc, &ptable.lock) *)
wait_sleep(c, p) ==
  /\ InWait(c, p)
  /\ ZombieKids(p) = {}
  /\ Kids(p) # {} /\ ~killed[p]
  /\ chan' = [chan EXCEPT ![p] = p]
  /\ state' = [state EXCEPT ![p] = "SLEEPING"]
  /\ EnterSched(c, p, "wait_slept")
  /\ UNCHANGED <<pid, parent, killed, np, cpuVars, nextpid>>

-----------------------------------------------------------------------------
(* sleep(chan, lk) for a channel that is not a process. *)
sleep(c, p) ==
  /\ CanLock(c, p) /\ pc[p] = "user" /\ ~killed[p]
  /\ chan' = [chan EXCEPT ![p] = IoChan]
  /\ state' = [state EXCEPT ![p] = "SLEEPING"]
  /\ EnterSched(c, p, "io")
  /\ UNCHANGED <<pid, parent, killed, np, cpuVars, nextpid>>

(* wakeup(), from another process or from an interrupt handler. *)
wakeup ==
  /\ lock = NoCpu
  /\ state' = wakeup1(state, IoChan)
  /\ UNCHANGED <<pid, parent, chan, killed, pc, kst, np, cpuVars, lock, nextpid>>

(* Faulty variant: kill() leaves a sleeper asleep. *)
KillState_no_wakeup(s) == s

KillState(s) == IF s = "SLEEPING" THEN "RUNNABLE" ELSE s

(* kill(): the first slot with the pid, whatever its state. *)
kill(c, p, target) ==
  /\ CanLock(c, p) /\ pc[p] = "user" /\ ~killed[p]
  /\ \E q \in Slots :
       /\ First(q, {r \in Slots : pid[r] = target})
       /\ killed' = [killed EXCEPT ![q] = TRUE]
       /\ state' = [state EXCEPT ![q] = KillState(@)]
  /\ UNCHANGED <<pid, parent, chan, pc, kst, np, cpuVars, lock, nextpid>>

(* A timer interrupt: trap() makes the process give up the CPU. *)
yield(c, p) ==
  /\ CanLock(c, p)
  /\ state[p] = "RUNNING"
  /\ ~(killed[p] /\ pc[p] = "user")
  /\ state' = [state EXCEPT ![p] = "RUNNABLE"]
  /\ EnterSched(c, p, pc[p])
  /\ UNCHANGED <<pid, parent, chan, killed, np, cpuVars, nextpid>>

-----------------------------------------------------------------------------
(* Faulty variant: the scan starts over. *)
ScanFrom_start(p) == 1

ScanFrom(p) == p + 1

(* swtch() in sched(): the CPU goes back to its scheduler's stack.  The      *)
(* scheduler still holds the lock and goes on with the next slot.            *)
sched(c) ==
  /\ ctx[c] # NoProc /\ kst[ctx[c]] = "sched"
  /\ kst' = [kst EXCEPT ![ctx[c]] = "off"]
  /\ next' = [next EXCEPT ![c] = ScanFrom(ctx[c])]
  /\ ctx' = [ctx EXCEPT ![c] = NoProc]
  /\ UNCHANGED <<tableVars, pc, np, lock, nextpid>>

(* Slots that scheduler() on c would still find runnable in this scan. *)
Candidates(c) ==
  {p \in Slots : state[p] = "RUNNABLE" /\ (lock = c => p >= next[c])}

(* scheduler() finds a runnable slot (acquiring the lock for a new scan) and *)
(* swtch()es to it; the process resumes inside sched() with the lock held.   *)
scheduler_run(c) ==
  /\ ctx[c] = NoProc
  /\ lock \in {NoCpu, c}
  /\ \E p \in Slots :
       /\ First(p, Candidates(c))
       /\ state' = [state EXCEPT ![p] = "RUNNING"]
       /\ ctx' = [ctx EXCEPT ![c] = p]
       /\ kst' = [kst EXCEPT ![p] = "resume"]
  /\ lock' = c
  /\ UNCHANGED <<pid, parent, chan, killed, pc, np, next, nextpid>>

(* The scan is over: the lock is released and the next scan starts at 1. *)
scheduler_release(c) ==
  /\ ctx[c] = NoProc
  /\ lock = c
  /\ Candidates(c) = {}
  /\ lock' = NoCpu
  /\ UNCHANGED <<tableVars, pc, kst, np, cpuVars, nextpid>>

(* sched() returns into yield() or sleep(), or the process starts in         *)
(* forkret(): the lock taken by the scheduler is released.                   *)
resume(c, p) ==
  /\ ctx[c] = p /\ kst[p] = "resume" /\ pc[p] # "wait_slept"
  /\ lock = c
  /\ lock' = NoCpu
  /\ kst' = [kst EXCEPT ![p] = "run"]
  /\ pc' = [pc EXCEPT ![p] = IF @ \in {"forkret", "io"} THEN "user" ELSE @]
  /\ chan' = [chan EXCEPT ![p] = NoProc]
  /\ UNCHANGED <<state, pid, parent, killed, np, cpuVars, nextpid>>

-----------------------------------------------------------------------------
(* Faulty variant: only processes that can still run are counted. *)
sys_getpcount_live ==
  Cardinality({p \in Slots : state[p] \in {"EMBRYO", "SLEEPING", "RUNNABLE", "RUNNING"}})

(* What sys_getpcount() returns to a caller that gets ptable.lock now; it    *)
(* changes nothing.                                                          *)
sys_getpcount ==
  Cardinality({p \in Slots : state[p] \in {"EMBRYO", "SLEEPING", "RUNNABLE", "RUNNING", "ZOMBIE"}})

-----------------------------------------------------------------------------
ForkStep(c, p) ==
  allocproc(c, p) \/ fork_fail(c, p) \/ fork_copy(c, p) \/ fork_ready(c, p)

WaitStep(c, p) == wait_reap(c, p) \/ wait_fail(c, p) \/ wait_sleep(c, p)

Next ==
  \/ \E c \in CPUs, p \in Slots :
       \/ ForkStep(c, p)
       \/ exit(c, p)
       \/ WaitStep(c, p)
       \/ sleep(c, p)
       \/ \E target \in KillPids : kill(c, p, target)
       \/ yield(c, p)
       \/ resume(c, p)
  \/ \E c \in CPUs :
       sched(c) \/ scheduler_run(c) \/ scheduler_release(c)
  \/ wakeup

(* What a process does in the kernel without being asked: finish a fork() or *)
(* wait(), exit() when killed; init always wait()s.                          *)
KernelStep(p) ==
  \E c \in CPUs :
    \/ fork_fail(c, p) \/ fork_copy(c, p) \/ fork_ready(c, p)
    \/ killed[p] /\ exit(c, p)
    \/ (pc[p] = "wait_slept" \/ p = initproc) /\ WaitStep(c, p)

(* Every CPU keeps executing, the timer keeps interrupting, awaited events   *)
(* come.  Strong fairness where ptable.lock must be free, or the process not *)
(* preempted, which it is again and again but not for ever.                  *)
Fairness ==
  /\ \A c \in CPUs :
       WF_vars(sched(c)) /\ SF_vars(scheduler_run(c)) /\ WF_vars(scheduler_release(c))
  /\ \A p \in Slots :
       /\ WF_vars(\E c \in CPUs : resume(c, p))
       /\ SF_vars(\E c \in CPUs : yield(c, p))
       /\ SF_vars(KernelStep(p))
  /\ SF_vars(wakeup)

SafetySpec == Init /\ [][Next]_vars

Spec == SafetySpec /\ Fairness

-----------------------------------------------------------------------------
(* Every variable keeps its type. *)
TypeOK ==
  /\ state \in [Slots -> States]
  /\ pid \in [Slots -> Nat]
  /\ parent \in [Slots -> Slots \cup {NoProc}]
  /\ chan \in [Slots -> Slots \cup {NoProc, IoChan}]
  /\ killed \in [Slots -> BOOLEAN]
  /\ pc \in [Slots -> PCs]
  /\ kst \in [Slots -> {"none", "off", "resume", "run", "sched"}]
  /\ np \in [Slots -> Slots \cup {NoProc}]
  /\ ctx \in [CPUs -> Slots \cup {NoProc}]
  /\ next \in [CPUs -> 1 .. NPROC + 1]
  /\ lock \in CPUs \cup {NoCpu}
  /\ nextpid \in Nat

(* No two CPUs ever execute on one kernel stack, and no CPU executes on the  *)
(* stack of a slot that wait() has freed: sleep(), yield() and exit() keep   *)
(* ptable.lock until scheduler() has switched away from the stack.           *)
StackExclusive ==
  \A c \in CPUs : ctx[c] # NoProc =>
    /\ state[ctx[c]] \notin {"UNUSED", "EMBRYO"}
    /\ \A d \in CPUs \ {c} : ctx[d] # ctx[c]

(* A process is RUNNING exactly while a CPU executes it, but for the window  *)
(* inside sched() in which that CPU holds ptable.lock.                       *)
RunningOnCpu ==
  /\ \A p \in Slots : state[p] = "RUNNING" => \E c \in CPUs : ctx[c] = p
  /\ \A c \in CPUs : ctx[c] # NoProc /\ state[ctx[c]] # "RUNNING" => lock = c

(* Where each kernel stack is: in use on a CPU, which holds ptable.lock      *)
(* unless the process runs outside sched(), or switched out, or free.        *)
StackInv ==
  /\ \A p \in Slots :
       /\ kst[p] = "none" <=> state[p] \in {"UNUSED", "EMBRYO"}
       /\ kst[p] \in {"run", "resume"} => state[p] = "RUNNING"
       /\ kst[p] \in {"off", "sched"} => state[p] \in {"SLEEPING", "RUNNABLE", "ZOMBIE"}
       /\ kst[p] \in {"run", "resume", "sched"} => \E c \in CPUs : ctx[c] = p
  /\ \A c \in CPUs : ctx[c] # NoProc =>
       /\ kst[ctx[c]] \in {"run", "resume", "sched"}
       /\ kst[ctx[c]] # "run" => lock = c

(* A fork() in progress has a slot of its own, EMBRYO until it is done.      *)
Forking(p) == pc[p] \in {"fork_alloc", "fork_ready"}
ForkInv ==
  \A p \in Slots : Forking(p) =>
    /\ np[p] \in Slots /\ state[np[p]] = "EMBRYO"
    /\ \A q \in Slots : Forking(q) /\ np[q] = np[p] => q = p

(* The CPUs, the kernel stacks and the states in ptable agree through every  *)
(* switch of scheduler(), sched(), sleep(), yield() and exit(), and through  *)
(* the steps of fork() that do not hold ptable.lock.                         *)
StacksOwned == TypeOK /\ StackExclusive /\ RunningOnCpu /\ StackInv /\ ForkInv

(* A process that has started has a parent that can still wait() for it: the *)
(* parent's slot is neither free nor a zombie, since exit() hands children   *)
(* to init in the critical section that makes the caller a zombie.           *)
ParentAlive ==
  \A p \in Slots \ {initproc} :
    state[p] \notin {"UNUSED", "EMBRYO"} =>
      parent[p] # NoProc /\ state[parent[p]] \notin {"UNUSED", "EMBRYO", "ZOMBIE"}

(* wait() never sleeps through the death of a child: a process asleep in     *)
(* wait() has no zombie child.                                               *)
NoMissedZombie ==
  \A p \in Slots : state[p] = "SLEEPING" /\ chan[p] = p => ZombieKids(p) = {}

(* Two slots in use never have the same pid. *)
PidUnique ==
  \A p, q \in Slots :
    state[p] # "UNUSED" /\ state[q] # "UNUSED" /\ pid[p] = pid[q] => p = q

(* init is always there to inherit, nobody is their own parent, and a slot   *)
(* is in use exactly if it is init's, somebody's child, or just allocated.   *)
Allocated(p) == \E r \in Slots : pc[r] = "fork_alloc" /\ np[r] = p
TreeInv ==
  /\ state[initproc] \notin {"UNUSED", "EMBRYO", "ZOMBIE"} /\ parent[initproc] = NoProc
  /\ \A p \in Slots :
       /\ parent[p] # p
       /\ pid[p] < nextpid
       /\ state[p] = "ZOMBIE" => pc[p] = "dead"
       /\ pc[p] = "none" <=> state[p] \in {"UNUSED", "EMBRYO"}
       /\ pc[p] = "fork_ready" => parent[np[p]] = p
       /\ pc[p] = "fork_alloc" => parent[np[p]] = NoProc
       /\ state[p] # "UNUSED" <=> p = initproc \/ parent[p] # NoProc \/ Allocated(p)

(* What fork(), exit(), wait() and kill() rely on: the links from child to   *)
(* parent, the zombies and the pids stay consistent when families fork and   *)
(* exit in any order.                                                        *)
ProcessTree == ParentAlive /\ NoMissedZombie /\ PidUnique /\ TreeInv

(* getpcount() counts init, every child that nobody has waited for yet, and  *)
(* the slots of fork()s in progress, although fork() claims, hands over and  *)
(* gives back a slot in separate steps, one of them without ptable.lock.     *)
PcountExact ==
  lock = NoCpu =>
    sys_getpcount = 1 + Cardinality({p \in Slots : parent[p] # NoProc})
                      + Cardinality({p \in Slots : pc[p] = "fork_alloc"})

(* A runnable process is run: the round-robin scan of scheduler() resumes    *)
(* behind the process that ran last, so no slot is passed over for ever.     *)
RunnableRuns ==
  \A p \in Slots : state[p] = "RUNNABLE" ~> state[p] = "RUNNING"

(* A zombie that init is to reap is reaped. *)
OrphanReaped ==
  \A p \in Slots :
    state[p] = "ZOMBIE" /\ parent[p] = initproc ~> state[p] = "UNUSED"

(* kill() is not forgotten: a killed process, asleep in wait() or not, gets  *)
(* to exit().                                                                *)
KilledExits ==
  \A p \in Slots \ {initproc} :
    killed[p] /\ state[p] \notin {"UNUSED", "EMBRYO"}
      ~> state[p] \in {"ZOMBIE", "UNUSED"}
=============================================================================
