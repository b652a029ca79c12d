-------------------------- MODULE ProcStackProofs --------------------------
(***************************************************************************)
(* Proofs about Proc, for any number of slots, CPUs and pids: StacksOwned, *)
(* which is inductive.  There is one lemma per action.                     *)
(***************************************************************************)
EXTENDS Proc, TLAPS

(* No two CPUs execute on one kernel stack. *)
Exclusive == \A c, d \in CPUs : ctx[c] # NoProc /\ ctx[d] = ctx[c] => d = c

(* What is left to show of StacksOwned after a step: that a stack in use     *)
(* belongs to a process, and RunningOnCpu, follow from it.                   *)
Core == TypeOK /\ Exclusive /\ StackInv /\ ForkInv

(* Core says as much as StacksOwned, *)
LEMMA CoreIsOwned == Core <=> StacksOwned
<1>1. ASSUME Core PROVE StackExclusive
  BY <1>1 DEF Core, TypeOK, Exclusive, StackInv, StackExclusive
<1>2. ASSUME Core PROVE RunningOnCpu
  BY <1>2 DEF Core, TypeOK, Exclusive, StackInv, RunningOnCpu, States
<1>3. ASSUME StacksOwned PROVE Exclusive
  BY <1>3 DEF StacksOwned, TypeOK, Exclusive, StackExclusive
<1>. QED  BY <1>1, <1>2, <1>3 DEF Core, StacksOwned

(* before a step and after it. *)
LEMMA CoreIsOwnedAfter == Core' <=> StacksOwned'
BY CoreIsOwned, PTL

(* The process that runs on a CPU is RUNNING; one inside sched() on a CPU    *)
(* that does not hold ptable.lock does not exist.                            *)
LEMMA OnCpu ==
  ASSUME Core, NEW c \in CPUs, NEW p \in Slots, ctx[c] = p
  PROVE  /\ kst[p] \in {"run", "resume"} => state[p] = "RUNNING"
         /\ kst[p] \in {"run", "resume", "sched"}
         /\ \A q \in Slots : q # p /\ kst[q] \in {"resume", "sched"} =>
              lock # NoCpu /\ lock # c
<1>1. p # NoProc
  BY DEF Slots, NoProc
<1>2. kst[p] \in {"run", "resume", "sched"}
  BY <1>1 DEF Core, StackInv
<1>3. kst[p] \in {"run", "resume"} => state[p] = "RUNNING"
  BY DEF Core, StackInv
<1>4. ASSUME NEW q \in Slots, q # p, kst[q] \in {"resume", "sched"}
      PROVE  lock # NoCpu /\ lock # c
  <2>1. PICK d \in CPUs : ctx[d] = q
    BY <1>4 DEF Core, StackInv
  <2>2. q # NoProc
    BY DEF Slots, NoProc
  <2>3. lock = d
    BY <1>4, <2>1, <2>2 DEF Core, StackInv
  <2>. QED  BY <1>4, <2>1, <2>3, ProcConstants
<1>. QED  BY <1>2, <1>3, <1>4

(* wakeup1() in exit() makes sleepers runnable and changes nothing else: at  *)
(* least the parent, and init if it inherits a zombie.                       *)
LEMMA Woken ==
  ASSUME TypeOK, NEW p \in Slots
  PROVE  /\ WokenByExit(p) \in [Slots -> States]
         /\ \A q \in Slots :
              \/ WokenByExit(p)[q] = state[q]
              \/ state[q] = "SLEEPING" /\ WokenByExit(p)[q] = "RUNNABLE"
         /\ \A q \in Slots : chan[q] = parent[p] => WokenByExit(p)[q] # "SLEEPING"
         /\ (\E q \in Kids(p) : state[q] = "ZOMBIE") =>
              \A q \in Slots : chan[q] = initproc => WokenByExit(p)[q] # "SLEEPING"
<1>. DEFINE W == wakeup1(state, parent[p])
            V == wakeup1(W, initproc)
<1>1. /\ W \in [Slots -> States]
      /\ \A q \in Slots : W[q] = state[q] \/ (state[q] = "SLEEPING" /\ W[q] = "RUNNABLE")
      /\ \A q \in Slots : chan[q] = parent[p] => W[q] # "SLEEPING"
  BY DEF TypeOK, wakeup1, States
<1>. HIDE DEF W
<1>2. /\ V \in [Slots -> States]
      /\ \A q \in Slots : V[q] = W[q] \/ (W[q] = "SLEEPING" /\ V[q] = "RUNNABLE")
      /\ \A q \in Slots : chan[q] = initproc => V[q] # "SLEEPING"
  BY <1>1 DEF wakeup1, States
<1>3. WokenByExit(p) = IF \E q \in Kids(p) : W[q] = "ZOMBIE" THEN V ELSE W
  BY DEF WokenByExit, W
<1>. HIDE DEF V
<1>4. \A q \in Kids(p) : q \in Slots
  BY DEF Kids
<1>. QED  BY <1>1, <1>2, <1>3, <1>4

(* userinit() establishes it. *)
LEMMA InitCore == Init => Core
<1>. SUFFICES ASSUME Init PROVE Core
  OBVIOUS
<1>. USE ProcConstants DEF Init, Slots, initproc, NoProc
<1>1. TypeOK
  BY DEF TypeOK, States, PCs
<1>2. Exclusive
  BY DEF Exclusive
<1>3. StackInv
  BY DEF StackInv
<1>4. ForkInv
  BY DEF ForkInv, Forking
<1>. QED  BY <1>1, <1>2, <1>3, <1>4 DEF Core

(* allocproc() takes a slot that has no stack in use and no forker. *)
LEMMA allocproc_owned ==
  ASSUME Core, NEW c \in CPUs, NEW p \in Slots, allocproc(c, p)
  PROVE  Core'
<1>. USE ProcConstants DEF Core, allocproc, cpuVars,
                           Slots, NoProc, initproc, CanLock, Runs, Unused, First, PidAfter
<1>1. TypeOK'
  BY SMTT(60) DEF TypeOK, States, PCs, ForkInv, Forking
<1>2. Exclusive'
  BY DEF TypeOK, Exclusive, StackInv
<1>3. StackInv'
  BY OnCpu, SMTT(60) DEF TypeOK, StackInv, Exclusive, ForkInv, Forking
<1>4. ForkInv'
  BY OnCpu, SMTT(60) DEF TypeOK, StackInv, ForkInv, Forking
<1>. QED  BY <1>1, <1>2, <1>3, <1>4

(* fork() gives back an EMBRYO slot, which no CPU uses. *)
LEMMA fork_fail_owned ==
  ASSUME Core, NEW c \in CPUs, NEW p \in Slots, fork_fail(c, p)
  PROVE  Core'
<1>. USE ProcConstants DEF Core, fork_fail, cpuVars, Slots, NoProc, initproc, Runs
<1>1. TypeOK'
  BY SMTT(60) DEF TypeOK, States, PCs, ForkInv, Forking
<1>2. Exclusive'
  BY DEF TypeOK, Exclusive, StackInv
<1>3. StackInv'
  BY OnCpu, SMTT(60) DEF TypeOK, StackInv, Exclusive, ForkInv, Forking
<1>4. ForkInv'
  BY OnCpu DEF TypeOK, StackInv, ForkInv, Forking
<1>. QED  BY <1>1, <1>2, <1>3, <1>4

(* Setting the parent touches neither states nor stacks. *)
LEMMA fork_copy_owned ==
  ASSUME Core, NEW c \in CPUs, NEW p \in Slots, fork_copy(c, p)
  PROVE  Core'
<1>. USE ProcConstants DEF Core, fork_copy, cpuVars, Slots, NoProc, initproc, Runs
<1>1. TypeOK'
  BY SMTT(60) DEF TypeOK, States, PCs, ForkInv, Forking
<1>2. Exclusive'
  BY DEF TypeOK, Exclusive, StackInv
<1>3. StackInv'
  BY OnCpu, SMTT(60) DEF TypeOK, StackInv, Exclusive, ForkInv, Forking
<1>4. ForkInv'
  BY OnCpu DEF TypeOK, StackInv, ForkInv, Forking
<1>. QED  BY <1>1, <1>2, <1>3, <1>4

(* The child becomes RUNNABLE and switched out. *)
LEMMA fork_ready_owned ==
  ASSUME Core, NEW c \in CPUs, NEW p \in Slots, fork_ready(c, p)
  PROVE  Core'
<1>1. /\ pc[p] = "fork_ready" /\ kst[p] = "run"
      /\ state' = [state EXCEPT ![np[p]] = "RUNNABLE"]
      /\ pc' = [pc EXCEPT ![p] = "user", ![np[p]] = "forkret"]
      /\ kst' = [kst EXCEPT ![np[p]] = "off"]
      /\ np' = [np EXCEPT ![p] = NoProc]
      /\ UNCHANGED <<pid, parent, chan, killed, ctx, next, lock, nextpid>>
  BY Zenon DEF fork_ready, CanLock, Runs, cpuVars
<1>2. /\ np[p] \in Slots /\ state[np[p]] = "EMBRYO" /\ kst[np[p]] = "none"
      /\ \A q \in Slots : Forking(q) /\ np[q] = np[p] => q = p
  BY <1>1 DEF Core, StackInv, ForkInv, Forking
<1>3. TypeOK'
  BY <1>1, <1>2 DEF Core, TypeOK, States, PCs
<1>4. Exclusive'
  BY <1>1 DEF Core, Exclusive
<1>5. StackInv'
  BY <1>1, <1>2 DEF Core, TypeOK, StackInv
<1>6. ForkInv'
  <2>1. \A q \in Slots : Forking(q)' => Forking(q) /\ q # p /\ np'[q] = np[q]
    BY <1>1, <1>2 DEF Core, TypeOK, Forking
  <2>. QED  BY <1>1, <1>2, <2>1 DEF Core, TypeOK, ForkInv
<1>. QED  BY <1>3, <1>4, <1>5, <1>6 DEF Core

(* exit() enters sched() as a zombie, with ptable.lock held. *)
LEMMA exit_owned ==
  ASSUME Core, NEW c \in CPUs, NEW p \in Slots, exit(c, p)
  PROVE  Core'
<1>1. /\ ctx[c] = p /\ kst[p] = "run" /\ lock = NoCpu
      /\ state' = [WokenByExit(p) EXCEPT ![p] = "ZOMBIE"] /\ parent' = Reparented(p)
      /\ lock' = c /\ kst' = [kst EXCEPT ![p] = "sched"] /\ pc' = [pc EXCEPT ![p] = "dead"]
      /\ UNCHANGED <<pid, chan, killed, np, ctx, next, nextpid>>
  BY Zenon DEF exit, CanLock, Runs, EnterSched, cpuVars
<1>2. /\ state' \in [Slots -> States] /\ state'[p] = "ZOMBIE"
      /\ \A q \in Slots \ {p} :
           state'[q] = state[q] \/ (state[q] = "SLEEPING" /\ state'[q] = "RUNNABLE")
  BY <1>1, Woken DEF Core, States
<1>3. parent' \in [Slots -> Slots \cup {NoProc}]
  BY <1>1, ProcConstants DEF Core, TypeOK, Reparented, Slots, initproc
<1>4. state[p] = "RUNNING" /\ \A q \in Slots : kst[q] \notin {"resume", "sched"}
  BY <1>1, OnCpu
<1>5. TypeOK'
  BY <1>1, <1>2, <1>3 DEF Core, TypeOK, PCs
<1>6. Exclusive'
  BY <1>1 DEF Core, Exclusive
<1>7. StackInv'
  <2>1. \A q \in Slots : kst'[q] = IF q = p THEN "sched" ELSE kst[q]
    BY <1>1 DEF Core, TypeOK
  <2>2. ASSUME NEW q \in Slots
        PROVE  /\ kst'[q] = "none" <=> state'[q] \in {"UNUSED", "EMBRYO"}
               /\ kst'[q] \in {"run", "resume"} => state'[q] = "RUNNING"
               /\ kst'[q] \in {"off", "sched"} => state'[q] \in {"SLEEPING", "RUNNABLE", "ZOMBIE"}
               /\ kst'[q] \in {"run", "resume", "sched"} => \E d \in CPUs : ctx'[d] = q
    BY <1>1, <1>2, <2>1 DEF Core, StackInv
  <2>3. ASSUME NEW d \in CPUs, ctx'[d] # NoProc
        PROVE  kst'[ctx'[d]] \in {"run", "resume", "sched"} /\ (kst'[ctx'[d]] # "run" => lock' = d)
    BY <1>1, <1>4, <2>1, <2>3 DEF Core, TypeOK, StackInv, Exclusive
  <2>. QED  BY <2>2, <2>3 DEF StackInv
<1>8. ForkInv'
  BY <1>1, <1>2, <1>4 DEF Core, TypeOK, ForkInv, Forking
<1>. QED  BY <1>5, <1>6, <1>7, <1>8 DEF Core

(* The zombie that wait() frees has been switched out. *)
LEMMA wait_reap_owned ==
  ASSUME Core, NEW c \in CPUs, NEW p \in Slots, wait_reap(c, p)
  PROVE  Core'
<1>1. /\ UNCHANGED <<np, ctx, next, nextpid>> /\ InWait(c, p)
      /\ lock' = NoCpu /\ chan' = [chan EXCEPT ![p] = NoProc]
  BY Zenon DEF wait_reap, cpuVars
<1>2. PICK q \in Slots :
        /\ First(q, ZombieKids(p))
        /\ state' = [state EXCEPT ![q] = "UNUSED"]
        /\ pid' = [pid EXCEPT ![q] = 0]
        /\ parent' = [parent EXCEPT ![q] = NoProc]
        /\ killed' = [killed EXCEPT ![q] = FALSE]
        /\ pc' = [pc EXCEPT ![p] = "user", ![q] = "none"]
        /\ kst' = [kst EXCEPT ![p] = "run", ![q] = "none"]
  BY Zenon DEF wait_reap
<1>3. /\ ctx[c] = p /\ kst[p] \in {"run", "resume"} /\ lock \in {NoCpu, c}
      /\ kst[p] = "resume" => lock = c
  BY <1>1, Zenon DEF InWait, CanLock, Runs
<1>4. /\ state[q] = "ZOMBIE" /\ state[p] = "RUNNING"
      /\ \A r \in Slots \ {p} : kst[r] \notin {"resume", "sched"}
  BY <1>2, <1>3, OnCpu DEF First, ZombieKids, Kids
<1>5. TypeOK'
  <2>1. killed' \in [Slots -> BOOLEAN]
    BY <1>2, Zenon DEF Core, TypeOK
  <2>2. state' \in [Slots -> States] /\ pid' \in [Slots -> Nat]
    BY <1>2 DEF Core, TypeOK, States
  <2>3. pc' \in [Slots -> PCs] /\ parent' \in [Slots -> Slots \cup {NoProc}]
    BY <1>2 DEF Core, TypeOK, PCs
  <2>4. chan' \in [Slots -> Slots \cup {NoProc, IoChan}]
    BY <1>1 DEF Core, TypeOK
  <2>5. kst' \in [Slots -> {"none", "off", "resume", "run", "sched"}]
    BY <1>2 DEF Core, TypeOK
  <2>. QED  BY <1>1, <2>1, <2>2, <2>3, <2>4, <2>5 DEF Core, TypeOK
<1>6. Exclusive'
  BY <1>1 DEF Core, Exclusive
<1>7. StackInv'
  BY <1>1, <1>2, <1>3, <1>4, ProcConstants DEF Core, TypeOK, StackInv, Exclusive
<1>8. ForkInv'
  BY <1>1, <1>2, <1>4 DEF Core, TypeOK, ForkInv, Forking
<1>. QED  BY <1>5, <1>6, <1>7, <1>8 DEF Core

(* wait() returns -1. *)
LEMMA wait_fail_owned ==
  ASSUME Core, NEW c \in CPUs, NEW p \in Slots, wait_fail(c, p)
  PROVE  Core'
<1>. USE ProcConstants DEF Core, wait_fail, cpuVars,
                           Slots, NoProc, initproc, InWait, CanLock, Runs
<1>1. TypeOK'
  BY SMTT(60) DEF TypeOK, States, PCs, ForkInv, Forking
<1>2. Exclusive'
  BY DEF TypeOK, Exclusive, StackInv
<1>3. StackInv'
  BY OnCpu DEF TypeOK, StackInv, Exclusive, ForkInv, Forking
<1>4. ForkInv'
  BY OnCpu DEF TypeOK, StackInv, ForkInv, Forking
<1>. QED  BY <1>1, <1>2, <1>3, <1>4

(* wait() sleeps with ptable.lock held. *)
LEMMA wait_sleep_owned ==
  ASSUME Core, NEW c \in CPUs, NEW p \in Slots, wait_sleep(c, p)
  PROVE  Core'
<1>. USE ProcConstants DEF Core, wait_sleep, cpuVars,
                           Slots, NoProc, initproc, InWait, CanLock, Runs, EnterSched
<1>1. TypeOK'
  BY SMTT(60) DEF TypeOK, States, PCs, ForkInv, Forking
<1>2. Exclusive'
  BY DEF TypeOK, Exclusive, StackInv
<1>3. StackInv'
  BY OnCpu, SMTT(60) DEF TypeOK, StackInv, Exclusive, ForkInv, Forking
<1>4. ForkInv'
  BY OnCpu, SMTT(60) DEF TypeOK, StackInv, ForkInv, Forking
<1>. QED  BY <1>1, <1>2, <1>3, <1>4

(* sleep() takes ptable.lock before it changes the state. *)
LEMMA sleep_owned ==
  ASSUME Core, NEW c \in CPUs, NEW p \in Slots, sleep(c, p)
  PROVE  Core'
<1>. USE ProcConstants DEF Core, sleep, cpuVars,
                           Slots, NoProc, initproc, CanLock, Runs, EnterSched, IoChan
<1>1. TypeOK'
  BY SMTT(60) DEF TypeOK, States, PCs, ForkInv, Forking
<1>2. Exclusive'
  BY DEF TypeOK, Exclusive, StackInv
<1>3. StackInv'
  BY OnCpu DEF TypeOK, StackInv, Exclusive, ForkInv, Forking
<1>4. ForkInv'
  BY OnCpu DEF TypeOK, StackInv, ForkInv, Forking
<1>. QED  BY <1>1, <1>2, <1>3, <1>4

(* yield() takes ptable.lock before it changes the state. *)
LEMMA yield_owned ==
  ASSUME Core, NEW c \in CPUs, NEW p \in Slots, yield(c, p)
  PROVE  Core'
<1>. USE ProcConstants DEF Core, yield, cpuVars,
                           Slots, NoProc, initproc, CanLock, Runs, EnterSched
<1>1. TypeOK'
  BY SMTT(60) DEF TypeOK, States, PCs, ForkInv, Forking
<1>2. Exclusive'
  BY DEF TypeOK, Exclusive, StackInv
<1>3. StackInv'
  BY OnCpu, SMTT(60) DEF TypeOK, StackInv, Exclusive, ForkInv, Forking
<1>4. ForkInv'
  BY OnCpu, SMTT(60) DEF TypeOK, StackInv, ForkInv, Forking
<1>. QED  BY <1>1, <1>2, <1>3, <1>4

(* The process that resumes releases the lock of its scheduler(). *)
LEMMA resume_owned ==
  ASSUME Core, NEW c \in CPUs, NEW p \in Slots, resume(c, p)
  PROVE  Core'
<1>. USE ProcConstants DEF Core, resume, cpuVars, Slots, NoProc, initproc
<1>1. TypeOK'
  BY SMTT(60) DEF TypeOK, States, PCs, ForkInv, Forking
<1>2. Exclusive'
  BY DEF TypeOK, Exclusive, StackInv
<1>3. StackInv'
  BY OnCpu DEF TypeOK, StackInv, Exclusive, ForkInv, Forking
<1>4. ForkInv'
  BY OnCpu DEF TypeOK, StackInv, ForkInv, Forking
<1>. QED  BY <1>1, <1>2, <1>3, <1>4

(* kill() makes a sleeper runnable, and nothing else. *)
LEMMA kill_owned ==
  ASSUME Core, NEW c \in CPUs, NEW p \in Slots, NEW target \in KillPids, kill(c, p, target)
  PROVE  Core'
<1>. USE ProcConstants DEF Core, kill, cpuVars,
                           Slots, NoProc, initproc, CanLock, Runs, First, KillState
<1>1. TypeOK'
  BY SMTT(60) DEF TypeOK, States, PCs, ForkInv, Forking
<1>2. Exclusive'
  BY DEF TypeOK, Exclusive, StackInv
<1>3. StackInv'
  BY OnCpu, SMTT(60) DEF TypeOK, StackInv, Exclusive, ForkInv, Forking
<1>4. ForkInv'
  BY OnCpu, SMTT(60) DEF TypeOK, StackInv, ForkInv, Forking
<1>. QED  BY <1>1, <1>2, <1>3, <1>4

(* sched() leaves the stack before anyone can get ptable.lock. *)
LEMMA sched_owned ==
  ASSUME Core, NEW c \in CPUs, sched(c)
  PROVE  Core'
<1>. USE ProcConstants DEF Core, sched, cpuVars, tableVars,
                           Slots, NoProc, initproc, ScanFrom
<1>1. TypeOK'
  BY SMTT(60) DEF TypeOK, States, PCs, ForkInv, Forking
<1>2. Exclusive'
  BY DEF TypeOK, Exclusive, StackInv
<1>3. StackInv'
  BY DEF TypeOK, StackInv, Exclusive, ForkInv, Forking
<1>4. ForkInv'
  BY DEF TypeOK, StackInv, ForkInv, Forking
<1>. QED  BY <1>1, <1>2, <1>3, <1>4

(* A RUNNABLE process that scheduler() can see is switched out. *)
LEMMA scheduler_run_owned ==
  ASSUME Core, NEW c \in CPUs, scheduler_run(c)
  PROVE  Core'
<1>. USE ProcConstants DEF Core, scheduler_run, cpuVars,
                           Slots, NoProc, initproc, First, Candidates
<1>1. TypeOK'
  BY SMTT(60) DEF TypeOK, States, PCs, ForkInv, Forking
<1>2. Exclusive'
  BY DEF TypeOK, Exclusive, StackInv
<1>3. StackInv'
  BY DEF TypeOK, StackInv, Exclusive, ForkInv, Forking
<1>4. ForkInv'
  BY DEF TypeOK, StackInv, ForkInv, Forking
<1>. QED  BY <1>1, <1>2, <1>3, <1>4

(* The end of a scan. *)
LEMMA scheduler_release_owned ==
  ASSUME Core, NEW c \in CPUs, scheduler_release(c)
  PROVE  Core'
<1>. USE ProcConstants DEF Core, scheduler_release, cpuVars, tableVars,
                           Slots, NoProc, initproc
<1>1. TypeOK'
  BY DEF TypeOK, States, PCs, ForkInv, Forking
<1>2. Exclusive'
  BY DEF TypeOK, Exclusive, StackInv
<1>3. StackInv'
  BY DEF TypeOK, StackInv, Exclusive, ForkInv, Forking
<1>4. ForkInv'
  BY DEF TypeOK, StackInv, ForkInv, Forking
<1>. QED  BY <1>1, <1>2, <1>3, <1>4

(* wakeup() makes sleepers runnable. *)
LEMMA wakeup_owned ==
  ASSUME Core, wakeup
  PROVE  Core'
<1>. USE ProcConstants DEF Core, wakeup, cpuVars, Slots, NoProc, initproc, wakeup1
<1>1. TypeOK'
  BY DEF TypeOK, States, PCs, ForkInv, Forking
<1>2. Exclusive'
  BY DEF TypeOK, Exclusive, StackInv
<1>3. StackInv'
  BY DEF TypeOK, StackInv, Exclusive, ForkInv, Forking
<1>4. ForkInv'
  BY DEF TypeOK, StackInv, ForkInv, Forking
<1>. QED  BY <1>1, <1>2, <1>3, <1>4

(* No step of any process, CPU or interrupt breaks it. *)
THEOREM StacksInductive == StacksOwned /\ [Next]_vars => StacksOwned'
<1>. SUFFICES ASSUME Core, [Next]_vars PROVE Core'
  BY CoreIsOwned, CoreIsOwnedAfter
<1>1. CASE UNCHANGED vars
  <2>1. TypeOK' /\ Exclusive'
    BY <1>1 DEF vars, Core, TypeOK, Exclusive
  <2>2. StackInv' /\ ForkInv'
    BY <1>1 DEF vars, Core, StackInv, ForkInv, Forking
  <2>. QED  BY <2>1, <2>2 DEF Core
<1>2. ASSUME NEW c \in CPUs, NEW p \in Slots, ForkStep(c, p) PROVE Core'
  BY <1>2, allocproc_owned, fork_fail_owned, fork_copy_owned, fork_ready_owned DEF ForkStep
<1>3. ASSUME NEW c \in CPUs, NEW p \in Slots, WaitStep(c, p) PROVE Core'
  BY <1>3, wait_reap_owned, wait_fail_owned, wait_sleep_owned DEF WaitStep
<1>. QED  BY <1>1, <1>2, <1>3, exit_owned, sleep_owned, kill_owned, yield_owned, resume_owned,
             sched_owned, scheduler_run_owned, scheduler_release_owned, wakeup_owned DEF Next

(* The CPUs, the kernel stacks and the states of ptable agree in every       *)
(* reachable state, whatever the numbers of slots and CPUs.                  *)
THEOREM StacksInvariance == SafetySpec => []StacksOwned
<1>1. Init => StacksOwned
  BY InitCore, CoreIsOwned
<1>. QED  BY <1>1, StacksInductive, PTL DEF SafetySpec
=============================================================================
