--------------------------- MODULE ProcTreeProofs ---------------------------
(***************************************************************************)
(* Proofs about Proc, for any number of slots, CPUs and pids: ProcessTree, *)
(* which is inductive together with StacksOwned, and with it PcountExact.  *)
(* Steps that only put processes to sleep, wake or switch them share one   *)
(* lemma; fork(), exit() and wait() have one for each of their actions.    *)
(***************************************************************************)
EXTENDS ProcStackProofs

Tree == Core /\ ProcessTree

Live == {"SLEEPING", "RUNNABLE", "RUNNING"}
Calm == {"forkret", "user", "wait_slept", "io"}

(* A step changes the states of live processes only, forks nothing, and puts *)
(* nobody with a zombie child to sleep in wait().                            *)
Switches ==
  /\ UNCHANGED <<parent, pid, np, nextpid>>
  /\ \A p \in Slots :
       /\ state'[p] = state[p] \/ (state[p] \in Live /\ state'[p] \in Live)
       /\ pc'[p] = pc[p] \/ (pc[p] \in Calm /\ pc'[p] \in Calm)
       /\ state'[p] = "SLEEPING" /\ chan'[p] = p =>
            (state[p] = "SLEEPING" /\ chan[p] = p) \/ ZombieKids(p) = {}

(* Such a step keeps the tree. *)
LEMMA SwitchesKeep ==
  ASSUME Tree, Core', Switches
  PROVE  ProcessTree'
<1>1. ParentAlive'
  BY DEF Tree, Core, TypeOK, ProcessTree, ParentAlive, Switches, Live
<1>2. NoMissedZombie'
  BY DEF Tree, ProcessTree, NoMissedZombie, ZombieKids, Kids, Switches, Live
<1>3. PidUnique'
  BY DEF Tree, ProcessTree, PidUnique, Switches, Live
<1>4. TreeInv'
  <2>1. \A p \in Slots : Allocated(p)' <=> Allocated(p)
    BY DEF Allocated, Switches, Calm
  <2>2. state'[initproc] \notin {"UNUSED", "EMBRYO", "ZOMBIE"} /\ parent'[initproc] = NoProc
    BY ProcConstants
     DEF Tree, ProcessTree, TreeInv, Switches, Live, initproc, Slots
  <2>. QED  BY <2>1, <2>2 DEF Tree, ProcessTree, TreeInv, Switches, Live, Calm
<1>. QED  BY <1>1, <1>2, <1>3, <1>4 DEF ProcessTree

(* So is wait() when it returns -1, *)
LEMMA wait_fail_switches ==
  ASSUME Tree, NEW c \in CPUs, NEW p \in Slots, wait_fail(c, p)
  PROVE  Switches
BY OnCpu, ProcConstants
   DEF Tree, Core, TypeOK, StackInv, Switches, Live, Calm,
       PCs, Slots, NoProc, wait_fail, InWait, CanLock, Runs

(* and wait() when it sleeps: there is no zombie child. *)
LEMMA wait_sleep_switches ==
  ASSUME Tree, NEW c \in CPUs, NEW p \in Slots, wait_sleep(c, p)
  PROVE  Switches
BY OnCpu, ProcConstants
   DEF Tree, Core, TypeOK, StackInv, Switches, Live, Calm,
       PCs, Slots, NoProc, wait_sleep, InWait, CanLock, Runs, EnterSched

(* sleep() is such a step. *)
LEMMA sleep_switches ==
  ASSUME Tree, NEW c \in CPUs, NEW p \in Slots, sleep(c, p)
  PROVE  Switches
BY OnCpu, ProcConstants
   DEF Tree, Core, TypeOK, StackInv, Switches, Live, Calm,
       PCs, Slots, NoProc, sleep, CanLock, Runs, EnterSched, IoChan

(* yield() is such a step. *)
LEMMA yield_switches ==
  ASSUME Tree, NEW c \in CPUs, NEW p \in Slots, yield(c, p)
  PROVE  Switches
BY OnCpu, ProcConstants, SMTT(60)
   DEF Tree, Core, TypeOK, StackInv, Switches, Live, Calm,
       PCs, Slots, NoProc, yield, CanLock, Runs, EnterSched

(* resume() is such a step. *)
LEMMA resume_switches ==
  ASSUME Tree, NEW c \in CPUs, NEW p \in Slots, resume(c, p)
  PROVE  Switches
BY OnCpu, ProcConstants
   DEF Tree, Core, TypeOK, StackInv, Switches, Live, Calm, PCs, Slots, NoProc, resume

(* kill() is such a step. *)
LEMMA kill_switches ==
  ASSUME Tree, NEW c \in CPUs, NEW p \in Slots, NEW target \in KillPids, kill(c, p, target)
  PROVE  Switches
BY OnCpu, ProcConstants
   DEF Tree, Core, TypeOK, StackInv, Switches, Live, Calm,
       PCs, Slots, NoProc, kill, First, KillState

(* sched() is such a step. *)
LEMMA sched_switches ==
  ASSUME Tree, NEW c \in CPUs, sched(c)
  PROVE  Switches
BY OnCpu, ProcConstants
   DEF Tree, Core, TypeOK, StackInv, Switches, Live, Calm,
       PCs, Slots, NoProc, sched, tableVars

(* scheduler() on finding a process is such a step, *)
LEMMA scheduler_run_switches ==
  ASSUME Tree, NEW c \in CPUs, scheduler_run(c)
  PROVE  Switches
BY OnCpu, ProcConstants
   DEF Tree, Core, TypeOK, StackInv, Switches, Live, Calm,
       PCs, Slots, NoProc, scheduler_run, First, Candidates

(* and so is the end of its scan. *)
LEMMA scheduler_release_switches ==
  ASSUME Tree, NEW c \in CPUs, scheduler_release(c)
  PROVE  Switches
BY OnCpu, ProcConstants
   DEF Tree, Core, TypeOK, StackInv, Switches, Live, Calm,
       PCs, Slots, NoProc, scheduler_release, tableVars

(* wakeup() is such a step. *)
LEMMA wakeup_switches ==
  ASSUME Tree, wakeup
  PROVE  Switches
BY OnCpu, ProcConstants
   DEF Tree, Core, TypeOK, StackInv, Switches, Live, Calm,
       PCs, Slots, NoProc, wakeup, wakeup1

(* The new slot has a fresh pid and no parent yet. *)
LEMMA allocproc_tree ==
  ASSUME Tree, Core', NEW c \in CPUs, NEW p \in Slots, allocproc(c, p)
  PROVE  ProcessTree'
<1>1. PICK q \in Slots :
        /\ First(q, Unused)
        /\ state' = [state EXCEPT ![q] = "EMBRYO"]
        /\ pid' = [pid EXCEPT ![q] = nextpid]
        /\ np' = [np EXCEPT ![p] = q]
  BY Zenon DEF allocproc
<1>2. /\ UNCHANGED <<parent, chan>> /\ nextpid' = nextpid + 1
      /\ pc[p] = "user" /\ pc' = [pc EXCEPT ![p] = "fork_alloc"]
  BY Zenon DEF allocproc, PidAfter
<1>3. state[q] = "UNUSED"
  BY <1>1 DEF First, Unused
<1>4. p # q
  BY <1>2, <1>3 DEF Tree, ProcessTree, TreeInv
<1>5. ParentAlive'
  BY <1>1, <1>2, <1>3 DEF Tree, Core, TypeOK, ProcessTree, ParentAlive
<1>6. NoMissedZombie'
  BY <1>1, <1>2, <1>3
     DEF Tree, Core, TypeOK, ProcessTree, NoMissedZombie, ZombieKids, Kids
<1>7. PidUnique'
  BY <1>1, <1>2, <1>3 DEF Tree, Core, TypeOK, ProcessTree, PidUnique, TreeInv
<1>8. TreeInv'
  <2>1. \A r \in Slots : Allocated(r)' <=> Allocated(r) \/ r = q
    BY <1>1, <1>2 DEF Tree, Core, TypeOK, Allocated
  <2>2. q # initproc /\ parent[q] = NoProc
    BY <1>3 DEF Tree, ProcessTree, TreeInv
  <2>3. initproc \in Slots
    BY ProcConstants DEF initproc, Slots
  <2>. QED  BY <1>1, <1>2, <1>3, <1>4, <2>1, <2>2, <2>3
            DEF Tree, Core, TypeOK, ProcessTree, TreeInv
<1>. QED  BY <1>5, <1>6, <1>7, <1>8 DEF ProcessTree

(* The slot given back is nobody's child. *)
LEMMA fork_fail_tree ==
  ASSUME Tree, Core', NEW c \in CPUs, NEW p \in Slots, fork_fail(c, p)
  PROVE  ProcessTree'
<1>1. /\ pc[p] = "fork_alloc" /\ state' = [state EXCEPT ![np[p]] = "UNUSED"]
      /\ np' = [np EXCEPT ![p] = NoProc] /\ pc' = [pc EXCEPT ![p] = "user"]
      /\ UNCHANGED <<pid, parent, chan, nextpid>>
  BY Zenon DEF fork_fail
<1>2. /\ np[p] \in Slots /\ state[np[p]] = "EMBRYO" /\ parent[np[p]] = NoProc
      /\ \A q \in Slots : Forking(q) /\ np[q] = np[p] => q = p
  BY <1>1 DEF Tree, Core, ForkInv, Forking, ProcessTree, TreeInv
<1>3. ParentAlive'
  BY <1>1, <1>2 DEF Tree, Core, TypeOK, ProcessTree, ParentAlive
<1>4. NoMissedZombie'
  BY <1>1, <1>2
     DEF Tree, Core, TypeOK, ProcessTree, NoMissedZombie, ZombieKids, Kids
<1>5. PidUnique'
  BY <1>1, <1>2 DEF Tree, Core, TypeOK, ProcessTree, PidUnique
<1>6. TreeInv'
  <2>1. \A r \in Slots : Allocated(r)' <=> Allocated(r) /\ r # np[p]
    BY <1>1, <1>2 DEF Tree, Core, TypeOK, Allocated, Forking
  <2>2. initproc \in Slots /\ np[p] # initproc
    BY <1>2, ProcConstants DEF initproc, Slots, Tree, ProcessTree, TreeInv
  <2>. QED  BY <1>1, <1>2, <2>1, <2>2 DEF Tree, Core, TypeOK, ProcessTree, TreeInv
<1>. QED  BY <1>3, <1>4, <1>5, <1>6 DEF ProcessTree

(* The slot gets its parent while it is EMBRYO. *)
LEMMA fork_copy_tree ==
  ASSUME Tree, Core', NEW c \in CPUs, NEW p \in Slots, fork_copy(c, p)
  PROVE  ProcessTree'
<1>1. /\ ctx[c] = p /\ kst[p] = "run"
      /\ pc[p] = "fork_alloc" /\ parent' = [parent EXCEPT ![np[p]] = p]
      /\ pc' = [pc EXCEPT ![p] = "fork_ready"]
      /\ UNCHANGED <<state, pid, chan, np, nextpid>>
  BY Zenon DEF fork_copy, Runs
<1>2. /\ np[p] \in Slots /\ state[np[p]] = "EMBRYO" /\ parent[np[p]] = NoProc
      /\ \A q \in Slots : Forking(q) /\ np[q] = np[p] => q = p
  BY <1>1 DEF Tree, Core, ForkInv, Forking, ProcessTree, TreeInv
<1>3. state[p] = "RUNNING" /\ p # np[p] /\ p # NoProc
  BY <1>1, <1>2 DEF Tree, Core, StackInv, Slots, NoProc
<1>4. ParentAlive'
  BY <1>1, <1>2 DEF Tree, Core, TypeOK, ProcessTree, ParentAlive
<1>5. NoMissedZombie'
  BY <1>1, <1>2
     DEF Tree, Core, TypeOK, ProcessTree, NoMissedZombie, ZombieKids, Kids
<1>6. PidUnique'
  BY <1>1 DEF Tree, ProcessTree, PidUnique
<1>7. TreeInv'
  <2>1. \A r \in Slots : Allocated(r)' <=> Allocated(r) /\ r # np[p]
    BY <1>1, <1>2 DEF Tree, Core, TypeOK, Allocated, Forking
  <2>2. initproc \in Slots /\ np[p] # initproc
    BY <1>2, ProcConstants, SMTT(60) DEF initproc, Slots, Tree, ProcessTree, TreeInv
  <2>3. \A q \in Slots : Forking(q) => np[q] \in Slots
    BY DEF Tree, Core, ForkInv
  <2>. QED  BY <1>1, <1>2, <1>3, <2>1, <2>2, <2>3
            DEF Tree, Core, TypeOK, ProcessTree, TreeInv, Forking
<1>. QED  BY <1>4, <1>5, <1>6, <1>7 DEF ProcessTree

(* The child starts with a running parent. *)
LEMMA fork_ready_tree ==
  ASSUME Tree, Core', NEW c \in CPUs, NEW p \in Slots, fork_ready(c, p)
  PROVE  ProcessTree'
<1>1. /\ ctx[c] = p /\ kst[p] = "run" /\ pc[p] = "fork_ready"
      /\ state' = [state EXCEPT ![np[p]] = "RUNNABLE"]
      /\ pc' = [pc EXCEPT ![p] = "user", ![np[p]] = "forkret"]
      /\ np' = [np EXCEPT ![p] = NoProc]
      /\ UNCHANGED <<pid, parent, chan, nextpid>>
  BY Zenon DEF fork_ready, CanLock, Runs
<1>2. /\ np[p] \in Slots /\ state[np[p]] = "EMBRYO" /\ parent[np[p]] = p
      /\ \A q \in Slots : Forking(q) /\ np[q] = np[p] => q = p
  BY <1>1 DEF Tree, Core, ForkInv, Forking, ProcessTree, TreeInv
<1>3. state[p] = "RUNNING" /\ p # np[p] /\ p # NoProc
  BY <1>1, <1>2 DEF Tree, Core, StackInv, Slots, NoProc
<1>4. ParentAlive'
  BY <1>1, <1>2, <1>3 DEF Tree, Core, TypeOK, ProcessTree, ParentAlive
<1>5. NoMissedZombie'
  BY <1>1, <1>2
     DEF Tree, Core, TypeOK, ProcessTree, NoMissedZombie, ZombieKids, Kids
<1>6. PidUnique'
  BY <1>1, <1>2, SMTT(60) DEF Tree, Core, TypeOK, ProcessTree, PidUnique
<1>7. TreeInv'
  <2>1. \A r \in Slots : Allocated(r)' <=> Allocated(r)
    <3>1. pc[np[p]] = "none"
      BY <1>2 DEF Tree, ProcessTree, TreeInv
    <3>. QED  BY <1>1, <1>2, <3>1 DEF Tree, Core, TypeOK, Allocated, Forking
  <2>2. initproc \in Slots /\ np[p] # initproc
    BY <1>2, ProcConstants DEF initproc, Slots, Tree, ProcessTree, TreeInv
  <2>. QED  BY <1>1, <1>2, <1>3, <2>1, <2>2
     DEF Tree, Core, TypeOK, ProcessTree, TreeInv
<1>. QED  BY <1>4, <1>5, <1>6, <1>7 DEF ProcessTree

(* exit() wakes the parent and hands the children to init in one step. *)
LEMMA exit_tree ==
  ASSUME Tree, Core', NEW c \in CPUs, NEW p \in Slots, exit(c, p)
  PROVE  ProcessTree'
<1>1. /\ ctx[c] = p /\ kst[p] = "run" /\ pc[p] = "user" /\ p # initproc
      /\ state' = [WokenByExit(p) EXCEPT ![p] = "ZOMBIE"] /\ parent' = Reparented(p)
      /\ pc' = [pc EXCEPT ![p] = "dead"]
      /\ UNCHANGED <<pid, chan, np, nextpid>>
  BY Zenon DEF exit, CanLock, Runs, EnterSched
<1>2. /\ state'[p] = "ZOMBIE"
      /\ \A q \in Slots \ {p} :
           state'[q] = state[q] \/ (state[q] = "SLEEPING" /\ state'[q] = "RUNNABLE")
      /\ \A q \in Slots : chan[q] = parent[p] => state'[q] # "SLEEPING"
      /\ (\E q \in Kids(p) : state[q] = "ZOMBIE") =>
           \A q \in Slots : chan[q] = initproc => state'[q] # "SLEEPING"
  BY <1>1, Woken DEF Tree, Core, States
<1>3. \A q \in Slots : parent'[q] = IF parent[q] = p THEN initproc ELSE parent[q]
  BY <1>1 DEF Reparented, Kids
<1>4. /\ initproc \in Slots /\ initproc # NoProc /\ p # NoProc
      /\ state[initproc] \notin {"UNUSED", "EMBRYO", "ZOMBIE"} /\ parent[initproc] = NoProc
  BY ProcConstants DEF Tree, ProcessTree, TreeInv, initproc, NoProc, Slots
<1>5. state[p] = "RUNNING" /\ parent[p] # p
  BY <1>1, SMTT(60) DEF Tree, Core, StackInv, ProcessTree, TreeInv
<1>6. ParentAlive'
  BY <1>2, <1>3, <1>4, <1>5, <1>1 DEF Tree, Core, TypeOK, ProcessTree, ParentAlive
<1>7. NoMissedZombie'
  <2>. SUFFICES ASSUME NEW q \in Slots, state'[q] = "SLEEPING", chan'[q] = q,
                       NEW r \in Slots, parent'[r] = q, state'[r] = "ZOMBIE"
                PROVE  FALSE
    BY DEF NoMissedZombie, ZombieKids, Kids
  <2>1. state[q] = "SLEEPING" /\ chan[q] = q
    BY <1>1, <1>2, SMTT(60)
  <2>2. r = p \/ state[r] = "ZOMBIE"
    BY <1>2
  <2>3. ~(state[r] = "ZOMBIE" /\ parent[r] = q)
    BY <2>1 DEF Tree, ProcessTree, NoMissedZombie, ZombieKids, Kids
  <2>4. CASE r = p
    BY <1>2, <1>3, <1>5, <2>1, <2>4
  <2>5. CASE state[r] = "ZOMBIE" /\ parent[r] = p
    BY <1>2, <1>3, <2>1, <2>5 DEF Kids
  <2>. QED  BY <1>3, <2>2, <2>3, <2>4, <2>5
<1>8. PidUnique'
  BY <1>1, <1>2, <1>5 DEF Tree, ProcessTree, PidUnique
<1>9. TreeInv'
  <2>1. \A r \in Slots : Allocated(r)' <=> Allocated(r)
    BY <1>1 DEF Tree, Core, TypeOK, Allocated
  <2>2. \A r \in Slots : pc'[r] = IF r = p THEN "dead" ELSE pc[r]
    BY <1>1 DEF Tree, Core, TypeOK
  <2>3. \A q \in Slots : Forking(q) => np[q] \in Slots
    BY SMTT(60) DEF Tree, Core, ForkInv
  <2>4. state'[initproc] \notin {"UNUSED", "EMBRYO", "ZOMBIE"} /\ parent'[initproc] = NoProc
    BY <1>1, <1>2, <1>3, <1>4
  <2>5. ASSUME NEW q \in Slots
        PROVE  /\ parent'[q] # q /\ pid'[q] < nextpid'
               /\ state'[q] = "ZOMBIE" => pc'[q] = "dead"
               /\ pc'[q] = "none" <=> state'[q] \in {"UNUSED", "EMBRYO"}
    BY <1>1, <1>2, <1>3, <1>4, <1>5, <2>2, SMTT(60) DEF Tree, ProcessTree, TreeInv
  <2>6. ASSUME NEW q \in Slots
        PROVE  /\ pc'[q] = "fork_ready" => parent'[np'[q]] = q
               /\ pc'[q] = "fork_alloc" => parent'[np'[q]] = NoProc
    BY <1>1, <1>3, <1>4, <2>2, <2>3, SMTT(60) DEF Tree, ProcessTree, TreeInv, Forking
  <2>7. ASSUME NEW q \in Slots
        PROVE  state'[q] # "UNUSED" <=> q = initproc \/ parent'[q] # NoProc \/ Allocated(q)'
    BY <1>2, <1>3, <1>4, <1>5, <2>1 DEF Tree, ProcessTree, TreeInv
  <2>. QED  BY <2>4, <2>5, <2>6, <2>7 DEF TreeInv
<1>. QED  BY <1>6, <1>7, <1>8, <1>9 DEF ProcessTree

(* The zombie that wait() frees has no children left. *)
LEMMA wait_reap_tree ==
  ASSUME Tree, Core', NEW c \in CPUs, NEW p \in Slots, wait_reap(c, p)
  PROVE  ProcessTree'
<1>1. /\ UNCHANGED <<np, nextpid>> /\ InWait(c, p) /\ chan' = [chan EXCEPT ![p] = NoProc]
  BY Zenon DEF wait_reap
<1>2. PICK q \in Slots :
        /\ First(q, ZombieKids(p))
        /\ state' = [state EXCEPT ![q] = "UNUSED"]
        /\ pid' = [pid EXCEPT ![q] = 0]
        /\ parent' = [parent EXCEPT ![q] = NoProc]
        /\ pc' = [pc EXCEPT ![p] = "user", ![q] = "none"]
  BY Zenon DEF wait_reap
<1>3. ctx[c] = p /\ kst[p] \in {"run", "resume"} /\ pc[p] \in {"user", "wait_slept"}
  BY <1>1, Zenon DEF InWait, CanLock, Runs
<1>4. state[q] = "ZOMBIE" /\ parent[q] = p /\ state[p] = "RUNNING" /\ pc[q] = "dead" /\ p # q
  BY <1>2, <1>3
     DEF Tree, Core, StackInv, ProcessTree, TreeInv, First, ZombieKids, Kids
<1>5. /\ initproc \in Slots /\ q # initproc /\ p # NoProc
  BY <1>4, ProcConstants DEF Tree, ProcessTree, TreeInv, initproc, NoProc, Slots
<1>6. ParentAlive'
  BY <1>2, <1>4 DEF Tree, Core, TypeOK, ProcessTree, ParentAlive
<1>7. NoMissedZombie'
  BY <1>1, <1>2, <1>4
     DEF Tree, Core, TypeOK, ProcessTree, NoMissedZombie, ZombieKids, Kids
<1>8. PidUnique'
  BY <1>2 DEF Tree, Core, TypeOK, ProcessTree, PidUnique
<1>9. TreeInv'
  <2>1. \A r \in Slots : pc'[r] = IF r = q THEN "none" ELSE IF r = p THEN "user" ELSE pc[r]
    BY <1>2, <1>4 DEF Tree, Core, TypeOK
  <2>2. \A r \in Slots : Allocated(r)' <=> Allocated(r)
    BY <1>1, <1>3, <1>4, <2>1 DEF Allocated
  <2>3. \A r \in Slots : Forking(r) => np[r] \in Slots /\ np[r] # q
    BY <1>4 DEF Tree, Core, ForkInv
  <2>4. ~Allocated(q)
    BY <2>3 DEF Allocated, Forking
  <2>5. \A r \in Slots : /\ state'[r] = IF r = q THEN "UNUSED" ELSE state[r]
                         /\ parent'[r] = IF r = q THEN NoProc ELSE parent[r]
                         /\ pid'[r] = IF r = q THEN 0 ELSE pid[r]
    BY <1>2 DEF Tree, Core, TypeOK
  <2>6. state'[initproc] \notin {"UNUSED", "EMBRYO", "ZOMBIE"} /\ parent'[initproc] = NoProc
    BY <1>5, <2>5 DEF Tree, ProcessTree, TreeInv
  <2>7. ASSUME NEW r \in Slots
        PROVE  parent'[r] # r /\ pid'[r] < nextpid'
    <3>1. r # NoProc /\ pid[r] \in Nat /\ nextpid \in Nat
      BY SMTT(60) DEF Tree, Core, TypeOK, Slots, NoProc
    <3>. QED  BY <1>1, <2>5, <3>1 DEF Tree, ProcessTree, TreeInv
  <2>8. ASSUME NEW r \in Slots
        PROVE  /\ state'[r] = "ZOMBIE" => pc'[r] = "dead"
               /\ pc'[r] = "none" <=> state'[r] \in {"UNUSED", "EMBRYO"}
    BY <1>3, <1>4, <2>1, <2>5, SMTT(60) DEF Tree, ProcessTree, TreeInv
  <2>9. ASSUME NEW r \in Slots
        PROVE  /\ pc'[r] = "fork_ready" => parent'[np'[r]] = r
               /\ pc'[r] = "fork_alloc" => parent'[np'[r]] = NoProc
    BY <1>1, <2>1, <2>3, <2>5, SMTT(60) DEF Tree, ProcessTree, TreeInv, Forking
  <2>10. ASSUME NEW r \in Slots
         PROVE  state'[r] # "UNUSED" <=> r = initproc \/ parent'[r] # NoProc \/ Allocated(r)'
    BY <1>5, <2>2, <2>4, <2>5 DEF Tree, ProcessTree, TreeInv
  <2>. QED  BY <2>6, <2>7, <2>8, <2>9, <2>10 DEF TreeInv
<1>. QED  BY <1>6, <1>7, <1>8, <1>9 DEF ProcessTree

(* userinit() establishes ProcessTree. *)
LEMMA InitTree == Init => ProcessTree
<1>. SUFFICES ASSUME Init PROVE ProcessTree
  OBVIOUS
<1>. USE ProcConstants DEF Init, Slots, initproc, NoProc
<1>1. ParentAlive /\ NoMissedZombie /\ PidUnique
  BY DEF ParentAlive, NoMissedZombie, ZombieKids, Kids, PidUnique
<1>2. TreeInv
  BY DEF TreeInv, Allocated
<1>. QED  BY <1>1, <1>2 DEF ProcessTree

(* No step of any process, CPU or interrupt breaks the table. *)
THEOREM TreeInductive ==
  StacksOwned /\ ProcessTree /\ [Next]_vars => StacksOwned' /\ ProcessTree'
<1>. SUFFICES ASSUME Core, ProcessTree, StacksOwned, [Next]_vars PROVE StacksOwned' /\ ProcessTree'
  BY CoreIsOwned
<1>0. StacksOwned' /\ Core' /\ Tree
  BY StacksInductive, CoreIsOwnedAfter DEF Tree
<1>. SUFFICES ProcessTree'
  BY <1>0
<1>1. CASE UNCHANGED vars
  <2>1. Switches
    BY <1>1 DEF vars, Switches
  <2>. QED  BY <1>0, <2>1, SwitchesKeep
<1>2. ASSUME NEW c \in CPUs, NEW p \in Slots, ForkStep(c, p) PROVE ProcessTree'
  BY <1>0, <1>2, allocproc_tree, fork_fail_tree, fork_copy_tree, fork_ready_tree
     DEF ForkStep
<1>3. ASSUME NEW c \in CPUs, NEW p \in Slots, WaitStep(c, p) PROVE ProcessTree'
  BY <1>0, <1>3, wait_reap_tree, wait_fail_switches, wait_sleep_switches, SwitchesKeep
     DEF WaitStep
<1>4. ASSUME NEW c \in CPUs, NEW p \in Slots,
             exit(c, p) \/ sleep(c, p) \/ yield(c, p) \/ resume(c, p)
             \/ \E target \in KillPids : kill(c, p, target)
      PROVE  ProcessTree'
  BY <1>0, <1>4, exit_tree, sleep_switches, yield_switches, resume_switches, kill_switches,
     SwitchesKeep
<1>5. ASSUME NEW c \in CPUs, sched(c) \/ scheduler_run(c) \/ scheduler_release(c)
      PROVE  ProcessTree'
  BY <1>0, <1>5, sched_switches, scheduler_run_switches, scheduler_release_switches, SwitchesKeep
<1>6. CASE wakeup
  BY <1>0, <1>6, wakeup_switches, SwitchesKeep
<1>. QED  BY <1>1, <1>2, <1>3, <1>4, <1>5, <1>6 DEF Next

(* Parents, zombies and pids stay consistent in every reachable state,       *)
(* whatever the numbers of slots and CPUs and however families fork and exit.*)
THEOREM TreeInvariance == SafetySpec => [](StacksOwned /\ ProcessTree)
<1>1. Init => StacksOwned /\ ProcessTree
  BY InitCore, CoreIsOwned, InitTree
<1>. QED  BY <1>1, TreeInductive, PTL DEF SafetySpec

-----------------------------------------------------------------------------
INSTANCE FiniteSetTheorems

(* The processes that getpcount() counts are init, the children, and the     *)
(* slots of fork()s in progress: three disjoint sets.                        *)
LEMMA CountedOnce ==
  ASSUME StacksOwned, ProcessTree PROVE PcountExact
<1>. DEFINE Used == {p \in Slots :
                       state[p] \in {"EMBRYO", "SLEEPING", "RUNNABLE", "RUNNING", "ZOMBIE"}}
            Children == {p \in Slots : parent[p] # NoProc}
            Forkers == {p \in Slots : pc[p] = "fork_alloc"}
            New == {np[p] : p \in Forkers}
<1>1. IsFiniteSet(Slots)
  <2>1. 1 \in Int /\ NPROC \in Int
    BY ProcConstants
  <2>. QED  BY <2>1, FS_Interval, ZenonT(60) DEF Slots
<1>2. initproc \in Slots
  BY ProcConstants DEF Slots, initproc
<1>3. New \subseteq Slots /\ \A p, q \in Forkers : np[p] = np[q] => p = q
  BY DEF StacksOwned, ForkInv, Forking
<1>4. Used = (Children \cup New) \cup {initproc}
  <2>1. \A p \in Slots : p \in New <=> Allocated(p)
    BY DEF Allocated
  <2>2. \A p \in Slots : p \in Used <=> state[p] # "UNUSED"
    BY DEF StacksOwned, TypeOK, States
  <2>3. \A p \in Slots : p \in Used <=> p = initproc \/ p \in Children \/ p \in New
    BY <2>1, <2>2 DEF ProcessTree, TreeInv
  <2>. QED  BY <1>2, <1>3, <2>3
<1>5. initproc \notin Children \cup New
  <2>1. initproc \notin Children
    BY DEF ProcessTree, TreeInv
  <2>2. initproc \notin New
    BY DEF StacksOwned, ForkInv, Forking, ProcessTree, TreeInv
  <2>. QED  BY <2>1, <2>2
<1>6. Children \cap New = {}
  BY DEF ProcessTree, TreeInv
<1>. HIDE DEF Used, Children, New, Forkers
<1>7. Children \subseteq Slots /\ Forkers \subseteq Slots
  BY DEF Children, Forkers
<1>8. IsFiniteSet(Children) /\ IsFiniteSet(New) /\ IsFiniteSet(Forkers)
  BY <1>1, <1>3, <1>7, FS_Subset, ZenonT(60)
<1>9. Cardinality(Forkers) = Cardinality(New)
  <2>. DEFINE f == [p \in Forkers |-> np[p]]
  <2>1. f \in Bijection(Forkers, New)
    BY <1>3 DEF New, Bijection, Injection, Surjection, IsInjective
  <2>. HIDE DEF f
  <2>2. ExistsBijection(Forkers, New)
    BY <2>1, Zenon DEF ExistsBijection
  <2>. QED  BY <1>8, <2>2, FS_Bijection, ZenonT(60)
<1>10. Cardinality(Children \cup New) = Cardinality(Children) + Cardinality(New)
  <2>1. Cardinality(Children \cup New)
          = Cardinality(Children) + Cardinality(New) - Cardinality(Children \cap New)
    BY <1>8, FS_Union, ZenonT(60)
  <2>2. Cardinality(Children \cap New) = 0
    BY <1>6, FS_EmptySet, ZenonT(60)
  <2>3. Cardinality(Children) \in Nat /\ Cardinality(New) \in Nat
    BY <1>8, FS_CardinalityType, ZenonT(60)
  <2>. QED  BY <2>1, <2>2, <2>3
<1>11. Cardinality(Used) = Cardinality(Children \cup New) + 1
  <2>1. IsFiniteSet(Children \cup New)
    BY <1>8, FS_Union, ZenonT(60)
  <2>. QED  BY <1>4, <1>5, <2>1, FS_AddElement, ZenonT(60)
<1>12. Cardinality(Children) \in Nat /\ Cardinality(New) \in Nat
  BY <1>8, FS_CardinalityType, ZenonT(60)
<1>13. Cardinality(Used) = 1 + Cardinality(Children) + Cardinality(Forkers)
  BY <1>9, <1>10, <1>11, <1>12
<1>. QED  BY <1>13, Zenon DEF PcountExact, sys_getpcount, Used, Children, Forkers

(* getpcount() is exact in every reachable state: it counts init, every      *)
(* child not yet waited for, and every slot that a fork() has just claimed.  *)
THEOREM GetpcountExact == SafetySpec => []PcountExact
BY TreeInvariance, CountedOnce, PTL
=============================================================================
