----------------------------- MODULE PartsProofs -----------------------------
(***************************************************************************)
(* Proofs about three parts of the kernel that MCParts puts side by side,  *)
(* for every value of their constants: the clock's sleepers                *)
(* (SleepsAsAsked), the console's ring of lines (ReadersServed,            *)
(* EofReturnsZero, and that it implements LineQueue) and the spin locks    *)
(* (SpinInv and LocksSafe).  There is one lemma per action of each part.   *)
(***************************************************************************)
EXTENDS Spinlock, Clock, Console, TLAPS

-----------------------------------------------------------------------------
(* The spin locks. *)

(* What is left to show of SpinInv after a step: the rest of LocksSafe       *)
(* follows from it.                                                          *)
Core == SpinTypeOK /\ NoSpinPanic /\ MutualExclusion /\ GrantInv /\ CliInv

(* What the steps count with: a CPU's locks have a number, which one lock    *)
(* more or less changes by one.  (LocksCounted proves it.)                  *)
Counting ==
  /\ Cardinality({}) = 0
  /\ \A S \in SUBSET Locks :
       /\ Cardinality(S) \in Nat
       /\ Cardinality(S) = 0 <=> S = {}
       /\ \A l \in Locks \ S : Cardinality(S \cup {l}) = Cardinality(S) + 1
       /\ \A l \in S : Cardinality(S \ {l}) = Cardinality(S) - 1

(* A CPU that has a lock, or is inside acquire() or release(), has called    *)
(* pushcli() and not yet popcli().                                           *)
LEMMA CliWhileHeld ==
  ASSUME Counting, SpinTypeOK, GrantInv, CliInv, NEW c \in CPUs
  PROVE  /\ held[c] # {} \/ spinpc[c] # "run" => ncli[c] # 0
         /\ held[c] = {} /\ spinpc[c] = "run" => ncli[c] = 0
<1>1. held[c] \in SUBSET Locks /\ lk[c] \in Locks /\ spinpc[c] \in Sites
  BY DEF SpinTypeOK
<1>2. Cardinality(held[c]) \in Nat /\ (Cardinality(held[c]) = 0 <=> held[c] = {})
  BY <1>1, ZenonT(60) DEF Counting
<1>3. ncli[c] = Cardinality(held[c]) + IF spinpc[c] \in {"xchg", "popcli"} THEN 1 ELSE 0
  BY DEF CliInv, CliOf
<1>4. spinpc[c] \in {"record", "unlock"} => held[c] # {}
  BY DEF GrantInv
<1>. QED  BY <1>1, <1>2, <1>3, <1>4 DEF Sites

(* holding(), and the interrupt flag, are right whenever Core holds. *)
LEMMA CoreIsSafe ==
  ASSUME Counting, Core PROVE SpinInv
<1>. USE DEF Core
<1>1. HoldingExact
  <2>. SUFFICES ASSUME NEW c \in CPUs, NEW l \in Locks, spinpc[c] = "run"
                PROVE  holding(c, l) <=> l \in held[c]
    BY DEF HoldingExact
  <2>. QED  BY DEF GrantInv, SpinTypeOK, holding
<1>2. QuietWhileHeld
  <2>. SUFFICES ASSUME NEW c \in CPUs, held[c] # {} \/ spinpc[c] # "run" PROVE c \notin eflags
    BY DEF QuietWhileHeld
  <2>. QED  BY CliWhileHeld DEF CliInv, CliOf
<1>3. InterruptsRestored
  <2>. SUFFICES ASSUME NEW c \in CPUs, spinpc[c] = "run", held[c] = {}
                PROVE  c \in eflags <=> c \notin irq
    BY DEF InterruptsRestored
  <2>1. ncli[c] = 0
    BY CliWhileHeld
  <2>. QED  BY <2>1 DEF CliInv, CliOf
<1>. QED  BY <1>1, <1>2, <1>3 DEF SpinInv, LocksSafe

(* At first nobody has a lock. *)
LEMMA InitCore ==
  ASSUME Counting, SpinInit PROVE Core
<1>1. Cardinality({}) = 0
  BY DEF Counting
<1>2. SpinTypeOK /\ NoSpinPanic /\ MutualExclusion
  BY DEF SpinInit, SpinTypeOK, NoSpinPanic, MutualExclusion, Sites
<1>3. GrantInv
  BY NoCpuAssumption DEF SpinInit, GrantInv
<1>4. CliInv
  BY <1>1 DEF SpinInit, CliInv, CliOf
<1>. QED  BY <1>2, <1>3, <1>4 DEF Core

(* A CPU keeps its part of CliInv while others step. *)
LEMMA OthersCli ==
  ASSUME NEW d \in CPUs, CliOf(d), held'[d] = held[d], spinpc'[d] = spinpc[d], ncli'[d] = ncli[d],
         d \in eflags' <=> d \in eflags, d \in intena' <=> d \in intena, d \in irq' <=> d \in irq
  PROVE  CliOf(d)'
BY DEF CliOf

(* acquire() up to the loop never panics: a CPU takes locks in one order, so *)
(* holding() is false.                                                       *)
LEMMA AcquireStep ==
  ASSUME Counting, Core, NEW c \in CPUs, NEW l \in Locks, acquire(c, l)
  PROVE  Core'
<1>. USE DEF Core
<1>1. l \notin held[c]
  BY LocksAssumption DEF acquire
<1>2. ~holding(c, l)
  BY <1>1 DEF holding, GrantInv
<1>3. SpinTypeOK' /\ NoSpinPanic' /\ MutualExclusion'
  BY <1>2 DEF SpinTypeOK, NoSpinPanic, MutualExclusion, acquire, Step, Intena, Sites
<1>4. GrantInv'
  BY <1>1 DEF GrantInv, acquire, Step, SpinTypeOK
<1>5. held[c] \in SUBSET Locks /\ ncli[c] \in Nat
  BY DEF SpinTypeOK
<1>6. Cardinality(held[c]) \in Nat
  BY <1>5, ZenonT(60) DEF Counting
<1>7. CliOf(c)'
  BY <1>5, <1>6 DEF CliInv, CliOf, acquire, Step, Intena, SpinTypeOK
<1>8. \A d \in CPUs \ {c} : CliOf(d)'
  BY OthersCli DEF CliInv, acquire, Step, Intena, SpinTypeOK
<1>. QED  BY <1>3, <1>4, <1>7, <1>8 DEF CliInv

(* The xchg() of acquire() grants a lock that nobody has. *)
LEMMA AcquireXchgStep ==
  ASSUME Counting, Core, NEW c \in CPUs, acquire_xchg(c)
  PROVE  Core'
<1>. USE DEF Core
<1>1. lk[c] \in Locks /\ held[c] \in SUBSET Locks /\ \A d \in CPUs : lk[c] \notin held[d]
  BY DEF acquire_xchg, Unlocked, GrantInv, SpinTypeOK
<1>2. SpinTypeOK' /\ NoSpinPanic'
  BY <1>1 DEF SpinTypeOK, NoSpinPanic, acquire_xchg, Step, Sites
<1>3. MutualExclusion'
  BY <1>1 DEF MutualExclusion, acquire_xchg, SpinTypeOK
<1>4. GrantInv'
  BY <1>1 DEF GrantInv, acquire_xchg, Step, SpinTypeOK
<1>5. Cardinality(held[c] \cup {lk[c]}) = Cardinality(held[c]) + 1 /\ Cardinality(held[c]) \in Nat
  BY <1>1, ZenonT(60) DEF Counting
<1>6. CliOf(c)'
  BY <1>5 DEF CliInv, CliOf, acquire_xchg, Step, SpinTypeOK
<1>7. \A d \in CPUs \ {c} : CliOf(d)'
  BY OthersCli DEF CliInv, acquire_xchg, Step, SpinTypeOK
<1>. QED  BY <1>2, <1>3, <1>4, <1>6, <1>7 DEF CliInv

(* acquire() records the owner of a lock that is its own. *)
LEMMA AcquireRecordStep ==
  ASSUME Counting, Core, NEW c \in CPUs, acquire_record(c)
  PROVE  Core'
<1>. USE DEF Core
<1>1. lk[c] \in held[c] /\ lk[c] \in Locks /\ \A d \in CPUs \ {c} : lk[c] \notin held[d]
  BY DEF acquire_record, Step, GrantInv, MutualExclusion, SpinTypeOK
<1>2. SpinTypeOK' /\ NoSpinPanic' /\ MutualExclusion'
  BY <1>1 DEF SpinTypeOK, NoSpinPanic, MutualExclusion, acquire_record, Step, Sites
<1>3. GrantInv'
  BY <1>1 DEF GrantInv, acquire_record, Step, SpinTypeOK
<1>4. CliOf(c)'
  BY DEF CliInv, CliOf, acquire_record, Step, SpinTypeOK
<1>5. \A d \in CPUs \ {c} : CliOf(d)'
  BY OthersCli DEF CliInv, acquire_record, Step, SpinTypeOK
<1>. QED  BY <1>2, <1>3, <1>4, <1>5 DEF CliInv

(* release() never panics: the CPU that gives a lock back is its owner. *)
LEMMA ReleaseStep ==
  ASSUME Counting, Core, NEW c \in CPUs, NEW l \in Locks, release(c, l)
  PROVE  Core'
<1>. USE DEF Core
<1>1. holding(c, l) /\ \A d \in CPUs \ {c} : l \notin held[d]
  BY DEF holding, release, Step, GrantInv, MutualExclusion
<1>2. SpinTypeOK' /\ NoSpinPanic' /\ MutualExclusion'
  BY <1>1 DEF SpinTypeOK, NoSpinPanic, MutualExclusion, release, Disowned, Step, Sites
<1>3. GrantInv'
  BY <1>1, NoCpuAssumption DEF GrantInv, release, Disowned, Step, SpinTypeOK
<1>4. CliOf(c)'
  BY DEF CliInv, CliOf, release, Step, SpinTypeOK
<1>5. \A d \in CPUs \ {c} : CliOf(d)'
  BY OthersCli DEF CliInv, release, Step, SpinTypeOK
<1>. QED  BY <1>2, <1>3, <1>4, <1>5 DEF CliInv

(* The xchg() of release() takes the lock from the CPU that had it. *)
LEMMA ReleaseXchgStep ==
  ASSUME Counting, Core, NEW c \in CPUs, release_xchg(c)
  PROVE  Core'
<1>. USE DEF Core
<1>1. lk[c] \in held[c] /\ lk[c] \in Locks /\ held[c] \in SUBSET Locks
  BY DEF release_xchg, Step, GrantInv, SpinTypeOK
<1>2. lkcpu[lk[c]] # c /\ \A d \in CPUs \ {c} : lk[c] \notin held[d]
  BY <1>1 DEF release_xchg, Step, GrantInv, MutualExclusion
<1>3. SpinTypeOK' /\ NoSpinPanic' /\ MutualExclusion'
  BY <1>1 DEF SpinTypeOK, NoSpinPanic, MutualExclusion, release_xchg, Step, Sites
<1>4. GrantInv'
  BY <1>1, <1>2 DEF GrantInv, release_xchg, Step, SpinTypeOK
<1>5. Cardinality(held[c] \ {lk[c]}) = Cardinality(held[c]) - 1 /\ Cardinality(held[c]) \in Nat
  BY <1>1, ZenonT(60) DEF Counting
<1>6. CliOf(c)'
  BY <1>5 DEF CliInv, CliOf, release_xchg, Step, SpinTypeOK
<1>7. \A d \in CPUs \ {c} : CliOf(d)'
  BY OthersCli DEF CliInv, release_xchg, Step, SpinTypeOK
<1>. QED  BY <1>3, <1>4, <1>6, <1>7 DEF CliInv

(* popcli() never panics, and turns interrupts on again only if the first    *)
(* pushcli() found them on.                                                  *)
LEMMA PopcliStep ==
  ASSUME Counting, Core, NEW c \in CPUs, popcli(c)
  PROVE  Core'
<1>. USE DEF Core
<1>0. /\ spinpc[c] = "popcli" /\ spinpc' = [spinpc EXCEPT ![c] = "run"]
      /\ ncli' = [ncli EXCEPT ![c] = @ - 1] /\ eflags' = IF Sti(c) THEN eflags \cup {c} ELSE eflags
      /\ locked' = locked /\ lkcpu' = lkcpu /\ intena' = intena /\ irq' = irq /\ held' = held
      /\ lk' = lk
  BY ZenonT(60) DEF popcli, Step
<1>1. held[c] \in SUBSET Locks /\ CliOf(c)
  BY DEF SpinTypeOK, CliInv
<1>2. Cardinality(held[c]) \in Nat
  BY <1>1, ZenonT(60) DEF Counting
<1>3. ncli[c] = Cardinality(held[c]) + 1 /\ c \notin eflags
  BY <1>0, <1>1, <1>2 DEF CliOf
<1>4. SpinTypeOK' /\ NoSpinPanic' /\ MutualExclusion'
  BY <1>2, <1>3 DEF SpinTypeOK, NoSpinPanic, MutualExclusion, popcli, Sti, Step, Sites
<1>5. GrantInv'
  BY <1>0 DEF GrantInv, SpinTypeOK
<1>6. CliOf(c)'
  BY <1>0, <1>1, <1>2, <1>3 DEF CliOf, Sti, SpinTypeOK
<1>7. \A d \in CPUs \ {c} : CliOf(d)'
  BY <1>0, OthersCli DEF CliInv, Sti, SpinTypeOK
<1>. QED  BY <1>4, <1>5, <1>6, <1>7 DEF CliInv

(* An interrupt comes, and iret returns, only while ncli is 0. *)
LEMMA InterruptStep ==
  ASSUME Counting, Core, NEW c \in CPUs, interrupt(c) \/ iret(c)
  PROVE  Core'
<1>. USE DEF Core
<1>1. SpinTypeOK' /\ NoSpinPanic' /\ MutualExclusion'
  BY DEF SpinTypeOK, NoSpinPanic, MutualExclusion, interrupt, iret, Step, Sites
<1>2. GrantInv'
  BY DEF GrantInv, interrupt, iret, Step, SpinTypeOK
<1>3. ncli[c] = 0 /\ CliOf(c)
  BY CliWhileHeld DEF CliInv, CliOf, interrupt, iret, Step
<1>4. CliOf(c)'
  BY <1>3 DEF CliOf, interrupt, iret, Step, SpinTypeOK
<1>5. \A d \in CPUs \ {c} : CliOf(d)'
  BY OthersCli DEF CliInv, interrupt, iret, Step, SpinTypeOK
<1>. QED  BY <1>1, <1>2, <1>4, <1>5 DEF CliInv

(* Steps of others. *)
LEMMA StutterStep == Core /\ UNCHANGED spinVars => Core'
BY DEF spinVars, Core, SpinTypeOK, NoSpinPanic, MutualExclusion, GrantInv, CliInv, CliOf

(* Every step keeps Core. *)
LEMMA SpinStep ==
  ASSUME Counting, Core, [SpinNext]_spinVars
  PROVE  Core'
<1>1. CASE UNCHANGED spinVars
  BY <1>1, StutterStep
<1>2. CASE SpinNext
  <2>. PICK c \in CPUs :
         \/ \E l \in Locks : acquire(c, l) \/ release(c, l)
         \/ acquire_xchg(c) \/ acquire_record(c) \/ release_xchg(c) \/ popcli(c)
         \/ interrupt(c) \/ iret(c)
    BY <1>2, ZenonT(60) DEF SpinNext
  <2>. QED  BY AcquireStep, AcquireXchgStep, AcquireRecordStep, ReleaseStep, ReleaseXchgStep,
               PopcliStep, InterruptStep, ZenonT(60)
<1>. QED  BY <1>1, <1>2, ZenonT(60)

-----------------------------------------------------------------------------
(* Arithmetic of counters that wrap. *)

(* A remainder is below the divisor. *)
LEMMA ModRange ==
  ASSUME NEW w \in Nat \ {0}, NEW a \in Int
  PROVE  a % w \in 0 .. w - 1
OBVIOUS

(* A number below the divisor is its own remainder, *)
LEMMA ModSmall ==
  ASSUME NEW w \in Nat \ {0}, NEW a \in 0 .. w - 1
  PROVE  a % w = a
OBVIOUS

(* and a negative one that has wrapped once gains a word. *)
LEMMA ModBelow ==
  ASSUME NEW w \in Nat \ {0}, NEW a \in -w .. -1
  PROVE  a % w = a + w
OBVIOUS

(* Division with remainder, *)
LEMMA ModQuotient ==
  ASSUME NEW w \in Nat \ {0}, NEW a \in Int
  PROVE  a \div w \in Int /\ a = (a \div w) * w + (a % w)
<1>1. a \div w \in Int
  OBVIOUS
<1>2. a = (a \div w) * w + (a % w)
  OBVIOUS
<1> QED
  BY <1>1, <1>2

(* which is unique. *)
LEMMA ModUnique ==
  ASSUME NEW w \in Nat \ {0}, NEW q \in Int, NEW r \in 0 .. w - 1
  PROVE  (q * w + r) % w = r
OBVIOUS

(* Multiples of the divisor do not change the remainder. *)
LEMMA ModShift ==
  ASSUME NEW w \in Nat \ {0}, NEW a \in Int, NEW q \in Int
  PROVE  (a + q * w) % w = a % w
<1> DEFINE d == a \div w
           r == a % w
<1>1. d \in Int /\ r \in 0 .. w - 1 /\ a = d * w + r
  BY ModQuotient, ModRange
<1> HIDE DEF d, r
<1>2. a + q * w = (d + q) * w + r
  BY <1>1
<1>3. ((d + q) * w + r) % w = r
  BY <1>1, ModUnique
<1> QED
  BY <1>2, <1>3 DEF r

(* A sum may be reduced before it is complete. *)
LEMMA ModSum ==
  ASSUME NEW w \in Nat \ {0}, NEW a \in Int, NEW b \in Int
  PROVE  ((a % w) + b) % w = (a + b) % w
<1> DEFINE d == a \div w
           r == a % w
<1>1. d \in Int /\ r \in 0 .. w - 1 /\ a = d * w + r
  BY ModQuotient, ModRange
<1> HIDE DEF d, r
<1>2. PICK x \in Int : x = r + b
  BY <1>1
<1>3. a + b = x + d * w
  BY <1>1, <1>2
<1>4. (x + d * w) % w = x % w
  BY <1>1, ModShift, ZenonT(30)
<1> QED
  BY <1>2, <1>3, <1>4, ZenonT(30) DEF r

(* A buffer index is not disturbed by the wrap of its counter when the       *)
(* buffer's size divides the word.                                           *)
LEMMA ModMod ==
  ASSUME NEW w \in Nat \ {0}, NEW v \in Nat \ {0}, v % w = 0, NEW a \in Int
  PROVE  (a % v) % w = a % w
<1> DEFINE d == a \div v
           r == a % v
           q == v \div w
<1>1. d \in Int /\ r \in 0 .. v - 1 /\ a = d * v + r
  BY ModQuotient, ModRange
<1>2. q \in Int /\ v = q * w
  BY ModQuotient
<1> HIDE DEF d, r, q
<1>3. d * q \in Int /\ r \in Int /\ a = r + (d * q) * w
  BY <1>1, <1>2
<1>4. a % w = r % w
  BY <1>3, ModShift, ZenonT(30)
<1> QED
  BY <1>4 DEF r

(* The difference of two counters that may have wrapped. *)
LEMMA ModDiff ==
  ASSUME NEW w \in Nat \ {0}, NEW a \in Int, NEW b \in Int
  PROVE  ((a % w) - (b % w)) % w = (a - b) % w
<1> DEFINE d == b \div w
           r == b % w
<1>1. d \in Int /\ r \in 0 .. w - 1 /\ b = d * w + r
  BY ModQuotient, ModRange
<1> HIDE DEF d, r
<1>2. PICK x \in Int, y \in Int, z \in Int : x = a + (-r) /\ y = -d /\ z = -r
  BY <1>1
<1>3. a - b = x + y * w /\ a + z = x
  BY <1>1, <1>2
<1>4. (x + y * w) % w = x % w
  BY ModShift, ZenonT(30)
<1>5. ((a % w) + z) % w = (a + z) % w
  BY ModSum, ZenonT(30)
<1>6. (a % w) + z = (a % w) - r
  BY <1>1, <1>2, ModRange
<1> QED
  BY <1>3, <1>4, <1>5, <1>6, ZenonT(30) DEF r

-----------------------------------------------------------------------------
(* The clock. *)

(* Unsigned arithmetic on ticks: the cast of an n that sys_sleep() may be    *)
(* given never makes it smaller.                                             *)
LEMMA WrapFacts ==
  /\ Wrap(0) = 0
  /\ \A i \in Int : Wrap(i) \in 0 .. TICKS - 1
  /\ \A n \in SleepTimes \cup {0} : Wrap(n) >= n
<1>1. TICKS \in Nat \ {0}
  BY ClockConstants
<1>2. \A i \in Int : Wrap(i) \in 0 .. TICKS - 1
  BY <1>1, ModRange DEF Wrap
<1>3. Wrap(0) = 0
  BY <1>1, ModSmall DEF Wrap
<1>4. ASSUME NEW n \in SleepTimes
      PROVE  Wrap(n) >= n
  <2>1. n \in Int /\ n < TICKS
    BY ClockConstants
  <2>2. CASE n >= 0
    <3>1. n \in 0 .. TICKS - 1
      BY <1>1, <2>1, <2>2
    <3>2. Wrap(n) = n
      BY <1>1, <3>1, ModSmall DEF Wrap
    <3>. QED  BY <2>1, <3>2
  <2>3. CASE n < 0
    BY <1>1, <1>2, <2>1, <2>3
  <2>. QED  BY <2>1, <2>2, <2>3
<1>. QED
  BY <1>2, <1>3, <1>4

(* A tick adds at most one to a difference of ticks, whether ticks wraps or  *)
(* not.                                                                      *)
LEMMA TickAdds ==
  ASSUME NEW t \in 0 .. TICKS - 1, NEW t0 \in 0 .. TICKS - 1
  PROVE  Wrap(Wrap(t + 1) - t0) <= Wrap(t - t0) + 1
<1>1. TICKS \in Nat \ {0} /\ t \in Int /\ t0 \in Int /\ t + 1 \in Int /\ -t0 \in Int /\ t - t0 \in Int
  BY ClockConstants
<1>2. Wrap(Wrap(t + 1) - t0) = ((t + 1) + (-t0)) % TICKS
  <2>1. ((t + 1) % TICKS) + (-t0) = ((t + 1) % TICKS) - t0
    BY <1>1, ModRange
  <2>2. (((t + 1) % TICKS) + (-t0)) % TICKS = ((t + 1) + (-t0)) % TICKS
    BY <1>1, ModSum, ZenonT(30)
  <2>. QED  BY <2>1, <2>2 DEF Wrap
<1>3. (((t - t0) % TICKS) + 1) % TICKS = ((t - t0) + 1) % TICKS
  <2>1. 1 \in Int
    OBVIOUS
  <2>. QED  BY <1>1, <2>1, ModSum, ZenonT(30)
<1>4. (t + 1) + (-t0) = (t - t0) + 1
  BY <1>1
<1> DEFINE d == (t - t0) % TICKS
<1>5. d \in 0 .. TICKS - 1
  BY <1>1, ModRange
<1>6. Wrap(Wrap(t + 1) - t0) = (d + 1) % TICKS /\ Wrap(t - t0) = d
  BY <1>2, <1>3, <1>4 DEF Wrap
<1> HIDE DEF d
<1>7. CASE d + 1 < TICKS
  BY <1>1, <1>5, <1>6, <1>7, ModSmall
<1>8. CASE d + 1 = TICKS
  <2>1. (d + 1) % TICKS \in 0 .. TICKS - 1
    BY <1>1, <1>5, ModRange
  <2>. QED  BY <1>1, <1>5, <1>6, <1>8, <2>1
<1>. QED
  BY <1>1, <1>5, <1>7, <1>8

(* What SleepsAsAsked says of one process. *)
SleeperSound(p) ==
  /\ SleeperInv(p)
  /\ slp[p].at = "slept" => elapsed[p] >= slp[p].n
  /\ slp[p].at = "asleep" => TooSoon(slp[p]) \/ tickslock = Timer

(* SleepsAsAsked is that of every process, with the types. *)
LEMMA SleepPointwise == SleepsAsAsked <=> ClockTypeOK /\ \A p \in Sleepers : SleeperSound(p)
BY ZenonT(30) DEF SleepsAsAsked, SleeperSound, SleepsLongEnough, NoMissedTick

(* The types of the fields of a process's record. *)
LEMMA SleepRecord ==
  /\ 0 \in 0 .. TICKS - 1 /\ 0 \in Nat /\ NoSleep \in SleepRecords
  /\ \A s \in SleepRecords :
       /\ s.n \in SleepTimes \cup {0} /\ s.n \in Int /\ s.ticks0 \in 0 .. TICKS - 1
       /\ s.ticks0 \in Int
<1>1. 0 \in 0 .. TICKS - 1 /\ 0 \in Nat
  BY ClockConstants
<1>2. NoSleep \in SleepRecords
  BY <1>1, ZenonT(30) DEF SleepRecords, NoSleep
<1>3. ASSUME NEW s \in SleepRecords
      PROVE  /\ s.n \in SleepTimes \cup {0} /\ s.n \in Int /\ s.ticks0 \in 0 .. TICKS - 1
             /\ s.ticks0 \in Int
  <2>1. s.n \in SleepTimes \cup {0} /\ s.ticks0 \in 0 .. TICKS - 1
    BY ZenonT(30) DEF SleepRecords
  <2>2. \A n \in SleepTimes \cup {0} : n \in Int
    BY ClockConstants
  <2>3. \A i \in 0 .. TICKS - 1 : i \in Int
    BY ClockConstants
  <2>. QED  BY <2>1, <2>2, <2>3
<1>. QED
  BY <1>1, <1>2, <1>3, ZenonT(30)

(* The loop of sys_sleep(), entered with the process's record s: it sleeps   *)
(* holding tickslock, or returns 0 with the time elapsed.                    *)
LEMMA LoopingSound ==
  ASSUME ClockTypeOK, \A q \in Sleepers : SleeperSound(q),
         NEW p \in Sleepers, NEW s \in SleepRecords, Looping(p, s),
         ticks' = ticks, ptlock' = ptlock, elapsed' \in [Sleepers -> 0 .. TICKS],
         elapsed'[p] >= Wrap(ticks - s.ticks0),
         \A q \in Sleepers \ {p} : elapsed'[q] = elapsed[q]
  PROVE  ClockTypeOK' /\ \A q \in Sleepers : SleeperSound(q)'
<1>1. PICK t : t = IF Round(s) = "tosleep" THEN [s EXCEPT !.at = "tosleep", !.late = 0]
                   ELSE [NoSleep EXCEPT !.at = Round(s), !.n = s.n]
  OBVIOUS
<1>2. tickslock = Nobody /\ slp' = [slp EXCEPT ![p] = t]
      /\ tickslock' = IF Round(s) = "tosleep" THEN p ELSE Nobody
  BY <1>1, ZenonT(30) DEF Looping
<1>3. slp \in [Sleepers -> SleepRecords] /\ ticks \in 0 .. TICKS - 1
  BY ZenonT(30) DEF ClockTypeOK
<1>4. Round(s) \in {"slept", "cut short", "tosleep"} /\ (Round(s) = "slept" => ~TooSoon(s))
      /\ (Round(s) = "tosleep" => TooSoon(s))
  BY ZenonT(30) DEF Round
<1>5. t \in SleepRecords /\ t.at = Round(s) /\ t.n = s.n
      /\ (Round(s) = "tosleep" => t.ticks0 = s.ticks0)
  <2>1. CASE Round(s) = "tosleep"
    <3>1. t = [s EXCEPT !.at = "tosleep", !.late = 0]
      BY <1>1, <2>1, ZenonT(30)
    <3>2. t \in SleepRecords /\ t.at = "tosleep" /\ t.n = s.n /\ t.ticks0 = s.ticks0
      BY <3>1, SleepRecord, ZenonT(30) DEF SleepRecords
    <3>. QED  BY <2>1, <3>2, ZenonT(30)
  <2>2. CASE Round(s) \in {"slept", "cut short"}
    <3>1. t = [NoSleep EXCEPT !.at = Round(s), !.n = s.n]
      BY <1>1, <2>2, ZenonT(30)
    <3>2. s.n \in SleepTimes \cup {0}
      BY SleepRecord, ZenonT(30)
    <3>3. PICK a \in {"slept", "cut short"} : a = Round(s)
      BY <2>2, ZenonT(30)
    <3>4. PICK n \in SleepTimes \cup {0} : n = s.n
      BY <3>2, ZenonT(30)
    <3>5. t = [NoSleep EXCEPT !.at = a, !.n = n]
      BY <3>1, <3>3, <3>4, ZenonT(30)
    <3>6. t \in SleepRecords /\ t.at = a /\ t.n = n
      BY <3>5, SleepRecord, ZenonT(30) DEF SleepRecords
    <3>. QED  BY <2>2, <3>3, <3>4, <3>6, ZenonT(30)
  <2>. QED  BY <1>4, <2>1, <2>2, ZenonT(30)
<1>6. ClockTypeOK'
  <2>1. slp' \in [Sleepers -> SleepRecords]
    BY <1>2, <1>3, <1>5, ZenonT(30)
  <2>. QED  BY <1>3, <2>1, ZenonT(30) DEF ClockTypeOK
<1>7. slp'[p] = t /\ \A q \in Sleepers \ {p} : slp'[q] = slp[q]
  BY <1>2, <1>3, ZenonT(30)
<1>8. SleeperSound(p)'
  <2>1. CASE Round(s) = "tosleep"
    <3>1. slp'[p].n = s.n /\ slp'[p].ticks0 = s.ticks0 /\ slp'[p].at = "tosleep"
      BY <1>5, <1>7, <2>1, ZenonT(30)
    <3>2. Wrap(ticks' - slp'[p].ticks0) < Wrap(slp'[p].n)
      BY <1>4, <2>1, <3>1, ZenonT(30) DEF TooSoon
    <3>3. TooSoon(slp[p])'
      BY <3>2, ZenonT(30) DEF TooSoon, Wrap
    <3>4. tickslock' = p
      BY <1>2, <2>1, ZenonT(30)
    <3>5. elapsed'[p] >= Wrap(ticks' - slp'[p].ticks0)
      BY <3>1, ZenonT(30)
    <3>. QED  BY <3>1, <3>3, <3>4, <3>5, ZenonT(30) DEF SleeperSound, SleeperInv, Sleeping, Returned, Wrap
  <2>2. CASE Round(s) = "slept"
    <3>1. PICK a, b, c : a = Wrap(ticks - s.ticks0) /\ b = Wrap(s.n) /\ c = s.n
      OBVIOUS
    <3>2. ticks - s.ticks0 \in Int
      <4>1. s.ticks0 \in Int
        BY SleepRecord, ZenonT(30)
      <4>2. \A j \in Int : ticks - j \in Int
        BY <1>3, ClockConstants
      <4>. QED  BY <4>1, <4>2, ZenonT(30)
    <3>3. c \in SleepTimes \cup {0} /\ c \in Int
      BY <3>1, SleepRecord, ZenonT(30)
    <3>4. a \in 0 .. TICKS - 1 /\ b \in 0 .. TICKS - 1 /\ b >= c
      BY <3>1, <3>2, <3>3, WrapFacts, ZenonT(30)
    <3>5. ~(a < b)
      BY <1>4, <2>2, <3>1, ZenonT(30) DEF TooSoon
    <3>6. PICK e \in 0 .. TICKS : e = elapsed'[p] /\ e >= a
      BY <3>1, ZenonT(30)
    <3>7. e >= c
      BY <3>3, <3>4, <3>5, <3>6, ClockConstants
    <3>8. slp'[p].at = "slept" /\ slp'[p].n = c
      BY <1>5, <1>7, <2>2, <3>1, ZenonT(30)
    <3>. QED  BY <3>6, <3>7, <3>8, ZenonT(30) DEF SleeperSound, SleeperInv, Sleeping, Returned
  <2>3. CASE Round(s) = "cut short"
    <3>1. slp'[p].at = "cut short"
      BY <1>5, <1>7, <2>3, ZenonT(30)
    <3>. QED  BY <3>1, ZenonT(30) DEF SleeperSound, SleeperInv, Sleeping, Returned
  <2>. QED  BY <1>4, <2>1, <2>2, <2>3, ZenonT(30)
<1>9. ASSUME NEW q \in Sleepers, q # p
      PROVE  SleeperSound(q)'
  <2>1. slp'[q] = slp[q] /\ elapsed'[q] = elapsed[q] /\ SleeperSound(q)
    BY <1>7, <1>9, ZenonT(30)
  <2>2. tickslock # Timer /\ tickslock # q
    BY <1>2, ClockConstants, ZenonT(30)
  <2>. QED
    BY <2>1, <2>2, ZenonT(30) DEF SleeperSound, SleeperInv, Sleeping, Returned, TooSoon, Wrap
<1>. QED
  BY <1>6, <1>8, <1>9, ZenonT(30)

(* A first call: no tick has passed, and none is asked for if it returns.    *)
LEMMA sys_sleep_sound ==
  ASSUME ClockTypeOK, \A q \in Sleepers : SleeperSound(q),
         NEW p \in Sleepers, NEW n \in SleepTimes, sys_sleep(p, n)
  PROVE  ClockTypeOK' /\ \A q \in Sleepers : SleeperSound(q)'
<1>1. PICK s : s = [slp[p] EXCEPT !.n = n, !.ticks0 = ticks]
  OBVIOUS
<1>2. Looping(p, s) /\ elapsed' = [elapsed EXCEPT ![p] = 0] /\ ticks' = ticks /\ ptlock' = ptlock
  BY <1>1, ZenonT(30) DEF sys_sleep
<1>3. slp[p] \in SleepRecords /\ ticks \in 0 .. TICKS - 1 /\ elapsed \in [Sleepers -> 0 .. TICKS]
  BY ZenonT(30) DEF ClockTypeOK
<1>4. s \in SleepRecords /\ s.ticks0 = ticks
  BY <1>1, <1>3, ZenonT(30) DEF SleepRecords
<1>5. elapsed' \in [Sleepers -> 0 .. TICKS] /\ elapsed'[p] = 0
      /\ \A q \in Sleepers \ {p} : elapsed'[q] = elapsed[q]
  BY <1>2, <1>3, ClockConstants
<1>6. Wrap(ticks - s.ticks0) = 0
  <2>1. ticks - ticks = 0
    BY <1>3, ClockConstants
  <2>. QED  BY <1>4, <2>1, WrapFacts, ZenonT(30)
<1>7. elapsed'[p] >= Wrap(ticks - s.ticks0)
  <2>1. 0 >= 0
    OBVIOUS
  <2>. QED  BY <1>5, <1>6, <2>1, ZenonT(30)
<1>. QED
  BY <1>2, <1>4, <1>5, <1>7, LoopingSound, ZenonT(30)

(* A woken process goes round the loop again. *)
LEMMA sleep_again_sound ==
  ASSUME ClockTypeOK, \A q \in Sleepers : SleeperSound(q), NEW p \in Sleepers, sleep_again(p)
  PROVE  ClockTypeOK' /\ \A q \in Sleepers : SleeperSound(q)'
<1>1. Looping(p, slp[p]) /\ elapsed' = elapsed /\ ticks' = ticks /\ ptlock' = ptlock
      /\ slp[p].at = "woken"
  BY ZenonT(30) DEF sleep_again
<1>2. slp[p] \in SleepRecords /\ elapsed' \in [Sleepers -> 0 .. TICKS]
  BY <1>1, ZenonT(30) DEF ClockTypeOK
<1>3. elapsed'[p] >= Wrap(ticks - slp[p].ticks0)
  BY <1>1, ZenonT(30) DEF SleeperSound, SleeperInv, Sleeping, Returned
<1>4. \A q \in Sleepers \ {p} : elapsed'[q] = elapsed[q]
  BY <1>1
<1>. QED
  BY <1>1, <1>2, <1>3, <1>4, LoopingSound, ZenonT(30)

(* One process moves on, with its record otherwise as it was. *)
LEMMA MovesOn ==
  ASSUME ClockTypeOK, NEW p \in Sleepers, NEW a \in {"unlocked", "asleep"},
         slp' = [slp EXCEPT ![p].at = a]
  PROVE  /\ slp' \in [Sleepers -> SleepRecords]
         /\ slp'[p].at = a /\ slp'[p].n = slp[p].n /\ slp'[p].ticks0 = slp[p].ticks0
         /\ \A q \in Sleepers \ {p} : slp'[q] = slp[q]
<1>1. slp \in [Sleepers -> SleepRecords]
  BY ZenonT(30) DEF ClockTypeOK
<1>2. slp'[p] \in SleepRecords /\ slp'[p].at = a /\ slp'[p].n = slp[p].n
      /\ slp'[p].ticks0 = slp[p].ticks0
  <2>1. slp'[p] = [slp[p] EXCEPT !.at = a]
    BY <1>1, ZenonT(30)
  <2>. QED  BY <1>1, <2>1, ZenonT(30) DEF SleepRecords
<1>3. \A q \in Sleepers \ {p} : slp'[q] = slp[q]
  BY <1>1, ZenonT(30)
<1>4. slp' \in [Sleepers -> SleepRecords]
  BY <1>1, <1>2, ZenonT(30)
<1>. QED
  BY <1>2, <1>3, <1>4, ZenonT(30)

(* sleep() takes ptable.lock before it gives up tickslock, *)
LEMMA sleep_locks_sound ==
  ASSUME ClockTypeOK, \A q \in Sleepers : SleeperSound(q), NEW p \in Sleepers, sleep_locks(p)
  PROVE  ClockTypeOK' /\ \A q \in Sleepers : SleeperSound(q)'
<1>1. slp[p].at = "tosleep" /\ ptlock = Nobody /\ slp' = [slp EXCEPT ![p].at = "unlocked"]
      /\ tickslock' = Nobody /\ ptlock' = p /\ ticks' = ticks /\ elapsed' = elapsed
  BY ZenonT(30) DEF sleep_locks
<1>2. slp' \in [Sleepers -> SleepRecords]
      /\ slp'[p].at = "unlocked" /\ slp'[p].n = slp[p].n /\ slp'[p].ticks0 = slp[p].ticks0
      /\ \A q \in Sleepers \ {p} : slp'[q] = slp[q]
  BY <1>1, MovesOn, ZenonT(30)
<1>3. ClockTypeOK'
  BY <1>1, <1>2, ZenonT(30) DEF ClockTypeOK
<1>4. SleeperSound(p) /\ tickslock = p /\ p # Timer
  BY <1>1, ClockConstants, ZenonT(30) DEF SleeperSound, SleeperInv
<1>5. SleeperSound(p)'
  BY <1>1, <1>2, <1>4, ZenonT(30) DEF SleeperSound, SleeperInv, Sleeping, Returned, TooSoon, Wrap
<1>6. ASSUME NEW q \in Sleepers, q # p
      PROVE  SleeperSound(q)'
  <2>1. slp'[q] = slp[q] /\ elapsed'[q] = elapsed[q] /\ SleeperSound(q)
    BY <1>1, <1>2, <1>6, ZenonT(30)
  <2>2. tickslock # q /\ tickslock # Timer /\ ptlock # q
    BY <1>1, <1>4, <1>6, ClockConstants, ZenonT(30)
  <2>. QED
    BY <1>1, <2>1, <2>2, ZenonT(30) DEF SleeperSound, SleeperInv, Sleeping, Returned, TooSoon, Wrap
<1>. QED
  BY <1>3, <1>5, <1>6, ZenonT(30)

(* and gives that up once the process is SLEEPING. *)
LEMMA sleep_sched_sound ==
  ASSUME ClockTypeOK, \A q \in Sleepers : SleeperSound(q), NEW p \in Sleepers, sleep_sched(p)
  PROVE  ClockTypeOK' /\ \A q \in Sleepers : SleeperSound(q)'
<1>1. slp[p].at = "unlocked" /\ slp' = [slp EXCEPT ![p].at = "asleep"]
      /\ tickslock' = tickslock /\ ptlock' = Nobody /\ ticks' = ticks /\ elapsed' = elapsed
  BY ZenonT(30) DEF sleep_sched
<1>2. slp' \in [Sleepers -> SleepRecords]
      /\ slp'[p].at = "asleep" /\ slp'[p].n = slp[p].n /\ slp'[p].ticks0 = slp[p].ticks0
      /\ \A q \in Sleepers \ {p} : slp'[q] = slp[q]
  BY <1>1, MovesOn, ZenonT(30)
<1>3. ClockTypeOK'
  BY <1>1, <1>2, ZenonT(30) DEF ClockTypeOK
<1>4. SleeperSound(p) /\ ptlock = p
  BY <1>1, ZenonT(30) DEF SleeperSound, SleeperInv
<1>5. SleeperSound(p)'
  BY <1>1, <1>2, <1>4, ZenonT(30) DEF SleeperSound, SleeperInv, Sleeping, Returned, TooSoon, Wrap
<1>6. ASSUME NEW q \in Sleepers, q # p
      PROVE  SleeperSound(q)'
  <2>1. slp'[q] = slp[q] /\ elapsed'[q] = elapsed[q] /\ SleeperSound(q) /\ ptlock # q
    BY <1>1, <1>2, <1>4, <1>6, ZenonT(30)
  <2>. QED
    BY <1>1, <2>1, ZenonT(30) DEF SleeperSound, SleeperInv, Sleeping, Returned, TooSoon, Wrap
<1>. QED
  BY <1>3, <1>5, <1>6, ZenonT(30)

(* A tick: nobody holds tickslock, so nobody is between the test of ticks    *)
(* and the lock of ptable, and wakeup() is still to come.                    *)
LEMMA timer_tick_sound ==
  ASSUME ClockTypeOK, \A q \in Sleepers : SleeperSound(q), timer_tick
  PROVE  ClockTypeOK' /\ \A q \in Sleepers : SleeperSound(q)'
<1>1. tickslock = Nobody /\ tickslock' = Timer /\ ticks' = Wrap(ticks + 1) /\ ptlock' = ptlock
  BY ZenonT(30) DEF timer_tick
<1>2. elapsed' = [q \in Sleepers |->
                    IF Sleeping(q) /\ elapsed[q] < TICKS THEN elapsed[q] + 1 ELSE elapsed[q]]
      /\ slp' = [q \in Sleepers |->
                   IF slp[q].at = "woken" THEN [slp[q] EXCEPT !.late = @ + 1] ELSE slp[q]]
  BY ZenonT(30) DEF timer_tick
<1>3. slp \in [Sleepers -> SleepRecords] /\ elapsed \in [Sleepers -> 0 .. TICKS]
      /\ ticks \in 0 .. TICKS - 1 /\ TICKS \in Nat \ {0}
  BY ClockConstants, ZenonT(30) DEF ClockTypeOK
<1>4. ASSUME NEW q \in Sleepers
      PROVE  /\ slp'[q] \in SleepRecords /\ slp'[q].at = slp[q].at /\ slp'[q].n = slp[q].n
             /\ slp'[q].ticks0 = slp[q].ticks0
  <2>1. slp[q] \in SleepRecords
        /\ slp'[q] = IF slp[q].at = "woken" THEN [slp[q] EXCEPT !.late = @ + 1] ELSE slp[q]
    BY <1>2, <1>3, ZenonT(30)
  <2>2. \A k \in Nat : k + 1 \in Nat
    OBVIOUS
  <2>3. CASE slp[q].at = "woken"
    <3>1. slp'[q] = [slp[q] EXCEPT !.late = slp[q].late + 1]
      BY <2>1, <2>3, ZenonT(30)
    <3>2. slp[q].late + 1 \in Nat
      BY <2>1, <2>2, ZenonT(30) DEF SleepRecords
    <3>. QED  BY <2>1, <3>1, <3>2, ZenonT(30) DEF SleepRecords
  <2>4. CASE slp[q].at # "woken"
    BY <2>1, <2>4, ZenonT(30)
  <2>. QED  BY <2>3, <2>4
<1>5. ASSUME NEW q \in Sleepers
      PROVE  /\ elapsed'[q] \in 0 .. TICKS /\ elapsed'[q] >= elapsed[q]
             /\ Sleeping(q) => elapsed'[q] = elapsed[q] + 1 \/ elapsed'[q] = TICKS
  <2>1. PICK e \in 0 .. TICKS : e = elapsed[q]
    BY <1>3, ZenonT(30)
  <2>2. elapsed'[q] = IF Sleeping(q) /\ e < TICKS THEN e + 1 ELSE e
    BY <1>2, <2>1, ZenonT(30)
  <2>3. CASE Sleeping(q) /\ e < TICKS
    <3>1. elapsed'[q] = e + 1
      BY <2>2, <2>3, ZenonT(30)
    <3>. QED  BY <1>3, <2>1, <2>3, <3>1
  <2>4. CASE ~(Sleeping(q) /\ e < TICKS)
    <3>1. elapsed'[q] = e
      BY <2>2, <2>4, ZenonT(30)
    <3>2. e >= e /\ (~(e < TICKS) => e = TICKS)
      BY <1>3
    <3>. QED  BY <2>1, <2>4, <3>1, <3>2, ZenonT(30)
  <2>. QED  BY <2>3, <2>4
<1>6. ClockTypeOK'
  <2>1. ticks' \in 0 .. TICKS - 1
    <3>1. ticks + 1 \in Int
      BY <1>3
    <3>. QED  BY <1>1, <3>1, WrapFacts, ZenonT(30)
  <2>2. slp' \in [Sleepers -> SleepRecords]
    BY <1>2, <1>4, ZenonT(30)
  <2>3. elapsed' \in [Sleepers -> 0 .. TICKS]
    BY <1>2, <1>5, ZenonT(30)
  <2>. QED  BY <2>1, <2>2, <2>3, ZenonT(30) DEF ClockTypeOK
<1>7. ASSUME NEW q \in Sleepers
      PROVE  SleeperSound(q)'
  <2>1. SleeperSound(q) /\ tickslock # q
    BY <1>1, ClockConstants, ZenonT(30)
  <2>2. Sleeping(q) => elapsed'[q] >= Wrap(ticks' - slp'[q].ticks0)
    <3>1. SUFFICES ASSUME Sleeping(q)
                   PROVE  elapsed'[q] >= Wrap(ticks' - slp'[q].ticks0)
      OBVIOUS
    <3>2. PICK t0 \in 0 .. TICKS - 1 : t0 = slp[q].ticks0 /\ t0 = slp'[q].ticks0
      BY <1>3, <1>4, SleepRecord, ZenonT(30)
    <3>3. PICK a : a = Wrap(ticks - t0)
      OBVIOUS
    <3>4. PICK b : b = Wrap(ticks' - t0)
      OBVIOUS
    <3>5. b <= a + 1
      BY <1>1, <1>3, <3>3, <3>4, TickAdds, ZenonT(30)
    <3>6. a \in 0 .. TICKS - 1 /\ b \in 0 .. TICKS - 1
      <4>1. ticks - t0 \in Int
        BY <1>3
      <4>2. ticks' - t0 \in Int
        BY <1>3, <1>6 DEF ClockTypeOK
      <4>. QED  BY <3>3, <3>4, <4>1, <4>2, WrapFacts, ZenonT(30)
    <3>7. PICK e \in 0 .. TICKS : e = elapsed[q] /\ e >= a
      BY <1>3, <2>1, <3>1, <3>2, <3>3, ZenonT(30) DEF SleeperSound, SleeperInv
    <3>8. PICK f \in 0 .. TICKS : f = elapsed'[q] /\ (f = e + 1 \/ f = TICKS)
      BY <1>5, <3>1, <3>7, ZenonT(30)
    <3>9. f >= b
      BY <1>3, <3>5, <3>6, <3>7, <3>8
    <3>. QED  BY <3>2, <3>4, <3>8, <3>9, ZenonT(30)
  <2>3. slp[q].at = "slept" => elapsed'[q] >= slp[q].n
    <3>1. SUFFICES ASSUME slp[q].at = "slept"
                   PROVE  elapsed'[q] >= slp[q].n
      OBVIOUS
    <3>2. PICK n \in Int : n = slp[q].n
      BY <1>3, SleepRecord, ZenonT(30)
    <3>3. PICK e \in 0 .. TICKS : e = elapsed[q] /\ e >= n
      BY <1>3, <2>1, <3>1, <3>2, ZenonT(30) DEF SleeperSound
    <3>4. PICK f \in 0 .. TICKS : f = elapsed'[q] /\ f >= e
      BY <1>5, <3>3, ZenonT(30)
    <3>5. f >= n
      BY <1>3, <3>3, <3>4
    <3>. QED  BY <3>2, <3>4, <3>5, ZenonT(30)
  <2>4. slp[q].at = "unlocked" => ptlock = q
    BY <2>1, ZenonT(30) DEF SleeperSound, SleeperInv
  <2>5. slp[q].at # "tosleep"
    BY <2>1, ZenonT(30) DEF SleeperSound, SleeperInv
  <2>. QED
    BY <1>1, <1>4, <2>2, <2>3, <2>4, <2>5, ZenonT(30)
       DEF SleeperSound, SleeperInv, Sleeping, Returned, TooSoon, Wrap
<1>. QED
  BY <1>6, <1>7, ZenonT(30)

(* wakeup() finds the process asleep or not at all: it holds both locks.     *)
LEMMA timer_wakeup_sound ==
  ASSUME ClockTypeOK, \A q \in Sleepers : SleeperSound(q), timer_wakeup
  PROVE  ClockTypeOK' /\ \A q \in Sleepers : SleeperSound(q)'
<1>1. tickslock = Timer /\ ptlock = Nobody /\ tickslock' = Nobody /\ ptlock' = ptlock
      /\ ticks' = ticks /\ elapsed' = elapsed
      /\ slp' = [q \in Sleepers |->
                   IF slp[q].at = "asleep" THEN [slp[q] EXCEPT !.at = "woken"] ELSE slp[q]]
  BY ZenonT(30) DEF timer_wakeup
<1>2. slp \in [Sleepers -> SleepRecords]
  BY ZenonT(30) DEF ClockTypeOK
<1>3. ASSUME NEW q \in Sleepers
      PROVE  /\ slp'[q] \in SleepRecords /\ slp'[q].n = slp[q].n /\ slp'[q].ticks0 = slp[q].ticks0
             /\ slp'[q].at = IF slp[q].at = "asleep" THEN "woken" ELSE slp[q].at
  <2>1. slp[q] \in SleepRecords
        /\ slp'[q] = IF slp[q].at = "asleep" THEN [slp[q] EXCEPT !.at = "woken"] ELSE slp[q]
    BY <1>1, <1>2, ZenonT(30)
  <2>2. CASE slp[q].at = "asleep"
    <3>1. slp'[q] = [slp[q] EXCEPT !.at = "woken"]
      BY <2>1, <2>2, ZenonT(30)
    <3>. QED  BY <2>1, <2>2, <3>1, ZenonT(30) DEF SleepRecords
  <2>3. CASE slp[q].at # "asleep"
    BY <2>1, <2>3, ZenonT(30)
  <2>. QED  BY <2>2, <2>3
<1>4. ClockTypeOK'
  <2>1. slp' \in [Sleepers -> SleepRecords]
    BY <1>1, <1>3, ZenonT(30)
  <2>. QED  BY <1>1, <2>1, ZenonT(30) DEF ClockTypeOK
<1>5. ASSUME NEW q \in Sleepers
      PROVE  SleeperSound(q)'
  <2>1. SleeperSound(q) /\ tickslock # q /\ ptlock # q
    BY <1>1, ClockConstants, ZenonT(30)
  <2>2. slp[q].at # "tosleep" /\ slp[q].at # "unlocked"
    BY <2>1, ZenonT(30) DEF SleeperSound, SleeperInv
  <2>3. CASE slp[q].at = "asleep"
    <3>1. slp'[q].at = "woken"
      BY <1>3, <2>3, ZenonT(30)
    <3>. QED
      BY <1>1, <1>3, <2>1, <2>3, <3>1, ZenonT(30) DEF SleeperSound, SleeperInv, Sleeping, Returned, Wrap
  <2>4. CASE slp[q].at # "asleep"
    <3>1. slp'[q].at = slp[q].at
      BY <1>3, <2>4, ZenonT(30)
    <3>. QED
      BY <1>1, <1>3, <2>1, <2>2, <2>4, <3>1, ZenonT(30)
         DEF SleeperSound, SleeperInv, Sleeping, Returned, Wrap
  <2>. QED  BY <2>3, <2>4
<1>. QED
  BY <1>4, <1>5, ZenonT(30)

(* kill() wakes a process that is asleep, and lets the others go on. *)
LEMMA kill_sleeper_sound ==
  ASSUME ClockTypeOK, \A q \in Sleepers : SleeperSound(q), NEW p \in Sleepers, kill_sleeper(p)
  PROVE  ClockTypeOK' /\ \A q \in Sleepers : SleeperSound(q)'
<1>1. tickslock' = tickslock /\ ptlock' = ptlock /\ ticks' = ticks /\ elapsed' = elapsed
      /\ slp' = [slp EXCEPT ![p].killed = TRUE, ![p].at = IF @ = "asleep" THEN "woken" ELSE @]
  BY ZenonT(30) DEF kill_sleeper
<1>2. slp \in [Sleepers -> SleepRecords]
  BY ZenonT(30) DEF ClockTypeOK
<1>3. slp' = [slp EXCEPT ![p] = [slp[p] EXCEPT !.killed = TRUE,
                                   !.at = IF slp[p].at = "asleep" THEN "woken" ELSE slp[p].at]]
  BY <1>1, <1>2, ZenonT(30)
<1>4. /\ slp'[p] \in SleepRecords /\ slp'[p].n = slp[p].n /\ slp'[p].ticks0 = slp[p].ticks0
      /\ slp'[p].at = IF slp[p].at = "asleep" THEN "woken" ELSE slp[p].at
  <2>1. slp'[p] = [slp[p] EXCEPT !.killed = TRUE,
                                 !.at = IF slp[p].at = "asleep" THEN "woken" ELSE slp[p].at]
    BY <1>2, <1>3, ZenonT(30)
  <2>2. PICK a : a = IF slp[p].at = "asleep" THEN "woken" ELSE slp[p].at
    OBVIOUS
  <2>3. a = "woken" \/ a = slp[p].at
    BY <2>2, ZenonT(30)
  <2>4. slp'[p] = [slp[p] EXCEPT !.killed = TRUE, !.at = a]
    BY <2>1, <2>2, ZenonT(30)
  <2>5. slp[p] \in SleepRecords /\ a \in {"user", "tosleep", "unlocked", "asleep", "woken", "slept", "cut short"}
    BY <1>2, <2>3, ZenonT(30) DEF SleepRecords
  <2>6. slp'[p] \in SleepRecords
    BY <2>4, <2>5, ZenonT(30) DEF SleepRecords
  <2>7. slp'[p].n = slp[p].n /\ slp'[p].ticks0 = slp[p].ticks0 /\ slp'[p].at = a
    BY <2>4, <2>5, ZenonT(30) DEF SleepRecords
  <2>. QED  BY <2>2, <2>6, <2>7, ZenonT(30)
<1>5. \A q \in Sleepers \ {p} : slp'[q] = slp[q]
  BY <1>2, <1>3, ZenonT(30)
<1>6. ClockTypeOK'
  <2>1. slp' \in [Sleepers -> SleepRecords]
    BY <1>2, <1>3, <1>4, ZenonT(30)
  <2>. QED  BY <1>1, <2>1, ZenonT(30) DEF ClockTypeOK
<1>7. SleeperSound(p)'
  <2>1. SleeperSound(p)
    OBVIOUS
  <2>2. CASE slp[p].at = "asleep"
    <3>1. slp'[p].at = "woken"
      BY <1>4, <2>2, ZenonT(30)
    <3>. QED
      BY <1>1, <1>4, <2>1, <2>2, <3>1, ZenonT(30) DEF SleeperSound, SleeperInv, Sleeping, Returned, Wrap
  <2>3. CASE slp[p].at # "asleep"
    <3>1. slp'[p].at = slp[p].at
      BY <1>4, <2>3, ZenonT(30)
    <3>. QED
      BY <1>1, <1>4, <2>1, <2>3, <3>1, ZenonT(30)
         DEF SleeperSound, SleeperInv, Sleeping, Returned, TooSoon, Wrap
  <2>. QED  BY <2>2, <2>3
<1>8. ASSUME NEW q \in Sleepers, q # p
      PROVE  SleeperSound(q)'
  <2>1. slp'[q] = slp[q] /\ elapsed'[q] = elapsed[q] /\ SleeperSound(q)
    BY <1>1, <1>5, <1>8, ZenonT(30)
  <2>. QED
    BY <1>1, <2>1, ZenonT(30) DEF SleeperSound, SleeperInv, Sleeping, Returned, TooSoon, Wrap
<1>. QED
  BY <1>6, <1>7, <1>8, ZenonT(30)

(* sys_sleep() returns 0 only when its time has passed, and never sleeps     *)
(* through a tick, however ticks wraps: for any number of processes, any     *)
(* word size, any n that fits and any kills.                                 *)
THEOREM SleepInvariance == ClockSpec => []SleepsAsAsked
<1>1. ClockInit => SleepsAsAsked
  <2>1. SUFFICES ASSUME ClockInit
                 PROVE  ClockTypeOK /\ \A p \in Sleepers : SleeperSound(p)
    BY SleepPointwise
  <2>2. ticks = 0 /\ slp = [p \in Sleepers |-> NoSleep] /\ elapsed = [p \in Sleepers |-> 0]
    BY <2>1, ZenonT(30) DEF ClockInit
  <2>3. 0 \in 0 .. TICKS
    BY ClockConstants
  <2>4. ClockTypeOK
    BY <2>2, <2>3, SleepRecord, ZenonT(30) DEF ClockTypeOK
  <2>5. \A p \in Sleepers : slp[p].at = "user"
    BY <2>2, ZenonT(30) DEF NoSleep
  <2>. QED  BY <2>4, <2>5, ZenonT(30) DEF SleeperSound, SleeperInv, Sleeping, Returned
<1>2. SleepsAsAsked /\ [ClockNext]_clockVars => SleepsAsAsked'
  <2>1. SUFFICES ASSUME ClockTypeOK, \A p \in Sleepers : SleeperSound(p), [ClockNext]_clockVars
                 PROVE  ClockTypeOK' /\ \A p \in Sleepers : SleeperSound(p)'
    <3>1. (ClockTypeOK /\ \A p \in Sleepers : SleeperSound(p))' => SleepsAsAsked'
      BY SleepPointwise, PTL
    <3>. QED  BY <3>1, SleepPointwise, ZenonT(30)
  <2>2. CASE timer_tick
    BY <2>1, <2>2, timer_tick_sound
  <2>3. CASE timer_wakeup
    BY <2>1, <2>3, timer_wakeup_sound
  <2>4. ASSUME NEW p \in Sleepers, sleep_again(p) \/ sleep_locks(p) \/ sleep_sched(p)
        PROVE  ClockTypeOK' /\ \A q \in Sleepers : SleeperSound(q)'
    BY <2>1, <2>4, sleep_again_sound, sleep_locks_sound, sleep_sched_sound, ZenonT(30)
  <2>5. ASSUME NEW p \in Sleepers, kill_sleeper(p)
        PROVE  ClockTypeOK' /\ \A q \in Sleepers : SleeperSound(q)'
    BY <2>1, <2>5, kill_sleeper_sound, ZenonT(30)
  <2>6. ASSUME NEW p \in Sleepers, NEW n \in SleepTimes, sys_sleep(p, n)
        PROVE  ClockTypeOK' /\ \A q \in Sleepers : SleeperSound(q)'
    BY <2>1, <2>6, sys_sleep_sound, ZenonT(30)
  <2>7. CASE UNCHANGED clockVars
    <3>1. ticks' = ticks /\ tickslock' = tickslock /\ ptlock' = ptlock /\ slp' = slp
          /\ elapsed' = elapsed
      BY <2>7 DEF clockVars
    <3>2. ClockTypeOK'
      BY <2>1, <3>1, ZenonT(30) DEF ClockTypeOK
    <3>. QED
      BY <2>1, <3>1, <3>2, ZenonT(30)
         DEF SleeperSound, SleeperInv, Sleeping, Returned, TooSoon, Wrap
  <2>. QED
    BY <2>1, <2>2, <2>3, <2>4, <2>5, <2>6, <2>7, ZenonT(30) DEF ClockNext, TimerRuns, SleeperRuns
<1>. QED
  BY <1>1, <1>2, PTL DEF ClockSpec

-----------------------------------------------------------------------------
(* The console's ring. *)

(* How the first n elements of a sequence, its tail, *)
LEMMA FrontIs ==
  ASSUME NEW S, NEW s \in Seq(S), NEW t \in Seq(S), Len(s) = Len(t) + 1,
         \A k \in 1 .. Len(t) : t[k] = s[k]
  PROVE  t = SubSeq(s, 1, Len(t))
<1>1. /\ SubSeq(s, 1, Len(t)) \in Seq(S) /\ Len(SubSeq(s, 1, Len(t))) = Len(t)
      /\ \A k \in 1 .. Len(t) : SubSeq(s, 1, Len(t))[k] = s[k]
  OBVIOUS
<1>2. PICK u \in Seq(S) : u = SubSeq(s, 1, Len(t)) /\ Len(u) = Len(t) /\ \A k \in 1 .. Len(t) : u[k] = t[k]
  BY <1>1, ZenonT(30)
<1>3. u = t
  BY <1>2
<1>. QED  BY <1>2, <1>3

(* its tail *)
LEMMA TailIs ==
  ASSUME NEW S, NEW s \in Seq(S), NEW t \in Seq(S), Len(s) = Len(t) + 1,
         \A k \in 1 .. Len(t) : t[k] = s[k + 1]
  PROVE  t = Tail(s) /\ s # <<>>
<1>1. s # <<>>
  OBVIOUS
<1>2. /\ Tail(s) \in Seq(S) /\ Len(Tail(s)) = Len(t)
      /\ \A k \in 1 .. Len(t) : Tail(s)[k] = s[k + 1]
  BY <1>1
<1>3. PICK u \in Seq(S) : u = Tail(s) /\ Len(u) = Len(t) /\ \A k \in 1 .. Len(t) : u[k] = t[k]
  BY <1>2, ZenonT(30)
<1>4. u = t
  BY <1>3
<1>. QED  BY <1>1, <1>3, <1>4

(* and a concatenation are recognised. *)
LEMMA ConcatIs ==
  ASSUME NEW S, NEW s \in Seq(S), NEW t \in Seq(S), NEW u \in Seq(S),
         Len(u) = Len(s) + Len(t),
         \A i \in 1 .. Len(s) : u[i] = s[i],
         \A i \in 1 .. Len(t) : u[Len(s) + i] = t[i]
  PROVE  u = s \o t
<1>1. s \o t \in Seq(S) /\ Len(s \o t) = Len(s) + Len(t)
  OBVIOUS
<1>2. \A i \in 1 .. Len(s) + Len(t) : (s \o t)[i] = IF i <= Len(s) THEN s[i] ELSE t[i - Len(s)]
  OBVIOUS
<1>3. ASSUME NEW i \in 1 .. Len(s) + Len(t)
      PROVE  (s \o t)[i] = u[i]
  <2>1. CASE i <= Len(s)
    BY <1>2, <2>1
  <2>2. CASE ~ i <= Len(s)
    <3>1. i - Len(s) \in 1 .. Len(t) /\ Len(s) + (i - Len(s)) = i
      BY <2>2
    <3> QED  BY <1>2, <2>2, <3>1, ZenonT(30)
  <2> QED  BY <2>1, <2>2
<1> QED
  BY <1>1, <1>3

(* Indices and cells. *)
LEMMA UintRange ==
  ASSUME NEW i \in Int
  PROVE  /\ Uint(i) \in 0 .. INDICES - 1 /\ Uint(i) \in Int
         /\ Cell(i) \in 0 .. INPUT_BUF - 1
<1>1. INDICES \in Nat \ {0} /\ INPUT_BUF \in Nat \ {0}
  BY ConsoleConstants
<1>2. Uint(i) \in 0 .. INDICES - 1
  BY <1>1, ModRange, ZenonT(30) DEF Uint
<1>3. Uint(i) \in Int
  BY <1>1, <1>2
<1>4. Cell(i) \in 0 .. INPUT_BUF - 1
  BY <1>1, <1>3, ModRange, ZenonT(30) DEF Cell
<1>. QED  BY <1>2, <1>3, <1>4

(* An index that has not wrapped. *)
LEMMA UintSmall ==
  ASSUME NEW i \in 0 .. INDICES - 1
  PROVE  Uint(i) = i
<1>1. INDICES \in Nat \ {0}
  BY ConsoleConstants
<1>. QED  BY <1>1, ModSmall, ZenonT(30) DEF Uint

(* Counting on from an index that has wrapped. *)
LEMMA UintSum ==
  ASSUME NEW i \in Int, NEW k \in Int
  PROVE  Uint(Uint(i) + k) = Uint(i + k) /\ Cell(Uint(i) + k) = Cell(i + k)
<1>1. INDICES \in Nat \ {0}
  BY ConsoleConstants
<1>2. Uint(Uint(i) + k) = Uint(i + k)
  BY <1>1, ModSum, ZenonT(30) DEF Uint
<1>. QED  BY <1>2, ZenonT(30) DEF Cell

(* How far apart two indices are. *)
LEMMA UintSpan ==
  ASSUME NEW i \in Int, NEW j \in Int, j - i \in 0 .. INDICES - 1
  PROVE  Uint(Uint(j) - Uint(i)) = j - i
<1>1. INDICES \in Nat \ {0}
  BY ConsoleConstants
<1>2. Uint(Uint(j) - Uint(i)) = Uint(j - i)
  BY <1>1, ModDiff, ZenonT(30) DEF Uint
<1>. QED  BY <1>2, UintSmall, ZenonT(30)

(* Where an index has got to. *)
LEMMA UintReach ==
  ASSUME NEW i \in 0 .. INDICES - 1, NEW j \in 0 .. INDICES - 1
  PROVE  j = Uint(i + Uint(j - i))
<1>1. INDICES \in Nat \ {0} /\ i \in Int /\ j \in Int /\ j - i \in Int /\ (j - i) + i = j
  BY ConsoleConstants
<1>2. Uint(j - i) \in Int
  BY <1>1, UintRange
<1>3. Uint(j - i) + i = i + Uint(j - i)
  BY <1>1, <1>2
<1>4. Uint(Uint(j - i) + i) = Uint((j - i) + i)
  BY <1>1, UintSum, ZenonT(30)
<1>. QED  BY <1>1, <1>3, <1>4, UintSmall, ZenonT(30)

(* Less than a ring apart is not the same cell: the size of the ring divides *)
(* the range of the indices.                                                 *)
LEMMA CellApart ==
  ASSUME NEW i \in Int, NEW d \in 1 .. INPUT_BUF - 1
  PROVE  Cell(i) # Cell(i + d)
<1>1. INDICES \in Nat \ {0} /\ INPUT_BUF \in Nat \ {0} /\ INDICES % INPUT_BUF = 0
      /\ d \in Int /\ i + d \in Int
  BY ConsoleConstants
<1>2. Cell(i) = i % INPUT_BUF /\ Cell(i + d) = (i + d) % INPUT_BUF
  BY <1>1, ModMod, ZenonT(30) DEF Cell, Uint
<1> DEFINE m == i % INPUT_BUF
<1>3. m \in 0 .. INPUT_BUF - 1
  BY <1>1, ModRange, ZenonT(30)
<1>4. (i + d) % INPUT_BUF = (m + d) % INPUT_BUF
  BY <1>1, ModSum, ZenonT(30)
<1> HIDE DEF m
<1>5. CASE m + d < INPUT_BUF
  <2>1. m + d \in 0 .. INPUT_BUF - 1 /\ m + d # m
    BY <1>1, <1>3, <1>5
  <2>2. (m + d) % INPUT_BUF = m + d
    BY <1>1, <2>1, ModSmall, ZenonT(30)
  <2>. QED  BY <1>2, <1>4, <2>1, <2>2, ZenonT(30) DEF m
<1>6. CASE ~(m + d < INPUT_BUF)
  <2> DEFINE x == m + d - INPUT_BUF
  <2>1. x \in 0 .. INPUT_BUF - 1 /\ x # m /\ x \in Int /\ 1 \in Int /\ m + d = x + 1 * INPUT_BUF
    BY <1>1, <1>3, <1>6
  <2> HIDE DEF x
  <2>2. (x + 1 * INPUT_BUF) % INPUT_BUF = x % INPUT_BUF
    BY <1>1, <2>1, ModShift, ZenonT(30)
  <2>3. x % INPUT_BUF = x
    BY <1>1, <2>1, ModSmall, ZenonT(30)
  <2>4. (m + d) % INPUT_BUF = x
    BY <2>1, <2>2, <2>3, ZenonT(30)
  <2>. QED  BY <1>2, <1>4, <2>1, <2>4, ZenonT(30) DEF m
<1>. QED  BY <1>5, <1>6

(* The n characters from index i on. *)
Text(b, i, n) == [k \in 1 .. n |-> b[Cell(i + k - 1)]]

Rings == [0 .. INPUT_BUF - 1 -> Stored]

(* They are a sequence, *)
LEMMA TextSeq ==
  ASSUME NEW b \in Rings, NEW i \in Int, NEW n \in Nat
  PROVE  /\ Text(b, i, n) \in Seq(Stored) /\ Len(Text(b, i, n)) = n
         /\ \A k \in 1 .. n : Text(b, i, n)[k] = b[Cell(i + k - 1)]
<1>1. ASSUME NEW k \in 1 .. n
      PROVE  b[Cell(i + k - 1)] \in Stored
  <2>1. i + k - 1 \in Int
    OBVIOUS
  <2>2. Cell(i + k - 1) \in 0 .. INPUT_BUF - 1
    BY <2>1, UintRange, ZenonT(30)
  <2>. QED  BY <2>2, ZenonT(30) DEF Rings
<1>2. Text(b, i, n) \in [1 .. n -> Stored]
  BY <1>1, ZenonT(30) DEF Text
<1>3. \A k \in 1 .. n : Text(b, i, n)[k] = b[Cell(i + k - 1)]
  BY ZenonT(30) DEF Text
<1>4. PICK t : t = Text(b, i, n)
  OBVIOUS
<1>5. t \in Seq(Stored) /\ Len(t) = n
  BY <1>2, <1>4
<1>. QED  BY <1>3, <1>4, <1>5, ZenonT(30)

(* The same characters in n cells from i on. *)
SameCells(b, c, i, n) == \A k \in 0 .. n - 1 : b[Cell(i + k)] = c[Cell(i + k)]

(* The same holds of the parts of a run of cells. *)
LEMMA SameParts ==
  ASSUME NEW b, NEW c, NEW i \in Int, NEW m \in Nat, NEW n \in Nat, SameCells(b, c, i, m + n)
  PROVE  SameCells(b, c, i, m) /\ SameCells(b, c, i + m, n)
<1>1. \A k \in 0 .. m - 1 : k \in 0 .. (m + n) - 1
  OBVIOUS
<1>2. SameCells(b, c, i, m)
  BY <1>1, ZenonT(30) DEF SameCells
<1>3. ASSUME NEW k \in 0 .. n - 1
      PROVE  b[Cell((i + m) + k)] = c[Cell((i + m) + k)]
  <2>1. m + k \in 0 .. (m + n) - 1 /\ i + (m + k) = (i + m) + k
    OBVIOUS
  <2>2. b[Cell(i + (m + k))] = c[Cell(i + (m + k))]
    BY <2>1, ZenonT(30) DEF SameCells
  <2>. QED  BY <2>1, <2>2, ZenonT(30)
<1>4. SameCells(b, c, i + m, n)
  BY <1>3, ZenonT(30) DEF SameCells
<1>. QED  BY <1>2, <1>4

(* The same text, whether the first index has wrapped or not. *)
SameText(b, c, i, n) == Text(b, Uint(i), n) = Text(c, i, n) /\ Text(b, i, n) = Text(c, i, n)

(* A text depends only on its own cells. *)
LEMMA TextSame ==
  ASSUME NEW b, NEW c, NEW i \in Int, NEW n \in Nat, SameCells(b, c, i, n)
  PROVE  SameText(b, c, i, n)
<1>1. ASSUME NEW k \in 1 .. n
      PROVE  b[Cell(Uint(i) + k - 1)] = c[Cell(i + k - 1)] /\ b[Cell(i + k - 1)] = c[Cell(i + k - 1)]
  <2>1. k - 1 \in 0 .. n - 1 /\ k - 1 \in Int /\ i + (k - 1) = i + k - 1
    OBVIOUS
  <2>2. Uint(i) + (k - 1) = Uint(i) + k - 1
    BY UintRange
  <2>3. Cell(Uint(i) + (k - 1)) = Cell(i + (k - 1))
    BY <2>1, UintSum, ZenonT(30)
  <2>4. b[Cell(i + (k - 1))] = c[Cell(i + (k - 1))]
    BY <2>1, ZenonT(30) DEF SameCells
  <2>. QED  BY <2>1, <2>2, <2>3, <2>4, ZenonT(30)
<1>. QED  BY <1>1, ZenonT(30) DEF Text, SameText

(* A character is typed, *)
LEMMA TextAppend ==
  ASSUME NEW b \in Rings, NEW i \in Int, NEW n \in Nat
  PROVE  Text(b, i, n + 1) = Append(Text(b, i, n), b[Cell(i + n)])
<1>1. PICK s : s = Text(b, i, n)
  OBVIOUS
<1>2. PICK t : t = Text(b, i, n + 1)
  OBVIOUS
<1>3. PICK x : x = b[Cell(i + n)]
  OBVIOUS
<1>4. n + 1 \in Nat /\ n + 1 \in 1 .. n + 1 /\ i + (n + 1) - 1 = i + n /\ i + n \in Int
  OBVIOUS
<1>5. s \in Seq(Stored) /\ Len(s) = n /\ \A k \in 1 .. n : s[k] = b[Cell(i + k - 1)]
  BY <1>1, TextSeq, ZenonT(30)
<1>6. t \in Seq(Stored) /\ Len(t) = n + 1 /\ \A k \in 1 .. n + 1 : t[k] = b[Cell(i + k - 1)]
  BY <1>2, <1>4, TextSeq
<1>7. t[n + 1] = x /\ x \in Stored
  <2>1. t[n + 1] = b[Cell(i + (n + 1) - 1)]
    BY <1>4, <1>6, ZenonT(30)
  <2>2. Cell(i + n) \in 0 .. INPUT_BUF - 1
    BY <1>4, UintRange, ZenonT(30)
  <2>. QED  BY <1>3, <1>4, <2>1, <2>2, ZenonT(30) DEF Rings
<1>8. \A k \in 1 .. n : t[k] = s[k]
  <2>1. \A k \in 1 .. n : k \in 1 .. n + 1
    OBVIOUS
  <2>. QED  BY <1>5, <1>6, <2>1, ZenonT(30)
<1>9. t = Append(s, x)
  BY <1>5, <1>6, <1>7, <1>8
<1>. QED  BY <1>1, <1>2, <1>3, <1>9, ZenonT(30)

(* erased, *)
LEMMA TextFront ==
  ASSUME NEW b \in Rings, NEW i \in Int, NEW n \in Nat \ {0}
  PROVE  Text(b, i, n - 1) = SubSeq(Text(b, i, n), 1, Len(Text(b, i, n)) - 1)
<1>1. PICK s : s = Text(b, i, n)
  OBVIOUS
<1>2. PICK t : t = Text(b, i, n - 1)
  OBVIOUS
<1>3. n - 1 \in Nat /\ n \in Nat /\ \A k \in 1 .. n - 1 : k \in 1 .. n
  OBVIOUS
<1>4. s \in Seq(Stored) /\ Len(s) = n /\ \A k \in 1 .. n : s[k] = b[Cell(i + k - 1)]
  BY <1>1, <1>3, TextSeq, ZenonT(30)
<1>5. t \in Seq(Stored) /\ Len(t) = n - 1 /\ \A k \in 1 .. n - 1 : t[k] = b[Cell(i + k - 1)]
  BY <1>2, <1>3, TextSeq, ZenonT(30)
<1>6. \A k \in 1 .. n - 1 : t[k] = s[k]
  BY <1>3, <1>4, <1>5, ZenonT(30)
<1>7. Len(s) = Len(t) + 1 /\ Len(t) = n - 1
  BY <1>4, <1>5
<1>8. t = SubSeq(s, 1, Len(t))
  BY <1>4, <1>5, <1>6, <1>7, FrontIs, ZenonT(30)
<1>. QED  BY <1>1, <1>2, <1>4, <1>7, <1>8, ZenonT(30)

(* read. *)
LEMMA TextTail ==
  ASSUME NEW b \in Rings, NEW i \in Int, NEW n \in Nat \ {0}
  PROVE  Text(b, i + 1, n - 1) = Tail(Text(b, i, n)) /\ Text(b, i, n) # <<>>
<1>1. PICK s : s = Text(b, i, n)
  OBVIOUS
<1>2. PICK t : t = Text(b, i + 1, n - 1)
  OBVIOUS
<1>3. n - 1 \in Nat /\ n \in Nat /\ i + 1 \in Int
      /\ \A k \in 1 .. n - 1 : k + 1 \in 1 .. n /\ (i + 1) + k - 1 = i + (k + 1) - 1
  OBVIOUS
<1>4. s \in Seq(Stored) /\ Len(s) = n /\ \A k \in 1 .. n : s[k] = b[Cell(i + k - 1)]
  BY <1>1, <1>3, TextSeq, ZenonT(30)
<1>5. t \in Seq(Stored) /\ Len(t) = n - 1 /\ \A k \in 1 .. n - 1 : t[k] = b[Cell((i + 1) + k - 1)]
  BY <1>2, <1>3, TextSeq
<1>6. \A k \in 1 .. n - 1 : t[k] = s[k + 1]
  BY <1>3, <1>4, <1>5, ZenonT(30)
<1>7. Len(s) = Len(t) + 1 /\ Len(t) = n - 1
  BY <1>4, <1>5
<1>8. t = Tail(s) /\ s # <<>>
  BY <1>4, <1>5, <1>6, <1>7, TailIs, ZenonT(30)
<1>. QED  BY <1>1, <1>2, <1>8, ZenonT(30)

(* A line that is finished follows the ones before it. *)
LEMMA TextConcat ==
  ASSUME NEW b \in Rings, NEW i \in Int, NEW m \in Nat, NEW n \in Nat
  PROVE  Text(b, i, m + n) = Text(b, i, m) \o Text(b, i + m, n)
<1>1. PICK s : s = Text(b, i, m)
  OBVIOUS
<1>2. PICK t : t = Text(b, i + m, n)
  OBVIOUS
<1>3. PICK u : u = Text(b, i, m + n)
  OBVIOUS
<1>4. m + n \in Nat /\ i + m \in Int
      /\ (\A k \in 1 .. m : k \in 1 .. m + n)
      /\ (\A k \in 1 .. n : m + k \in 1 .. m + n /\ i + (m + k) - 1 = (i + m) + k - 1)
  OBVIOUS
<1>5. s \in Seq(Stored) /\ Len(s) = m /\ \A k \in 1 .. m : s[k] = b[Cell(i + k - 1)]
  BY <1>1, TextSeq, ZenonT(30)
<1>6. t \in Seq(Stored) /\ Len(t) = n /\ \A k \in 1 .. n : t[k] = b[Cell((i + m) + k - 1)]
  BY <1>2, <1>4, TextSeq, ZenonT(30)
<1>7. u \in Seq(Stored) /\ Len(u) = m + n /\ \A k \in 1 .. m + n : u[k] = b[Cell(i + k - 1)]
  BY <1>3, <1>4, TextSeq, ZenonT(30)
<1>8. \A k \in 1 .. Len(s) : u[k] = s[k]
  BY <1>4, <1>5, <1>7, ZenonT(30)
<1>9. \A k \in 1 .. Len(t) : u[Len(s) + k] = t[k]
  BY <1>4, <1>5, <1>6, <1>7, ZenonT(30)
<1>10. Len(u) = Len(s) + Len(t)
  BY <1>5, <1>6, <1>7, ZenonT(30)
<1>11. u = s \o t
  BY <1>5, <1>6, <1>7, <1>8, <1>9, <1>10, ConcatIs, ZenonT(30)
<1>. QED  BY <1>1, <1>2, <1>3, <1>11, ZenonT(30)

(* A ring with a characters in finished lines, from index r on, and b in the *)
(* line being edited.                                                        *)
Shape(q, r, a, b) ==
  /\ q \in Inputs /\ r \in Int /\ a \in Nat /\ b \in Nat /\ a + b <= INPUT_BUF
  /\ q.r = Uint(r) /\ q.w = Uint(r + a) /\ q.e = Uint(r + (a + b))

(* The fields of a ring. *)
LEMMA RingFields ==
  ASSUME NEW q \in Inputs
  PROVE  /\ q.buf \in Rings /\ q.r \in 0 .. INDICES - 1 /\ q.w \in 0 .. INDICES - 1
         /\ q.e \in 0 .. INDICES - 1 /\ q.r \in Int /\ q.w \in Int /\ q.e \in Int
<1>1. /\ q.buf \in Rings /\ q.r \in 0 .. INDICES - 1 /\ q.w \in 0 .. INDICES - 1
      /\ q.e \in 0 .. INDICES - 1
  BY ZenonT(30) DEF Inputs, Rings
<1>2. \A i \in 0 .. INDICES - 1 : i \in Int
  BY ConsoleConstants
<1>. QED  BY <1>1, <1>2, ZenonT(30)

(* The distances that the code computes. *)
LEMMA ShapeSpans ==
  ASSUME NEW q, NEW r, NEW a, NEW b, Shape(q, r, a, b)
  PROVE  /\ Uint(q.w - q.r) = a /\ Uint(q.e - q.w) = b /\ Uint(q.e - q.r) = a + b
         /\ (q.r = q.w <=> a = 0) /\ (q.e = q.w <=> b = 0)
<1>1. /\ r \in Int /\ a \in Nat /\ b \in Nat /\ a + b <= INPUT_BUF
      /\ q.r = Uint(r) /\ q.w = Uint(r + a) /\ q.e = Uint(r + (a + b))
  BY ZenonT(30) DEF Shape
<1>2. /\ r + a \in Int /\ r + (a + b) \in Int
      /\ (r + a) - r = a /\ (r + (a + b)) - (r + a) = b /\ (r + (a + b)) - r = a + b
      /\ a \in 0 .. INDICES - 1 /\ b \in 0 .. INDICES - 1 /\ a + b \in 0 .. INDICES - 1
  BY <1>1, ConsoleConstants
<1>3. Uint(q.w - q.r) = a
  BY <1>1, <1>2, UintSpan, ZenonT(30)
<1>4. Uint(q.e - q.w) = b
  BY <1>1, <1>2, UintSpan, ZenonT(30)
<1>5. Uint(q.e - q.r) = a + b
  BY <1>1, <1>2, UintSpan, ZenonT(30)
<1>6. Uint(0) = 0 /\ q.r - q.r = 0 /\ q.w - q.w = 0
  <2>1. 0 \in 0 .. INDICES - 1 
    BY ConsoleConstants
  <2>2. q.r \in Int /\ q.w \in Int
    BY <1>1, <1>2, UintRange, ZenonT(30)
  <2>3. \A i \in Int : i - i = 0
    OBVIOUS
  <2>. QED  BY <2>1, <2>2, <2>3, UintSmall, ZenonT(30)
<1>7. q.r = q.w <=> a = 0
  <2>1. ASSUME a = 0
        PROVE  r + a = r
    BY <1>1, <2>1
  <2>. QED  BY <1>1, <1>3, <1>6, <2>1, ZenonT(30)
<1>8. q.e = q.w <=> b = 0
  <2>1. ASSUME b = 0
        PROVE  r + (a + b) = r + a
    BY <1>1, <2>1
  <2>. QED  BY <1>1, <1>4, <1>6, <2>1, ZenonT(30)
<1>. QED  BY <1>3, <1>4, <1>5, <1>7, <1>8

(* The sequences of the abstract console. *)
LineFact ==
  \A r, a, b : Shape(input, r, a, b) =>
    /\ FinishedLines = Text(input.buf, r, a)
    /\ EditedLine = Text(input.buf, r + a, b)

(* What FinishedLines and EditedLine are in a ring of that shape. *)
LEMMA LinesAre == LineFact
<1>1. SUFFICES ASSUME NEW r, NEW a, NEW b, Shape(input, r, a, b)
               PROVE  /\ FinishedLines = Text(input.buf, r, a)
                      /\ EditedLine = Text(input.buf, r + a, b)
  BY DEF LineFact
<1>2. /\ r \in Int /\ a \in Nat /\ b \in Nat
      /\ input.r = Uint(r) /\ input.w = Uint(r + a)
  BY <1>1, ZenonT(30) DEF Shape
<1>3. Uint(input.w - input.r) = a /\ Uint(input.e - input.w) = b
  BY <1>1, ShapeSpans, ZenonT(30)
<1>4. FinishedLines = Text(input.buf, Uint(r), a)
  BY <1>2, <1>3, ZenonT(30) DEF Chars, Text, FinishedLines, EditedLine
<1>5. EditedLine = Text(input.buf, Uint(r + a), b)
  BY <1>2, <1>3, ZenonT(30) DEF Chars, Text, FinishedLines, EditedLine
<1>6. r + a \in Int
  BY <1>2
<1>7. SameCells(input.buf, input.buf, r, a) /\ SameCells(input.buf, input.buf, r + a, b)
  BY ZenonT(30) DEF SameCells
<1>8. /\ Text(input.buf, Uint(r), a) = Text(input.buf, r, a)
      /\ Text(input.buf, Uint(r + a), b) = Text(input.buf, r + a, b)
  <2>1. SameText(input.buf, input.buf, r, a) /\ SameText(input.buf, input.buf, r + a, b)
    BY <1>2, <1>6, <1>7, TextSame, ZenonT(30)
  <2>. QED  BY <2>1, ZenonT(30) DEF SameText
<1>. QED  BY <1>4, <1>5, <1>8, ZenonT(30)

(* No newline among the characters of the line being edited. *)
NoNewline(q, r, a, b) == \A k \in 0 .. b - 1 : q.buf[Cell((r + a) + k)] # "nl"

(* The invariant of the ring, in these terms. *)
RingShaped == \E r, a, b : Shape(input, r, a, b) /\ NoNewline(input, r, a, b)

(* A ring of that shape is what RingInv describes. *)
LEMMA RingIs == RingShaped <=> input \in Inputs /\ RingInv
<1>1. ASSUME RingShaped
      PROVE  input \in Inputs /\ RingInv
  <2>1. PICK r, a, b : Shape(input, r, a, b) /\ NoNewline(input, r, a, b)
    BY <1>1 DEF RingShaped
  <2>2. /\ r \in Int /\ a \in Nat /\ b \in Nat /\ a + b <= INPUT_BUF /\ input \in Inputs
    BY <2>1, ZenonT(30) DEF Shape
  <2>3. Uint(input.w - input.r) = a /\ Uint(input.e - input.w) = b
    BY <2>1, ShapeSpans, ZenonT(30)
  <2>4. EditedLine = Text(input.buf, r + a, b)
    BY <2>1, LinesAre DEF LineFact
  <2>5. ASSUME NEW i \in 1 .. b
        PROVE  EditedLine[i] # "nl"
    <3>1. i - 1 \in 0 .. b - 1 /\ r + a \in Int /\ (r + a) + (i - 1) = (r + a) + i - 1
      BY <2>2
    <3>2. Text(input.buf, r + a, b)[i] = input.buf[Cell((r + a) + i - 1)]
      BY <2>2, <3>1, RingFields, TextSeq, ZenonT(30)
    <3>. QED  BY <2>1, <2>4, <3>1, <3>2, ZenonT(30) DEF NoNewline
  <2>. QED  BY <2>2, <2>3, <2>5, ZenonT(30) DEF RingInv
<1>2. ASSUME input \in Inputs, RingInv
      PROVE  RingShaped
  <2>1. PICK r, w, e : r = input.r /\ w = input.w /\ e = input.e
    OBVIOUS
  <2>2. r \in 0 .. INDICES - 1 /\ w \in 0 .. INDICES - 1 /\ e \in 0 .. INDICES - 1
    BY <1>2, <2>1, RingFields, ZenonT(30)
  <2>3. PICK a, b : a = Uint(w - r) /\ b = Uint(e - w)
    OBVIOUS
  <2>4. a \in Nat /\ b \in Nat /\ w - r \in Int /\ e - w \in Int /\ r \in Int /\ r + a \in Int
    <3>1. w - r \in Int /\ e - w \in Int /\ r \in Int
      BY <2>2, ConsoleConstants
    <3>2. a \in 0 .. INDICES - 1 /\ b \in 0 .. INDICES - 1
      BY <2>3, <3>1, UintRange, ZenonT(30)
    <3>. QED  BY <3>1, <3>2, ConsoleConstants
  <2>5. a + b <= INPUT_BUF
    BY <1>2, <2>1, <2>3, ZenonT(30) DEF RingInv
  <2>6. r = Uint(r) /\ w = Uint(r + a) /\ e = Uint(w + b)
    BY <2>2, <2>3, UintSmall, UintReach, ZenonT(30)
  <2>7. e = Uint(r + (a + b))
    <3>1. Uint(Uint(r + a) + b) = Uint((r + a) + b)
      <4>1. b \in Int
        BY <2>4
      <4>. QED  BY <2>4, <4>1, UintSum, ZenonT(30)
    <3>2. (r + a) + b = r + (a + b)
      BY <2>4
    <3>. QED  BY <2>6, <3>1, <3>2, ZenonT(30)
  <2>8. Shape(input, r, a, b)
    BY <1>2, <2>1, <2>4, <2>5, <2>6, <2>7, ZenonT(30) DEF Shape
  <2>9. ASSUME NEW k \in 0 .. b - 1
        PROVE  input.buf[Cell((r + a) + k)] # "nl"
    <3>1. k + 1 \in 1 .. b /\ (r + a) + k = (r + a) + (k + 1) - 1
      BY <2>4
    <3>2. EditedLine = Text(input.buf, r + a, b)
      BY <2>8, LinesAre DEF LineFact
    <3>3. Text(input.buf, r + a, b)[k + 1] = input.buf[Cell((r + a) + (k + 1) - 1)]
      BY <1>2, <2>4, <3>1, RingFields, TextSeq, ZenonT(30)
    <3>4. EditedLine[k + 1] # "nl"
      BY <1>2, <2>1, <2>3, <3>1, ZenonT(30) DEF RingInv
    <3>. QED  BY <3>1, <3>2, <3>3, <3>4, ZenonT(30)
  <2>. QED  BY <2>8, <2>9, ZenonT(30) DEF RingShaped, NoNewline
<1>. QED  BY <1>1, <1>2

(* typed(): a character that fits is stored behind the others. *)
LEMMA StoreShape ==
  ASSUME NEW r, NEW a, NEW b, Shape(input, r, a, b), a + b < INPUT_BUF, NEW c \in Stored,
         NEW u, u = WithChar(c)
  PROVE  /\ Shape(u, r, a, b + 1) /\ u.buf[Cell((r + a) + b)] = c
         /\ SameCells(u.buf, input.buf, r, a + b)
<1>1. /\ input \in Inputs /\ r \in Int /\ a \in Nat /\ b \in Nat /\ a + b <= INPUT_BUF
      /\ input.r = Uint(r) /\ input.w = Uint(r + a) /\ input.e = Uint(r + (a + b))
  BY ZenonT(30) DEF Shape
<1>2. /\ b + 1 \in Nat /\ a + (b + 1) <= INPUT_BUF /\ r + (a + b) \in Int /\ 0 \in Int /\ 1 \in Int
      /\ (r + (a + b)) + 1 = r + (a + (b + 1)) /\ (r + (a + b)) + 0 = (r + a) + b
      /\ r + (a + b) = (r + a) + b /\ r + (a + (b + 1)) \in Int
  BY <1>1, ConsoleConstants
<1>3. PICK x : x = Cell(input.e)
  OBVIOUS
<1>4. x \in 0 .. INPUT_BUF - 1 /\ x = Cell(r + (a + b))
  <2>1. input.e + 0 = input.e
    BY <1>1, <1>2, UintRange
  <2>2. Cell(input.e + 0) = Cell((r + (a + b)) + 0)
    BY <1>1, <1>2, UintSum
  <2>. QED  BY <1>2, <1>3, <2>1, <2>2, UintRange, ZenonT(30)
<1>5. Uint(input.e + 1) = Uint(r + (a + (b + 1))) /\ Uint(input.e + 1) \in 0 .. INDICES - 1
  <2>1. Uint(input.e + 1) = Uint((r + (a + b)) + 1)
    BY <1>1, <1>2, UintSum
  <2>. QED  BY <1>2, <2>1, UintRange, ZenonT(30)
<1>6. input.buf \in Rings
  BY <1>1, RingFields, ZenonT(30)
<1>7. u = [input EXCEPT !.buf = [input.buf EXCEPT ![x] = c], !.e = Uint(input.e + 1)]
  BY <1>1, <1>3, ZenonT(30) DEF Inputs, WithChar
<1>8. [input.buf EXCEPT ![x] = c] \in Rings
  BY <1>4, <1>6, ZenonT(30) DEF Rings
<1>9. u \in Inputs /\ u.r = input.r /\ u.w = input.w /\ u.e = Uint(input.e + 1)
      /\ u.buf = [input.buf EXCEPT ![x] = c]
  BY <1>1, <1>5, <1>7, <1>8, ZenonT(30) DEF Inputs, Rings
<1>10. Shape(u, r, a, b + 1)
  BY <1>1, <1>2, <1>5, <1>9, ZenonT(30) DEF Shape
<1>11. u.buf[Cell((r + a) + b)] = c
  BY <1>2, <1>4, <1>6, <1>9, ZenonT(30) DEF Rings
<1>12. ASSUME NEW k \in 0 .. (a + b) - 1
       PROVE  u.buf[Cell(r + k)] = input.buf[Cell(r + k)]
  <2>1. (a + b) - k \in 1 .. INPUT_BUF - 1 /\ r + k \in Int
        /\ (r + k) + ((a + b) - k) = r + (a + b)
    BY <1>1, ConsoleConstants
  <2>2. Cell(r + k) # x
    BY <1>4, <2>1, CellApart, ZenonT(30)
  <2>3. Cell(r + k) \in 0 .. INPUT_BUF - 1
    BY <2>1, UintRange, ZenonT(30)
  <2>. QED  BY <1>6, <1>9, <2>2, <2>3, ZenonT(30) DEF Rings
<1>. QED  BY <1>10, <1>11, <1>12, ZenonT(30) DEF SameCells

(* A line is finished: input.w moves up to input.e. *)
LEMMA CommitShape ==
  ASSUME NEW q, NEW r, NEW a, NEW b, Shape(q, r, a, b), NEW u, u = [q EXCEPT !.w = q.e]
  PROVE  Shape(u, r, a + b, 0) /\ u.buf = q.buf
<1>1. /\ q \in Inputs /\ r \in Int /\ a \in Nat /\ b \in Nat /\ a + b <= INPUT_BUF
      /\ q.r = Uint(r) /\ q.e = Uint(r + (a + b))
  BY ZenonT(30) DEF Shape
<1>2. a + b \in Nat /\ 0 \in Nat /\ (a + b) + 0 = a + b
  BY <1>1
<1>3. u \in Inputs /\ u.r = q.r /\ u.w = q.e /\ u.e = q.e /\ u.buf = q.buf
  BY <1>1, ZenonT(30) DEF Inputs
<1>. QED  BY <1>1, <1>2, <1>3, ZenonT(30) DEF Shape

(* Forgetting the cells that are never read changes none that are. *)
LEMMA KeptShape ==
  ASSUME NEW q, NEW r, NEW a, NEW b, Shape(q, r, a, b)
  PROVE  /\ Shape(Kept(q), r, a, b)
         /\ SameCells(Kept(q).buf, q.buf, r, a + b)
<1>1. /\ q \in Inputs /\ r \in Int /\ a \in Nat /\ b \in Nat /\ a + b <= INPUT_BUF
      /\ q.r = Uint(r) /\ q.w = Uint(r + a) /\ q.e = Uint(r + (a + b))
  BY ZenonT(30) DEF Shape
<1>2. Uint(q.e - q.r) = a + b
  BY ShapeSpans, ZenonT(30)
<1>3. PICK f : f = [c \in 0 .. INPUT_BUF - 1 |->
                      IF \E k \in 0 .. (a + b) - 1 : c = Cell(q.r + k) THEN q.buf[c] ELSE "none"]
  BY ZenonT(30)
<1>4. Kept(q) = [q EXCEPT !.buf = f]
  BY <1>1, <1>2, <1>3, ZenonT(30) DEF Kept, Inputs
<1>5. q.buf \in Rings
  BY <1>1, RingFields, ZenonT(30)
<1>6. f \in Rings
  <2>1. ASSUME NEW c \in 0 .. INPUT_BUF - 1
        PROVE  (IF \E k \in 0 .. (a + b) - 1 : c = Cell(q.r + k) THEN q.buf[c] ELSE "none") \in Stored
    BY <1>5, ZenonT(30) DEF Rings, Stored
  <2>. QED  BY <1>3, <2>1, ZenonT(30) DEF Rings
<1>7. Kept(q) \in Inputs /\ Kept(q).r = q.r /\ Kept(q).w = q.w /\ Kept(q).e = q.e /\ Kept(q).buf = f
  BY <1>1, <1>4, <1>6, ZenonT(30) DEF Inputs, Rings
<1>8. Shape(Kept(q), r, a, b)
  BY <1>1, <1>7, ZenonT(30) DEF Shape
<1>9. ASSUME NEW k \in 0 .. (a + b) - 1
      PROVE  Kept(q).buf[Cell(r + k)] = q.buf[Cell(r + k)]
  <2>1. k \in Int /\ r + k \in Int
    BY <1>1
  <2>2. Cell(r + k) = Cell(q.r + k) /\ Cell(r + k) \in 0 .. INPUT_BUF - 1
    BY <1>1, <2>1, UintSum, UintRange, ZenonT(30)
  <2>. QED  BY <1>3, <1>7, <2>2, ZenonT(30)
<1>. QED  BY <1>8, <1>9, ZenonT(30) DEF SameCells

(* The ring with another end, or one character less at the start. *)
EndAt(q, x) == [q EXCEPT !.e = x]
Taken(q) == [q EXCEPT !.r = Uint(@ + 1)]

(* backspace and kill-line: the line being edited keeps m characters. *)
LEMMA EraseShape ==
  ASSUME NEW q, NEW r, NEW a, NEW b, Shape(q, r, a, b), NEW m \in 0 .. b,
         NEW u, u = Kept(EndAt(q, Uint(r + (a + m))))
  PROVE  /\ Shape(u, r, a, m)
         /\ SameCells(u.buf, q.buf, r, a + m)
<1>1. /\ q \in Inputs /\ r \in Int /\ a \in Nat /\ b \in Nat /\ a + b <= INPUT_BUF
      /\ q.r = Uint(r) /\ q.w = Uint(r + a)
  BY ZenonT(30) DEF Shape
<1>2. m \in Nat /\ a + m <= INPUT_BUF /\ r + (a + m) \in Int
  BY <1>1, ConsoleConstants
<1>3. PICK v : v = EndAt(q, Uint(r + (a + m)))
  OBVIOUS
<1>4. Uint(r + (a + m)) \in 0 .. INDICES - 1
  BY <1>2, UintRange, ZenonT(30)
<1>5. v \in Inputs /\ v.r = q.r /\ v.w = q.w /\ v.e = Uint(r + (a + m)) /\ v.buf = q.buf
  BY <1>1, <1>3, <1>4, ZenonT(30) DEF Inputs, EndAt
<1>6. Shape(v, r, a, m)
  BY <1>1, <1>2, <1>5, ZenonT(30) DEF Shape
<1>7. u = Kept(v)
  BY <1>3, ZenonT(30)
<1>8. /\ Shape(Kept(v), r, a, m)
      /\ SameCells(Kept(v).buf, v.buf, r, a + m)
  BY <1>6, KeptShape, ZenonT(30)
<1>. QED  BY <1>5, <1>7, <1>8, ZenonT(30)

(* consoleread() takes a character. *)
LEMMA TakeShape ==
  ASSUME NEW q, NEW s \in Int, NEW n \in Nat, NEW b, Shape(q, s - 1, n + 1, b)
  PROVE  /\ Shape(Kept(Taken(q)), s, n, b)
         /\ SameCells(Kept(Taken(q)).buf, q.buf, s, n + b)
<1>1. /\ q \in Inputs /\ s - 1 \in Int /\ b \in Nat /\ (n + 1) + b <= INPUT_BUF
      /\ q.r = Uint(s - 1) /\ q.w = Uint((s - 1) + (n + 1)) /\ q.e = Uint((s - 1) + ((n + 1) + b))
  BY ZenonT(30) DEF Shape
<1>2. /\ n + b <= INPUT_BUF /\ 1 \in Int /\ (s - 1) + 1 = s
      /\ (s - 1) + (n + 1) = s + n /\ (s - 1) + ((n + 1) + b) = s + (n + b)
  BY <1>1, ConsoleConstants
<1>3. PICK v : v = Taken(q)
  OBVIOUS
<1>4. Uint(q.r + 1) = Uint(s) /\ Uint(s) \in 0 .. INDICES - 1
  <2>1. Uint(Uint(s - 1) + 1) = Uint((s - 1) + 1)
    BY <1>1, <1>2, UintSum, ZenonT(30)
  <2>2. Uint(s) \in 0 .. INDICES - 1
    BY UintRange, ZenonT(30)
  <2>. QED  BY <1>1, <1>2, <2>1, <2>2, ZenonT(30)
<1>5. v = [q EXCEPT !.r = Uint(s)]
  BY <1>3, <1>4, ZenonT(30) DEF Taken
<1>6. v \in Inputs /\ v.r = Uint(s) /\ v.w = q.w /\ v.e = q.e /\ v.buf = q.buf
  BY <1>1, <1>4, <1>5, ZenonT(30) DEF Inputs
<1>7. Shape(v, s, n, b)
  BY <1>1, <1>2, <1>6, ZenonT(30) DEF Shape
<1>8. /\ Shape(Kept(v), s, n, b)
      /\ SameCells(Kept(v).buf, v.buf, s, n + b)
  BY <1>7, KeptShape, ZenonT(30)
<1>. QED  BY <1>3, <1>6, <1>8, ZenonT(30)

(* Kill-line goes back to input.w: it meets no newline on the way. *)
LEMMA LineStartIs ==
  ASSUME NEW r, NEW a, NEW b, Shape(input, r, a, b), NoNewline(input, r, a, b)
  PROVE  LineStart = Uint(r + (a + 0))
<1>1. /\ input \in Inputs /\ r \in Int /\ a \in Nat /\ b \in Nat /\ a + b <= INPUT_BUF
      /\ input.w = Uint(r + a) /\ input.e = Uint(r + (a + b))
  BY ZenonT(30) DEF Shape
<1>2. Uint(input.e - input.w) = b /\ input.e \in Int
  BY <1>1, ShapeSpans, RingFields, ZenonT(30)
<1>3. PICK e : e = input.e
  OBVIOUS
<1>4. ASSUME NEW k \in 0 .. b
      PROVE  Uint(e - k) = Uint((r + a) + (b - k)) /\ Cell(e - k) = Cell((r + a) + (b - k))
  <2>1. -k \in Int /\ r + (a + b) \in Int /\ (r + (a + b)) + (-k) = (r + a) + (b - k)
    BY <1>1
  <2>2. e + (-k) = e - k
    BY <1>2, <1>3
  <2>. QED  BY <1>1, <1>3, <2>1, <2>2, UintSum
<1>5. ASSUME NEW i \in 1 .. b
      PROVE  input.buf[Cell(e - i)] # "nl"
  <2>1. i \in 0 .. b /\ b - i \in 0 .. b - 1
    BY <1>1
  <2>. QED  BY <1>4, <2>1, ZenonT(30) DEF NoNewline
<1>6. Uint(e - b) = input.w /\ b \in 0 .. b
  <2>1. b \in 0 .. b /\ (r + a) + (b - b) = r + a
    BY <1>1
  <2>. QED  BY <1>1, <1>4, <2>1, ZenonT(30)
<1>7. ASSUME NEW k \in 0 .. b, k # b
      PROVE  Uint(e - k) # input.w /\ input.buf[Cell(e - k - 1)] # "nl"
  <2>0. k \in Nat /\ k < b /\ b <= INPUT_BUF /\ INPUT_BUF <= INDICES - 1
        /\ r \in Int /\ a \in Nat /\ b \in Nat /\ INDICES \in Nat
    BY <1>1, <1>7, ConsoleConstants
  <2>1. k + 1 \in 1 .. b /\ r + a \in Int /\ (r + a) + (b - k) \in Int
        /\ ((r + a) + (b - k)) - (r + a) = b - k /\ b - k \in 0 .. INDICES - 1 /\ b - k # 0
        /\ 0 \in 0 .. INDICES - 1
    <3>1. k + 1 \in 1 .. b /\ r + a \in Int /\ b - k \in Nat /\ b - k # 0 /\ b - k <= INPUT_BUF
      BY <2>0, ConsoleConstants
    <3>2. 0 \in 0 .. INDICES - 1 /\ b - k \in 0 .. INDICES - 1
      BY <2>0, <3>1, ConsoleConstants
    <3>3. \A x \in Int, y \in Nat : x + y \in Int /\ (x + y) - x = y
      OBVIOUS
    <3>. QED  BY <3>1, <3>2, <3>3, ZenonT(30)
  <2>2. e - (k + 1) = e - k - 1
    BY <1>2, <1>3
  <2>3. Uint(Uint((r + a) + (b - k)) - Uint(r + a)) = b - k
    BY <2>1, UintSpan, ZenonT(30)
  <2>4. Uint(r + a) - Uint(r + a) = 0
    BY <2>1, UintRange
  <2>5. Uint(0) = 0
    BY <2>1, UintSmall, ZenonT(30)
  <2>6. Uint((r + a) + (b - k)) # Uint(r + a)
    BY <2>1, <2>3, <2>4, <2>5, ZenonT(30)
  <2>. QED  BY <1>1, <1>4, <1>5, <2>1, <2>2, <2>6, ZenonT(30)
<1> DEFINE back == {k \in 0 .. Uint(input.e - input.w) :
                      /\ \A i \in 1 .. k : input.buf[Cell(input.e - i)] # "nl"
                      /\ Uint(input.e - k) = input.w \/ input.buf[Cell(input.e - k - 1)] = "nl"}
<1>8. b \in back
  BY <1>2, <1>3, <1>5, <1>6, ZenonT(30)
<1>9. \A k \in back : k = b
  BY <1>2, <1>3, <1>7, ZenonT(30)
<1>10. LineStart = Uint(input.e - CHOOSE k \in back : \A j \in back : k <= j)
  BY ZenonT(30) DEF LineStart
<1> HIDE DEF back
<1>11. b <= b
  BY <1>1
<1>12. (CHOOSE k \in back : \A j \in back : k <= j) = b
  BY <1>8, <1>9, <1>11, ZenonT(30)
<1>13. a + 0 = a
  BY <1>1
<1>. QED  BY <1>1, <1>3, <1>6, <1>10, <1>12, <1>13, ZenonT(30)

(* The abstract console before and after a step, from the shape of the ring. *)
LEMMA LinesBefore ==
  ASSUME NEW r, NEW a, NEW b, Shape(input, r, a, b)
  PROVE  /\ FinishedLines = Text(input.buf, r, a) /\ EditedLine = Text(input.buf, r + a, b)
         /\ Len(FinishedLines) = a /\ Len(EditedLine) = b /\ (EditedLine = <<>> <=> b = 0)
<1>1. FinishedLines = Text(input.buf, r, a) /\ EditedLine = Text(input.buf, r + a, b)
  BY LinesAre DEF LineFact
<1>2. input.buf \in Rings /\ r \in Int /\ a \in Nat /\ b \in Nat
  BY RingFields, ZenonT(30) DEF Shape
<1>3. r + a \in Int
  BY <1>2
<1>4. PICK t : t = Text(input.buf, r + a, b)
  OBVIOUS
<1>5. t \in Seq(Stored) /\ Len(t) = b
  BY <1>2, <1>3, <1>4, TextSeq, ZenonT(30)
<1>6. t = <<>> <=> b = 0
  BY <1>2, <1>5
<1>. QED  BY <1>1, <1>2, <1>4, <1>5, <1>6, TextSeq, ZenonT(30)

(* The same after a step. *)
LEMMA LinesAfter ==
  ASSUME NEW r, NEW a, NEW b, Shape(input', r, a, b)
  PROVE  /\ FinishedLines' = Text(input'.buf, r, a) /\ EditedLine' = Text(input'.buf, r + a, b)
         /\ (b = 0 => EditedLine' = <<>>)
<1>1. LineFact'
  BY LinesAre, PTL
<1>2. FinishedLines' = Text(input'.buf, r, a) /\ EditedLine' = Text(input'.buf, r + a, b)
  BY <1>1 DEF LineFact
<1>3. input'.buf \in Rings /\ r \in Int /\ a \in Nat /\ b \in Nat
  BY RingFields, ZenonT(30) DEF Shape
<1>4. r + a \in Int
  BY <1>3
<1>5. PICK t : t = Text(input'.buf, r + a, b)
  OBVIOUS
<1>6. t \in Seq(Stored) /\ Len(t) = b
  BY <1>3, <1>4, <1>5, TextSeq, ZenonT(30)
<1>7. b = 0 => t = <<>>
  BY <1>3, <1>6
<1>. QED  BY <1>2, <1>5, <1>7, ZenonT(30)

(* A step that leaves the ring alone. *)
LEMMA RingStays ==
  ASSUME RingShaped, input' = input
  PROVE  RingShaped' /\ FinishedLines' = FinishedLines /\ EditedLine' = EditedLine
BY ZenonT(30) DEF RingShaped, FinishedLines, EditedLine, Chars, Cell, Uint

(* typed() finishes the line when the ring is full. *)
LEMMA FullIs ==
  ASSUME NEW q, NEW r, NEW a, NEW b, Shape(q, r, a, b)
  PROVE  q.e = Uint(q.r + INPUT_BUF) <=> a + b = INPUT_BUF
<1>1. /\ r \in Int /\ a \in Nat /\ b \in Nat /\ a + b <= INPUT_BUF
      /\ q.r = Uint(r) /\ q.e = Uint(r + (a + b))
  BY ZenonT(30) DEF Shape
<1>2. /\ INPUT_BUF \in Int /\ r + INPUT_BUF \in Int /\ r + (a + b) \in Int
      /\ (r + INPUT_BUF) - r = INPUT_BUF /\ (r + (a + b)) - r = a + b
      /\ INPUT_BUF \in 0 .. INDICES - 1 /\ a + b \in 0 .. INDICES - 1
  BY <1>1, ConsoleConstants
<1>3. Uint(q.r + INPUT_BUF) = Uint(r + INPUT_BUF)
  BY <1>1, <1>2, UintSum, ZenonT(30)
<1>4. Uint(Uint(r + INPUT_BUF) - Uint(r)) = INPUT_BUF
  BY <1>1, <1>2, UintSpan, ZenonT(30)
<1>5. Uint(Uint(r + (a + b)) - Uint(r)) = a + b
  BY <1>1, <1>2, UintSpan, ZenonT(30)
<1>. QED  BY <1>1, <1>3, <1>4, <1>5, ZenonT(30)

(* A character that is stored is typed in the abstract console. *)
LEMMA StoreStep ==
  ASSUME RingShaped, NEW c \in Keys \cup {"nl"}, ~(Uint(input.e - input.r) >= INPUT_BUF),
         NEW q, q = WithChar(c),
         input' = IF Wakes(c, q) THEN [q EXCEPT !.w = q.e] ELSE q
  PROVE  /\ RingShaped' /\ input'.r = input.r /\ (Wakes(c, q) \/ input'.w = input.w)
         /\ Tty!Type(c)
<1>1. PICK r, a, b : Shape(input, r, a, b) /\ NoNewline(input, r, a, b)
  BY DEF RingShaped
<1>2. /\ input \in Inputs /\ r \in Int /\ a \in Nat /\ b \in Nat /\ a + b <= INPUT_BUF
      /\ input.r = Uint(r) /\ input.w = Uint(r + a)
  BY <1>1, ZenonT(30) DEF Shape
<1>3. a + b < INPUT_BUF
  <2>1. Uint(input.e - input.r) = a + b
    BY <1>1, ShapeSpans, ZenonT(30)
  <2>2. ~(a + b >= INPUT_BUF)
    BY <2>1, ZenonT(30)
  <2>. QED  BY <1>2, <2>2, ConsoleConstants
<1>4. c \in Stored
  BY ZenonT(30) DEF Stored
<1>5. /\ Shape(q, r, a, b + 1) /\ q.buf[Cell((r + a) + b)] = c
      /\ SameCells(q.buf, input.buf, r, a + b)
  BY <1>1, <1>3, <1>4, StoreShape
<1>6. q \in Inputs /\ q.buf \in Rings /\ input.buf \in Rings /\ q.r = input.r /\ q.w = input.w
  <2>1. q \in Inputs /\ q.r = Uint(r) /\ q.w = Uint(r + a)
    BY <1>5, ZenonT(30) DEF Shape
  <2>. QED  BY <1>2, <2>1, RingFields, ZenonT(30)
<1>7. /\ FinishedLines = Text(input.buf, r, a) /\ EditedLine = Text(input.buf, r + a, b)
      /\ Len(FinishedLines) = a /\ Len(EditedLine) = b
  BY <1>1, LinesBefore, ZenonT(30)
<1>8. SameCells(q.buf, input.buf, r, a) /\ SameCells(q.buf, input.buf, r + a, b)
  BY <1>2, <1>5, SameParts, ZenonT(30)
<1>9. r + a \in Int /\ a + (b + 1) = a + b + 1 /\ b + 1 \in Nat
  BY <1>2
<1>10. Text(q.buf, r, a) = FinishedLines /\ Text(q.buf, r + a, b) = EditedLine
  <2>1. SameText(q.buf, input.buf, r, a) /\ SameText(q.buf, input.buf, r + a, b)
    BY <1>2, <1>8, <1>9, TextSame, ZenonT(30)
  <2>. QED  BY <1>7, <2>1, ZenonT(30) DEF SameText
<1>11. Text(q.buf, r + a, b + 1) = Append(EditedLine, c)
  <2>1. Text(q.buf, r + a, b + 1) = Append(Text(q.buf, r + a, b), q.buf[Cell((r + a) + b)])
    BY <1>2, <1>6, <1>9, TextAppend, ZenonT(30)
  <2>. QED  BY <1>5, <1>10, <2>1, ZenonT(30)
<1>12. Wakes(c, q) <=> c \in {"nl", "^D"} \/ a + b + 1 = INPUT_BUF
  <2>1. q.e = Uint(q.r + INPUT_BUF) <=> a + (b + 1) = INPUT_BUF
    BY <1>5, FullIs
  <2>. QED  BY <1>9, <2>1, ZenonT(30) DEF Wakes
<1>13. CASE Wakes(c, q)
  <2>1. input' = [q EXCEPT !.w = q.e]
    BY <1>13, ZenonT(30)
  <2>2. Shape(input', r, a + (b + 1), 0) /\ input'.buf = q.buf
    BY <1>5, <2>1, CommitShape, ZenonT(30)
  <2>3. RingShaped'
    <3>1. \A k \in 0 .. 0 - 1 : FALSE
      OBVIOUS
    <3>2. NoNewline(input', r, a + (b + 1), 0)
      BY <3>1, ZenonT(30) DEF NoNewline
    <3>. QED  BY <2>2, <3>2, ZenonT(30) DEF RingShaped
  <2>4. FinishedLines' = Text(q.buf, r, a + (b + 1)) /\ EditedLine' = <<>>
    BY <2>2, LinesAfter, ZenonT(30)
  <2>5. Text(q.buf, r, a + (b + 1)) = FinishedLines \o Append(EditedLine, c)
    <3>1. PICK f \in Rings, n \in Nat : f = q.buf /\ n = b + 1
      BY <1>6, <1>9, ZenonT(30)
    <3>2. Text(f, r, a + n) = Text(f, r, a) \o Text(f, r + a, n)
      BY <1>2, TextConcat, ZenonT(30)
    <3>. QED  BY <1>10, <1>11, <3>1, <3>2, ZenonT(30)
  <2>6. input'.r = input.r
    BY <1>6, <2>1, ZenonT(30) DEF Inputs
  <2>7. Tty!Type(c)
    BY <1>3, <1>7, <1>12, <1>13, <2>4, <2>5, ZenonT(30) DEF Tty!Type, Tty!Commit
  <2>. QED  BY <1>13, <2>3, <2>6, <2>7
<1>14. CASE ~Wakes(c, q)
  <2>1. input' = q
    BY <1>14, ZenonT(30)
  <2>2. RingShaped'
    <3>1. c # "nl"
      BY <1>12, <1>14, ZenonT(30)
    <3>2. ASSUME NEW k \in 0 .. (b + 1) - 1
          PROVE  q.buf[Cell((r + a) + k)] # "nl"
      <4>1. k = b \/ k \in 0 .. b - 1
        BY <1>2
      <4>2. CASE k = b
        BY <1>5, <3>1, <4>2, ZenonT(30)
      <4>3. CASE k \in 0 .. b - 1
        BY <1>1, <1>8, <4>3, ZenonT(30) DEF NoNewline, SameCells
      <4>. QED  BY <4>1, <4>2, <4>3
    <3>3. NoNewline(q, r, a, b + 1)
      BY <3>2, ZenonT(30) DEF NoNewline
    <3>. QED  BY <1>5, <2>1, <3>3, ZenonT(30) DEF RingShaped
  <2>3. FinishedLines' = Text(q.buf, r, a) /\ EditedLine' = Text(q.buf, r + a, b + 1)
    <3>1. Shape(input', r, a, b + 1)
      BY <1>5, <2>1, ZenonT(30)
    <3>. QED  BY <2>1, <3>1, LinesAfter
  <2>4. Tty!Type(c)
    BY <1>3, <1>7, <1>10, <1>11, <1>12, <1>14, <2>3, ZenonT(30) DEF Tty!Type
  <2>. QED  BY <1>6, <2>1, <2>2, <2>4, ZenonT(30)
<1>. QED  BY <1>13, <1>14

(* Erasing to m characters keeps the finished lines and the first m of the   *)
(* line being edited.                                                        *)
LEMMA EraseText ==
  ASSUME NEW r, NEW a, NEW b, Shape(input, r, a, b), NoNewline(input, r, a, b), NEW m \in 0 .. b,
         input' = Kept(EndAt(input, Uint(r + (a + m))))
  PROVE  /\ RingShaped' /\ input'.r = input.r /\ input'.w = input.w
         /\ FinishedLines' = FinishedLines /\ EditedLine' = Text(input.buf, r + a, m)
         /\ (m = 0 => EditedLine' = <<>>)
<1>1. /\ input \in Inputs /\ r \in Int /\ a \in Nat /\ b \in Nat
      /\ input.r = Uint(r) /\ input.w = Uint(r + a)
  BY ZenonT(30) DEF Shape
<1>2. /\ Shape(input', r, a, m)
      /\ SameCells(input'.buf, input.buf, r, a + m)
  BY EraseShape
<1>3. input'.r = input.r /\ input'.w = input.w
  BY <1>1, <1>2, ZenonT(30) DEF Shape
<1>4. m \in Nat /\ r + a \in Int /\ \A k \in 0 .. m - 1 : k \in 0 .. b - 1
  BY <1>1
<1>5. SameCells(input'.buf, input.buf, r, a) /\ SameCells(input'.buf, input.buf, r + a, m)
  BY <1>1, <1>2, <1>4, SameParts, ZenonT(30)
<1>6. /\ Text(input'.buf, r, a) = Text(input.buf, r, a)
      /\ Text(input'.buf, r + a, m) = Text(input.buf, r + a, m)
  <2>1. SameText(input'.buf, input.buf, r, a) /\ SameText(input'.buf, input.buf, r + a, m)
    BY <1>1, <1>4, <1>5, TextSame, ZenonT(30)
  <2>. QED  BY <2>1, ZenonT(30) DEF SameText
<1>7. FinishedLines' = Text(input'.buf, r, a) /\ EditedLine' = Text(input'.buf, r + a, m)
      /\ (m = 0 => EditedLine' = <<>>)
  BY <1>2, LinesAfter
<1>8. FinishedLines = Text(input.buf, r, a)
  BY LinesBefore
<1>9. NoNewline(input', r, a, m)
  BY <1>4, <1>5, ZenonT(30) DEF NoNewline, SameCells
<1>10. RingShaped'
  BY <1>2, <1>9, ZenonT(30) DEF RingShaped
<1>. QED  BY <1>3, <1>6, <1>7, <1>8, <1>10, ZenonT(30)

(* backspace erases the last character of the line being edited, if any. *)
LEMMA BackspaceStep ==
  ASSUME RingShaped, backspace
  PROVE  /\ RingShaped' /\ input'.r = input.r /\ input'.w = input.w
         /\ Tty!Erase \/ (FinishedLines' = FinishedLines /\ EditedLine' = EditedLine)
<1>1. PICK r, a, b : Shape(input, r, a, b) /\ NoNewline(input, r, a, b)
  BY DEF RingShaped
<1>2. /\ input \in Inputs /\ r \in Int /\ a \in Nat /\ b \in Nat
      /\ input.e = Uint(r + (a + b)) /\ (input.e = input.w <=> b = 0)
  <2>1. input.e = input.w <=> b = 0
    BY <1>1, ShapeSpans, ZenonT(30)
  <2>. QED  BY <1>1, <2>1, ZenonT(30) DEF Shape
<1>3. CASE input.e = input.w
  <2>1. input' = input
    BY <1>3, ZenonT(30) DEF backspace
  <2>. QED  BY <2>1, RingStays, ZenonT(30)
<1>4. CASE input.e # input.w
  <2>1. input' = Kept(EndAt(input, Uint(input.e - 1)))
    BY <1>4, ZenonT(30) DEF backspace, EndAt
  <2>2. b \in Nat \ {0} /\ b - 1 \in 0 .. b /\ -1 \in Int /\ r + (a + b) \in Int /\ r + a \in Int
        /\ (r + (a + b)) + (-1) = r + (a + (b - 1))
    BY <1>2, <1>4
  <2>3. Uint(input.e - 1) = Uint(r + (a + (b - 1)))
    <3>1. Uint(r + (a + b)) - 1 = Uint(r + (a + b)) + (-1)
      BY <2>2, UintRange
    <3>2. Uint(Uint(r + (a + b)) + (-1)) = Uint((r + (a + b)) + (-1))
      BY <2>2, UintSum, ZenonT(30)
    <3>. QED  BY <1>2, <2>2, <3>1, <3>2, ZenonT(30)
  <2>4. input' = Kept(EndAt(input, Uint(r + (a + (b - 1)))))
    BY <2>1, <2>3, ZenonT(30)
  <2>5. /\ RingShaped' /\ input'.r = input.r /\ input'.w = input.w
        /\ FinishedLines' = FinishedLines /\ EditedLine' = Text(input.buf, r + a, b - 1)
    BY <1>1, <2>2, <2>4, EraseText
  <2>6. EditedLine = Text(input.buf, r + a, b) /\ EditedLine # <<>>
    BY <1>1, <2>2, LinesBefore
  <2>7. Text(input.buf, r + a, b - 1)
          = SubSeq(Text(input.buf, r + a, b), 1, Len(Text(input.buf, r + a, b)) - 1)
    BY <1>2, <2>2, RingFields, TextFront
  <2>8. Tty!Erase
    BY <2>5, <2>6, <2>7, ZenonT(30) DEF Tty!Erase
  <2>. QED  BY <2>5, <2>8
<1>. QED  BY <1>3, <1>4

(* Kill-line erases it all. *)
LEMMA KillLineStep ==
  ASSUME RingShaped, kill_line
  PROVE  RingShaped' /\ input'.r = input.r /\ input'.w = input.w /\ Tty!KillLine
<1>1. PICK r, a, b : Shape(input, r, a, b) /\ NoNewline(input, r, a, b)
  BY DEF RingShaped
<1>2. 0 \in 0 .. b
  <2>1. b \in Nat
    BY <1>1, ZenonT(30) DEF Shape
  <2>. QED  BY <2>1
<1>3. LineStart = Uint(r + (a + 0))
  BY <1>1, LineStartIs
<1>4. input' = Kept(EndAt(input, LineStart))
  BY ZenonT(30) DEF kill_line, EndAt
<1>5. input' = Kept(EndAt(input, Uint(r + (a + 0))))
  BY <1>3, <1>4, ZenonT(30)
<1>6. /\ RingShaped' /\ input'.r = input.r /\ input'.w = input.w
      /\ FinishedLines' = FinishedLines /\ EditedLine' = <<>>
  BY <1>1, <1>2, <1>5, EraseText
<1>. QED  BY <1>6, ZenonT(30) DEF Tty!KillLine

(* consoleread() takes the first character of the finished lines. *)
LEMMA TakeStep ==
  ASSUME RingShaped, input.r # input.w, input' = Kept(Taken(input))
  PROVE  RingShaped' /\ input'.w = input.w /\ Tty!Take
<1>1. PICK r, a, b : Shape(input, r, a, b) /\ NoNewline(input, r, a, b)
  BY DEF RingShaped
<1>2. /\ input \in Inputs /\ r \in Int /\ a \in Nat /\ b \in Nat /\ a # 0
      /\ input.w = Uint(r + a) /\ input.buf \in Rings
  BY <1>1, ShapeSpans, RingFields, ZenonT(30) DEF Shape
<1>3. PICK s \in Int, n \in Nat : s - 1 = r /\ n + 1 = a /\ s = r + 1 /\ n = a - 1 /\ s + n = r + a
  <2>1. r + 1 \in Int /\ a - 1 \in Nat /\ (r + 1) - 1 = r /\ (a - 1) + 1 = a
        /\ (r + 1) + (a - 1) = r + a
    BY <1>2
  <2>. QED  BY <2>1, ZenonT(30)
<1>4. Shape(input, s - 1, n + 1, b)
  BY <1>1, <1>3, ZenonT(30)
<1>5. Shape(input', s, n, b) /\ SameCells(input'.buf, input.buf, s, n + b)
  <2>1. Shape(Kept(Taken(input)), s, n, b) /\ SameCells(Kept(Taken(input)).buf, input.buf, s, n + b)
    BY <1>4, TakeShape, ZenonT(30)
  <2>. QED  BY <2>1, ZenonT(30)
<1>6. SameCells(input'.buf, input.buf, s, n) /\ SameCells(input'.buf, input.buf, s + n, b)
  BY <1>2, <1>5, SameParts, ZenonT(30)
<1>7. s + n \in Int
  OBVIOUS
<1>8. /\ Text(input'.buf, s, n) = Text(input.buf, s, n)
      /\ Text(input'.buf, s + n, b) = Text(input.buf, s + n, b)
  <2>1. SameText(input'.buf, input.buf, s, n) /\ SameText(input'.buf, input.buf, s + n, b)
    BY <1>2, <1>6, <1>7, TextSame, ZenonT(30)
  <2>. QED  BY <2>1, ZenonT(30) DEF SameText
<1>9. FinishedLines' = Text(input'.buf, s, n) /\ EditedLine' = Text(input'.buf, s + n, b)
  BY <1>5, LinesAfter
<1>10. FinishedLines = Text(input.buf, r, a) /\ EditedLine = Text(input.buf, r + a, b)
  BY <1>1, LinesBefore
<1>11. Text(input.buf, r + 1, a - 1) = Tail(Text(input.buf, r, a)) /\ Text(input.buf, r, a) # <<>>
  <2>1. a \in Nat \ {0}
    BY <1>2
  <2>. QED  BY <1>2, <2>1, TextTail, ZenonT(30)
<1>12. FinishedLines' = Tail(FinishedLines) /\ FinishedLines # <<>>
  BY <1>3, <1>8, <1>9, <1>10, <1>11, ZenonT(30)
<1>13. EditedLine' = EditedLine
  BY <1>3, <1>8, <1>9, <1>10, ZenonT(30)
<1>14. Tty!Take
  BY <1>12, <1>13, ZenonT(30) DEF Tty!Take
<1>15. NoNewline(input', s, n, b)
  <2>1. NoNewline(input, s, n, b)
    BY <1>1, <1>3, ZenonT(30) DEF NoNewline
  <2>. QED  BY <1>6, <2>1, ZenonT(30) DEF NoNewline, SameCells
<1>16. RingShaped'
  BY <1>5, <1>15, ZenonT(30) DEF RingShaped
<1>17. input'.w = input.w
  <2>1. input'.w = Uint(s + n)
    BY <1>5, ZenonT(30) DEF Shape
  <2>. QED  BY <1>2, <1>3, <2>1, ZenonT(30)
<1>. QED  BY <1>14, <1>16, <1>17

-----------------------------------------------------------------------------
(* The readers. *)

(* What ReadersServed says of one reader's record. *)
RecordSound(s) ==
  /\ s \in ReadRecords
  /\ Len(s.got) = s.target - s.n
  /\ \A i \in DOMAIN s.got : s.got[i] \notin {"nl", "^D"}

NoLine == input.r = input.w

(* ReadersServed, with the ring apart from the readers. *)
ServedParts ==
  /\ RingShaped /\ inputlock \in BOOLEAN /\ rd \in [TtyReaders -> ReadRecords] /\ LoopInv
  /\ \A p \in TtyReaders : RecordSound(rd[p]) /\ (rd[p].at \in {"tosleep", "asleep"} => NoLine)

(* The two say the same. *)
LEMMA ServedIs == ReadersServed <=> ServedParts
<1>1. ASSUME rd \in [TtyReaders -> ReadRecords], NEW p \in TtyReaders
      PROVE  rd[p] \in ReadRecords
  BY <1>1
<1>. QED
  BY <1>1, RingIs, ZenonT(30) DEF ReadersServed, ServedParts, ConTypeOK, RecordSound, NoLine

(* One reader moves on: it may enter the loop when nobody else is in it, and *)
(* goes to sleep only when there is no finished line.                        *)
LEMMA OneReader ==
  ASSUME ServedParts, RingShaped', inputlock' \in BOOLEAN, NEW p \in TtyReaders, NEW t, RecordSound(t),
         rd' = [rd EXCEPT ![p] = t],
         t.at \in {"loop", "tosleep"} => inputlock' /\ \A q \in TtyReaders : Busy(q) => q = p,
         t.at \in {"tosleep", "asleep"} => NoLine',
         \A q \in TtyReaders \ {p} :
           /\ Busy(q) => inputlock'
           /\ rd[q].at \in {"tosleep", "asleep"} /\ NoLine => NoLine'
  PROVE  ServedParts'
<1>1. rd \in [TtyReaders -> ReadRecords] /\ t \in ReadRecords
  BY ZenonT(30) DEF ServedParts, RecordSound
<1>2. rd'[p] = t /\ \A q \in TtyReaders \ {p} : rd'[q] = rd[q]
  BY <1>1, ZenonT(30)
<1>3. rd' \in [TtyReaders -> ReadRecords]
  BY <1>1, ZenonT(30)
<1>4. ASSUME NEW q \in TtyReaders
      PROVE  RecordSound(rd'[q]) /\ (rd'[q].at \in {"tosleep", "asleep"} => NoLine')
  <2>1. CASE q = p
    BY <1>2, <2>1, ZenonT(30)
  <2>2. CASE q # p
    <3>1. rd'[q] = rd[q]
      BY <1>2, <2>2, ZenonT(30)
    <3>. QED  BY <2>2, <3>1, ZenonT(30) DEF ServedParts
  <2>. QED  BY <2>1, <2>2
<1>5. LoopInv'
  <2>1. LoopInv
    BY ZenonT(30) DEF ServedParts
  <2>2. ASSUME NEW q \in TtyReaders, Busy(q)', NEW u \in TtyReaders, Busy(u)'
        PROVE  inputlock' /\ u = q
    <3>1. CASE q = p /\ u = p
      BY <1>2, <2>2, <3>1, ZenonT(30) DEF Busy
    <3>2. CASE q = p /\ u # p
      BY <1>2, <2>2, <3>2, ZenonT(30) DEF Busy
    <3>3. CASE q # p /\ u = p
      BY <1>2, <2>2, <3>3, ZenonT(30) DEF Busy
    <3>4. CASE q # p /\ u # p
      BY <1>2, <2>1, <2>2, <3>4, ZenonT(30) DEF Busy, LoopInv
    <3>. QED  BY <3>1, <3>2, <3>3, <3>4
  <2>. QED  BY <2>2, ZenonT(30) DEF LoopInv
<1>. QED  BY <1>3, <1>4, <1>5, ZenonT(30) DEF ServedParts, RecordSound

KilledAt(s, a) == [s EXCEPT !.at = a, !.killed = TRUE]

(* The records that a reader's steps leave: after a return, *)
LEMMA IdleSound ==
  ASSUME NEW k \in BOOLEAN
  PROVE  RecordSound([Idle EXCEPT !.killed = k]) /\ [Idle EXCEPT !.killed = k].at = "user"
<1>1. <<>> \in Seq(Stored) /\ 0 \in Nat /\ Len(<<>>) = 0 - 0 /\ DOMAIN <<>> = {}
  OBVIOUS
<1>2. PICK t : t = [Idle EXCEPT !.killed = k]
  BY ZenonT(30)
<1>3. t.at = "user" /\ t.n = 0 /\ t.target = 0 /\ t.got = <<>>
  BY <1>2, ZenonT(30) DEF Idle
<1>4. t \in ReadRecords
  BY <1>1, <1>2, ZenonT(30) DEF Idle, ReadRecords
<1>. QED  BY <1>1, <1>2, <1>3, <1>4, ZenonT(30) DEF RecordSound

(* a call that starts, *)
LEMMA StartSound ==
  ASSUME NEW n \in Nat, NEW t, t = [Idle EXCEPT !.at = "loop", !.n = n, !.target = n]
  PROVE  RecordSound(t) /\ t.at = "loop"
<1>1. <<>> \in Seq(Stored) /\ Len(<<>>) = n - n /\ DOMAIN <<>> = {}
  OBVIOUS
<1>2. t.at = "loop" /\ t.n = n /\ t.target = n /\ t.got = <<>>
  BY ZenonT(30) DEF Idle
<1>3. t \in ReadRecords
  BY <1>1, ZenonT(30) DEF Idle, ReadRecords
<1>. QED  BY <1>1, <1>2, <1>3, ZenonT(30) DEF RecordSound

(* a change of place, *)
LEMMA MoveSound ==
  ASSUME NEW s, RecordSound(s), NEW a \in {"user", "loop", "tosleep", "asleep", "woken"}
  PROVE  RecordSound([s EXCEPT !.at = a]) /\ [s EXCEPT !.at = a].at = a
<1>1. PICK t : t = [s EXCEPT !.at = a]
  BY ZenonT(30)
<1>2. t \in ReadRecords /\ t.at = a /\ t.n = s.n /\ t.target = s.target /\ t.got = s.got
  BY <1>1, ZenonT(30) DEF RecordSound, ReadRecords
<1>. QED  BY <1>1, <1>2, ZenonT(30) DEF RecordSound

(* a kill() *)
LEMMA KilledSound ==
  ASSUME NEW s, RecordSound(s), NEW a \in {"user", "loop", "tosleep", "asleep", "woken"}
  PROVE  RecordSound(KilledAt(s, a)) /\ KilledAt(s, a).at = a
<1>1. PICK t : t = KilledAt(s, a)
  BY ZenonT(30)
<1>2. t \in ReadRecords /\ t.at = a /\ t.n = s.n /\ t.target = s.target /\ t.got = s.got
  BY <1>1, ZenonT(30) DEF RecordSound, ReadRecords, KilledAt
<1>. QED  BY <1>1, <1>2, ZenonT(30) DEF RecordSound

(* and a character that is not the end of a line. *)
LEMMA GotSound ==
  ASSUME NEW s, RecordSound(s), s.n > 0, NEW c \in Stored \ {"nl", "^D"}
  PROVE  /\ RecordSound([s EXCEPT !.n = @ - 1, !.got = Append(@, c)])
         /\ [s EXCEPT !.n = @ - 1, !.got = Append(@, c)].at = s.at
<1>0. PICK t : t = [s EXCEPT !.n = @ - 1, !.got = Append(@, c)]
  BY ZenonT(30)
<1>1. s \in ReadRecords
  BY ZenonT(30) DEF RecordSound
<1>2. PICK n \in Nat, m \in Nat, g \in Seq(Stored) : n = s.n /\ m = s.target /\ g = s.got
  BY <1>1, ZenonT(30) DEF ReadRecords
<1>3. n > 0 /\ Len(g) = m - n /\ \A i \in DOMAIN g : g[i] \notin {"nl", "^D"}
  BY <1>2, ZenonT(30) DEF RecordSound
<1>4. n - 1 \in Nat /\ Append(g, c) \in Seq(Stored) /\ Len(Append(g, c)) = m - (n - 1)
  <2>1. c \in Stored
    OBVIOUS
  <2>2. Append(g, c) \in Seq(Stored) /\ Len(Append(g, c)) = Len(g) + 1
    BY <2>1
  <2>3. n - 1 \in Nat /\ Len(g) + 1 = m - (n - 1)
    BY <1>2, <1>3, SMTT(30)
  <2>. QED  BY <2>2, <2>3
<1>5. ASSUME NEW i \in DOMAIN Append(g, c)
      PROVE  Append(g, c)[i] \notin {"nl", "^D"}
  <2>1. (i \in DOMAIN g /\ Append(g, c)[i] = g[i]) \/ Append(g, c)[i] = c
    BY <1>2, <1>5
  <2>. QED  BY <1>3, <2>1, ZenonT(30)
<1>6. t = [s EXCEPT !.n = n - 1, !.got = Append(g, c)]
  BY <1>0, <1>2, ZenonT(30)
<1>7. t \in ReadRecords /\ t.at = s.at /\ t.n = n - 1 /\ t.target = m /\ t.got = Append(g, c)
  BY <1>1, <1>2, <1>4, <1>6, ZenonT(30) DEF ReadRecords
<1>. QED  BY <1>0, <1>4, <1>5, <1>7, ZenonT(30) DEF RecordSound

(* A key typed while nobody is in the loop: what finishes a line wakes every *)
(* reader that is asleep.                                                    *)
LEMMA KeySound ==
  ASSUME ServedParts, RingShaped', ~inputlock, inputlock' = inputlock, input'.r = input.r,
         rd' = wakeup_readers \/ (rd' = rd /\ input'.w = input.w)
  PROVE  ServedParts'
<1>1. rd \in [TtyReaders -> ReadRecords]
  BY ZenonT(30) DEF ServedParts
<1>2. \A p \in TtyReaders : ~Busy(p) /\ RecordSound(rd[p])
  BY ZenonT(30) DEF ServedParts, LoopInv
<1>3. CASE rd' = wakeup_readers
  <2>1. ASSUME NEW p \in TtyReaders
        PROVE  RecordSound(rd'[p]) /\ rd'[p].at \notin {"loop", "tosleep", "asleep"}
    <3>1. rd'[p] = IF rd[p].at = "asleep" THEN [rd[p] EXCEPT !.at = "woken"] ELSE rd[p]
      BY <1>3, ZenonT(30) DEF wakeup_readers
    <3>2. CASE rd[p].at = "asleep"
      <4>1. rd'[p] = [rd[p] EXCEPT !.at = "woken"]
        BY <3>1, <3>2, ZenonT(30)
      <4>2. RecordSound([rd[p] EXCEPT !.at = "woken"]) /\ [rd[p] EXCEPT !.at = "woken"].at = "woken"
        BY <1>2, MoveSound, ZenonT(30)
      <4>. QED  BY <4>1, <4>2, ZenonT(30)
    <3>3. CASE rd[p].at # "asleep"
      <4>1. rd'[p] = rd[p]
        BY <3>1, <3>3, ZenonT(30)
      <4>. QED  BY <1>2, <3>3, <4>1, ZenonT(30) DEF Busy
    <3>. QED  BY <3>2, <3>3
  <2>2. rd' \in [TtyReaders -> ReadRecords]
    <3>1. rd' = [p \in TtyReaders |-> IF rd[p].at = "asleep" THEN [rd[p] EXCEPT !.at = "woken"] ELSE rd[p]]
      BY <1>3, ZenonT(30) DEF wakeup_readers
    <3>2. \A p \in TtyReaders : rd'[p] \in ReadRecords
      BY <2>1, ZenonT(30) DEF RecordSound
    <3>. QED  BY <3>1, <3>2, ZenonT(30)
  <2>3. LoopInv'
    BY <2>1, ZenonT(30) DEF LoopInv, Busy
  <2>4. inputlock' \in BOOLEAN
    BY ZenonT(30) DEF ServedParts
  <2>. QED  BY <2>1, <2>2, <2>3, <2>4, ZenonT(30) DEF ServedParts
<1>4. CASE rd' = rd /\ input'.w = input.w
  BY <1>4, ZenonT(30) DEF ServedParts, LoopInv, Busy, NoLine
<1>. QED  BY <1>3, <1>4

(* consoleintr() and its branches, in the ring and in the abstract console. *)
LEMMA consoleintr_step ==
  ASSUME RingShaped, NEW key \in Keys, consoleintr(key)
  PROVE  /\ RingShaped' /\ ~inputlock /\ inputlock' = inputlock /\ input'.r = input.r
         /\ rd' = wakeup_readers \/ (rd' = rd /\ input'.w = input.w)
         /\ [Tty!Next]_(Tty!lvars)
<1>1. ~inputlock /\ inputlock' = inputlock
  BY ZenonT(30) DEF consoleintr
<1>2. CASE input' = input /\ rd' = rd
  <2>1. RingShaped' /\ FinishedLines' = FinishedLines /\ EditedLine' = EditedLine
    BY <1>2, RingStays, ZenonT(30)
  <2>. QED  BY <1>1, <1>2, <2>1, ZenonT(30) DEF Tty!lvars
<1>3. CASE kill_line
  <2>1. RingShaped' /\ input'.r = input.r /\ input'.w = input.w /\ Tty!KillLine
    BY <1>3, KillLineStep
  <2>2. rd' = rd
    BY <1>3, ZenonT(30) DEF kill_line
  <2>. QED  BY <1>1, <2>1, <2>2, ZenonT(30) DEF Tty!Next
<1>4. CASE backspace
  <2>1. /\ RingShaped' /\ input'.r = input.r /\ input'.w = input.w
        /\ Tty!Erase \/ (FinishedLines' = FinishedLines /\ EditedLine' = EditedLine)
    BY <1>4, BackspaceStep
  <2>2. rd' = rd
    BY <1>4, ZenonT(30) DEF backspace
  <2>. QED  BY <1>1, <2>1, <2>2, ZenonT(30) DEF Tty!Next, Tty!lvars
<1>5. CASE typed(key) /\ ~(input' = input /\ rd' = rd)
  <2>1. PICK c \in Keys \cup {"nl"} : c = IF key = "cr" THEN "nl" ELSE key
    <3>1. (IF key = "cr" THEN "nl" ELSE key) \in Keys \cup {"nl"}
      BY ZenonT(30)
    <3>. QED  BY <3>1, ZenonT(30)
  <2>2. PICK q : q = WithChar(c)
    OBVIOUS
  <2>3. /\ ~(Uint(input.e - input.r) >= INPUT_BUF)
        /\ IF Wakes(c, q) THEN input' = [q EXCEPT !.w = q.e] /\ rd' = wakeup_readers
           ELSE input' = q /\ rd' = rd
    BY <1>5, <2>1, <2>2, ZenonT(30) DEF typed
  <2>4. input' = IF Wakes(c, q) THEN [q EXCEPT !.w = q.e] ELSE q
    BY <2>3, ZenonT(30)
  <2>5. /\ RingShaped' /\ input'.r = input.r /\ (Wakes(c, q) \/ input'.w = input.w)
        /\ Tty!Type(c)
    BY <2>2, <2>3, <2>4, StoreStep
  <2>6. rd' = wakeup_readers \/ (rd' = rd /\ input'.w = input.w)
    BY <2>3, <2>5, ZenonT(30)
  <2>7. Tty!Next
    BY <2>1, <2>5, ZenonT(30) DEF Tty!Next
  <2>. QED  BY <1>1, <2>5, <2>6, <2>7
<1>6. (input' = input /\ rd' = rd) \/ kill_line \/ backspace \/ typed(key)
  BY ZenonT(30) DEF consoleintr
<1>. QED  BY <1>2, <1>3, <1>4, <1>5, <1>6

(* A call enters the loop when nobody is in it. *)
LEMMA consoleread_sound ==
  ASSUME ServedParts, NEW p \in TtyReaders, NEW n \in ReadSizes, consoleread(p, n)
  PROVE  ServedParts'
<1>1. ~inputlock /\ input' = input /\ inputlock' = (n > 0)
  BY ZenonT(30) DEF consoleread
<1>2. RingShaped'
  BY <1>1, RingStays, ZenonT(30) DEF ServedParts
<1>3. \A q \in TtyReaders : ~Busy(q)
  BY <1>1, ZenonT(30) DEF ServedParts, LoopInv
<1>4. inputlock' \in BOOLEAN
  BY <1>1
<1>5. CASE n > 0
  <2>1. PICK m \in Nat : m = n
    <3>1. n \in Nat
      BY <1>5, ConsoleConstants
    <3>. QED  BY <3>1
  <2>2. PICK t : t = [Idle EXCEPT !.at = "loop", !.n = m, !.target = m]
    OBVIOUS
  <2>3. RecordSound(t) /\ t.at = "loop"
    BY <2>2, StartSound, ZenonT(30)
  <2>4. rd' = [rd EXCEPT ![p] = t] /\ inputlock'
    BY <1>1, <1>5, <2>1, <2>2, ZenonT(30) DEF consoleread
  <2>5. \A q \in TtyReaders \ {p} : rd[q].at \in {"tosleep", "asleep"} /\ NoLine => NoLine'
    BY <1>1, ZenonT(30) DEF NoLine
  <2>6. t.at \notin {"tosleep", "asleep"}
    BY <2>3, ZenonT(30)
  <2>. QED  BY <1>2, <1>3, <1>4, <2>3, <2>4, <2>5, <2>6, OneReader, ZenonT(30)
<1>6. CASE ~(n > 0)
  <2>1. rd' = rd
    BY <1>6, ZenonT(30) DEF consoleread
  <2>2. LoopInv'
    BY <1>3, <2>1, ZenonT(30) DEF LoopInv, Busy
  <2>. QED  BY <1>1, <1>2, <1>4, <2>1, <2>2, ZenonT(30) DEF ServedParts, NoLine
<1>. QED  BY <1>5, <1>6

(* A woken reader gets input.lock back when nobody is in the loop. *)
LEMMA read_woken_sound ==
  ASSUME ServedParts, NEW p \in TtyReaders, read_woken(p)
  PROVE  ServedParts'
<1>1. ~inputlock /\ input' = input /\ inputlock' = TRUE /\ rd' = [rd EXCEPT ![p] = [rd[p] EXCEPT !.at = "loop"]]
  BY ZenonT(30) DEF read_woken
<1>2. RingShaped' /\ RecordSound(rd[p])
  BY <1>1, RingStays, ZenonT(30) DEF ServedParts
<1>3. \A q \in TtyReaders : ~Busy(q)
  BY <1>1, ZenonT(30) DEF ServedParts, LoopInv
<1>4. PICK t : t = [rd[p] EXCEPT !.at = "loop"]
  BY ZenonT(30)
<1>5. RecordSound(t) /\ t.at = "loop"
  BY <1>2, <1>4, MoveSound, ZenonT(30)
<1>6. \A q \in TtyReaders \ {p} : rd[q].at \in {"tosleep", "asleep"} /\ NoLine => NoLine'
  BY <1>1, ZenonT(30) DEF NoLine
<1>7. rd' = [rd EXCEPT ![p] = t] /\ t.at \notin {"tosleep", "asleep"} /\ inputlock' \in BOOLEAN
  BY <1>1, <1>4, <1>5, ZenonT(30)
<1>. QED  BY <1>1, <1>2, <1>3, <1>5, <1>6, <1>7, OneReader, ZenonT(30)

(* A reader that returns gives input.lock up, and nobody else was in the     *)
(* loop.                                                                     *)
LEMMA Return_sound ==
  ASSUME ServedParts, RingShaped', NEW p \in TtyReaders, Busy(p), Return(p),
         \A q \in TtyReaders \ {p} : rd[q].at \in {"tosleep", "asleep"} /\ NoLine => NoLine'
  PROVE  ServedParts'
<1>1. PICK k \in BOOLEAN : k = rd[p].killed
  BY ZenonT(30) DEF ServedParts, ReadRecords
<1>2. PICK t : t = [Idle EXCEPT !.killed = k]
  BY ZenonT(30)
<1>3. rd' = [rd EXCEPT ![p] = t] /\ inputlock' = FALSE
  BY <1>1, <1>2, ZenonT(30) DEF Return
<1>4. RecordSound(t) /\ t.at = "user"
  BY <1>2, IdleSound, ZenonT(30)
<1>5. \A q \in TtyReaders \ {p} : ~Busy(q)
  BY ZenonT(30) DEF ServedParts, LoopInv
<1>6. t.at \notin {"loop", "tosleep", "asleep"}
  BY <1>4, ZenonT(30)
<1>. QED  BY <1>3, <1>4, <1>5, <1>6, OneReader, ZenonT(30)

(* Finding no finished line. *)
LEMMA read_empty_sound ==
  ASSUME ServedParts, NEW p \in TtyReaders, read_empty(p)
  PROVE  ServedParts'
<1>1. rd[p].at = "loop" /\ NoLine /\ input' = input
  BY ZenonT(30) DEF read_empty, NoLine
<1>2. RingShaped' /\ RecordSound(rd[p]) /\ Busy(p) /\ NoLine'
  BY <1>1, RingStays, ZenonT(30) DEF ServedParts, Busy, NoLine
<1>3. CASE Return(p)
  BY <1>2, <1>3, Return_sound, ZenonT(30)
<1>4. CASE rd' = [rd EXCEPT ![p].at = "tosleep"] /\ inputlock' = inputlock
  <2>1. PICK t : t = [rd[p] EXCEPT !.at = "tosleep"]
    BY ZenonT(30)
  <2>2. RecordSound(t) /\ t.at = "tosleep"
    BY <1>2, <2>1, MoveSound, ZenonT(30)
  <2>3. rd' = [rd EXCEPT ![p] = t]
    BY <1>4, <2>1, ZenonT(30)
  <2>4. inputlock /\ inputlock \in BOOLEAN /\ \A q \in TtyReaders : Busy(q) => q = p
    BY <1>2, ZenonT(30) DEF ServedParts, LoopInv
  <2>. QED  BY <1>2, <1>4, <2>2, <2>3, <2>4, OneReader, ZenonT(30)
<1>. QED  BY <1>3, <1>4, ZenonT(30) DEF read_empty

(* sleep() gives input.lock up only now, so no line was finished since. *)
LEMMA sleep_input_sound ==
  ASSUME ServedParts, NEW p \in TtyReaders, sleep_input(p)
  PROVE  ServedParts'
<1>1. rd[p].at = "tosleep" /\ input' = input /\ inputlock' = FALSE
      /\ rd' = [rd EXCEPT ![p] = [rd[p] EXCEPT !.at = "asleep"]]
  BY ZenonT(30) DEF sleep_input
<1>2. RingShaped' /\ RecordSound(rd[p]) /\ NoLine
  BY <1>1, RingStays, ZenonT(30) DEF ServedParts
<1>3. NoLine' /\ Busy(p) /\ inputlock' \in BOOLEAN
  BY <1>1, <1>2, ZenonT(30) DEF NoLine, Busy
<1>4. PICK t : t = [rd[p] EXCEPT !.at = "asleep"]
  BY ZenonT(30)
<1>5. RecordSound(t) /\ t.at = "asleep" /\ t.at \notin {"loop", "tosleep"}
  BY <1>2, <1>4, MoveSound, ZenonT(30)
<1>6. rd' = [rd EXCEPT ![p] = t]
  BY <1>1, <1>4, ZenonT(30)
<1>7. \A q \in TtyReaders \ {p} : ~Busy(q)
  BY <1>3, ZenonT(30) DEF ServedParts, LoopInv
<1>. QED  BY <1>2, <1>3, <1>5, <1>6, <1>7, OneReader, ZenonT(30)

(* kill() changes only whether a reader is asleep. *)
LEMMA kill_reader_sound ==
  ASSUME ServedParts, NEW p \in TtyReaders, kill_reader(p)
  PROVE  ServedParts'
<1>1. input' = input /\ inputlock' = inputlock
      /\ rd' = [rd EXCEPT ![p].killed = TRUE, ![p].at = IF @ = "asleep" THEN "woken" ELSE @]
  BY ZenonT(30) DEF kill_reader
<1>2. RingShaped' /\ RecordSound(rd[p]) /\ inputlock' \in BOOLEAN
      /\ rd \in [TtyReaders -> ReadRecords]
  BY <1>1, RingStays, ZenonT(30) DEF ServedParts
<1>3. PICK a \in {"user", "loop", "tosleep", "asleep", "woken"} :
        a = IF rd[p].at = "asleep" THEN "woken" ELSE rd[p].at
  <2>1. rd[p].at \in {"user", "loop", "tosleep", "asleep", "woken"}
    BY <1>2, ZenonT(30) DEF ReadRecords
  <2>. QED  BY <2>1, ZenonT(30)
<1>4. PICK t : t = [rd[p] EXCEPT !.at = a, !.killed = TRUE]
  OBVIOUS
<1>5. RecordSound(t) /\ t.at = a
  <2>1. RecordSound(KilledAt(rd[p], a)) /\ KilledAt(rd[p], a).at = a
    BY <1>2, KilledSound, ZenonT(30)
  <2>. QED  BY <1>4, <2>1, ZenonT(30) DEF KilledAt
<1>6. rd' = [rd EXCEPT ![p] = t]
  BY <1>1, <1>2, <1>3, <1>4, ZenonT(30) DEF ReadRecords
<1>7. NoLine <=> NoLine'
  BY <1>1, ZenonT(30) DEF NoLine
<1>8. a \in {"loop", "tosleep", "asleep"} => a = rd[p].at
  BY <1>3, ZenonT(30)
<1>9. (rd[p].at \in {"tosleep", "asleep"} => NoLine) /\ LoopInv
  BY ZenonT(30) DEF ServedParts
<1>10. \A q \in TtyReaders : Busy(q) => inputlock'
  BY <1>1, <1>9, ZenonT(30) DEF LoopInv
<1>11. t.at \in {"loop", "tosleep"} => inputlock' /\ \A q \in TtyReaders : Busy(q) => q = p
  BY <1>5, <1>8, <1>9, <1>10, ZenonT(30) DEF LoopInv, Busy
<1>12. t.at \in {"tosleep", "asleep"} => NoLine'
  BY <1>5, <1>7, <1>8, <1>9, ZenonT(30)
<1>. QED  BY <1>2, <1>5, <1>6, <1>7, <1>10, <1>11, <1>12, OneReader, ZenonT(30)

(* Taking a character: there is a finished line, so nobody sleeps. *)
LEMMA read_char_sound ==
  ASSUME ServedParts, NEW p \in TtyReaders, read_char(p)
  PROVE  /\ ServedParts' /\ rd[p].at = "loop"
         /\ input' = input \/ Tty!Take
         /\ input.buf[Cell(input.r)] = "^D" /\ input' # input => ~PutBack(rd[p]) /\ Return(p)
<1>1. PICK s, c : s = rd[p] /\ c = input.buf[Cell(input.r)]
  OBVIOUS
<1>2. PICK t : t = [s EXCEPT !.n = @ - 1, !.got = Append(@, c)]
  OBVIOUS
<1>3. /\ s.at = "loop" /\ s.n > 0 /\ input.r # input.w
      /\ input' = input \/ input' = Kept(Taken(input))
      /\ c = "^D" => Return(p)
      /\ c = "^D" /\ input' # input => ~PutBack(s)
      /\ c # "^D" => Return(p) \/ (~Done(c, t) /\ rd' = [rd EXCEPT ![p] = t] /\ inputlock' = inputlock)
  BY <1>1, <1>2, ZenonT(30) DEF read_char, Taken
<1>4. RingShaped' /\ (input' = input \/ Tty!Take)
  <2>1. CASE input' = input
    BY <2>1, RingStays, ZenonT(30) DEF ServedParts
  <2>2. CASE input' = Kept(Taken(input))
    BY <1>3, <2>2, TakeStep, ZenonT(30) DEF ServedParts
  <2>. QED  BY <1>3, <2>1, <2>2
<1>5. Busy(p) /\ RecordSound(s) /\ rd[p].at = "loop" /\ ~NoLine
  BY <1>1, <1>3, ZenonT(30) DEF ServedParts, Busy, NoLine
<1>6. ServedParts'
  <2>1. CASE Return(p)
    BY <1>4, <1>5, <2>1, Return_sound, ZenonT(30)
  <2>2. CASE c # "^D" /\ ~Done(c, t) /\ rd' = [rd EXCEPT ![p] = t] /\ inputlock' = inputlock
    <3>1. c \in Stored \ {"nl", "^D"}
      <4>1. c \in Stored
        <5>1. PICK r, a, b : Shape(input, r, a, b)
          BY ZenonT(30) DEF ServedParts, RingShaped
        <5>2. input \in Inputs
          BY <5>1, ZenonT(30) DEF Shape
        <5>3. input.r \in Int /\ input.buf \in Rings
          BY <5>2, RingFields, ZenonT(30)
        <5>4. Cell(input.r) \in 0 .. INPUT_BUF - 1
          BY <5>3, UintRange, ZenonT(30)
        <5>. QED  BY <1>1, <5>3, <5>4, ZenonT(30) DEF Rings
      <4>2. c # "nl"
        BY <2>2, ZenonT(30) DEF Done
      <4>. QED  BY <2>2, <4>1, <4>2, ZenonT(30)
    <3>2. RecordSound(t) /\ t.at = s.at
      <4>1. /\ RecordSound([s EXCEPT !.n = @ - 1, !.got = Append(@, c)])
            /\ [s EXCEPT !.n = @ - 1, !.got = Append(@, c)].at = s.at
        BY <1>3, <1>5, <3>1, GotSound, ZenonT(30)
      <4>. QED  BY <1>2, <4>1, ZenonT(30)
    <3>3. inputlock' /\ inputlock' \in BOOLEAN /\ \A q \in TtyReaders : Busy(q) => q = p
      BY <1>5, <2>2, ZenonT(30) DEF ServedParts, LoopInv
    <3>4. t.at \notin {"tosleep", "asleep"}
      BY <1>3, <3>2, ZenonT(30)
    <3>. QED  BY <1>4, <1>5, <2>2, <3>2, <3>3, <3>4, OneReader, ZenonT(30)
  <2>. QED  BY <1>3, <2>1, <2>2
<1>. QED  BY <1>1, <1>3, <1>4, <1>5, <1>6, ZenonT(30)

(* An empty ring and idle readers. *)
LEMMA ConInitSound == ConInit => ServedParts
<1>. SUFFICES ASSUME ConInit PROVE ServedParts
  OBVIOUS
<1>1. /\ input = [buf |-> [i \in 0 .. INPUT_BUF - 1 |-> "none"], r |-> 0, w |-> 0, e |-> 0]
      /\ inputlock = FALSE /\ rd = [p \in TtyReaders |-> Idle]
  BY ZenonT(30) DEF ConInit
<1>2. 0 \in 0 .. INDICES - 1
  BY ConsoleConstants
<1>3. input \in Inputs /\ input.r = 0 /\ input.w = 0 /\ input.e = 0
  BY <1>1, <1>2, ZenonT(30) DEF Inputs, Stored
<1>4. Uint(0) = 0 /\ 0 - 0 = 0 /\ 0 + 0 = 0 /\ 0 <= INPUT_BUF /\ \A i \in 1 .. 0 : FALSE
  BY <1>2, UintSmall, ConsoleConstants
<1>5. RingInv
  BY <1>3, <1>4, ZenonT(30) DEF RingInv
<1>6. RingShaped
  BY <1>3, <1>5, RingIs
<1>7. RecordSound(Idle) /\ Idle.at = "user"
  <2>1. <<>> \in Seq(Stored) /\ 0 \in Nat /\ Len(<<>>) = 0 - 0 /\ DOMAIN <<>> = {}
    OBVIOUS
  <2>2. Idle.at = "user" /\ Idle.n = 0 /\ Idle.target = 0 /\ Idle.got = <<>>
    BY ZenonT(30) DEF Idle
  <2>3. Idle \in ReadRecords
    BY <2>1, ZenonT(30) DEF Idle, ReadRecords
  <2>. QED  BY <2>1, <2>2, <2>3, ZenonT(30) DEF RecordSound
<1>8. Idle \in ReadRecords
  BY <1>7, ZenonT(30) DEF RecordSound
<1>9. rd \in [TtyReaders -> ReadRecords] /\ \A p \in TtyReaders : rd[p] = Idle
  BY <1>1, <1>8, ZenonT(30)
<1>10. LoopInv
  BY <1>7, <1>9, ZenonT(30) DEF LoopInv, Busy
<1>. QED  BY <1>1, <1>6, <1>7, <1>9, <1>10, ZenonT(30) DEF ServedParts

(* What a step of the console may do: the invariant is kept, the abstract    *)
(* console takes a step or none, and r moves only when the one reader in the *)
(* loop takes a character.                                                   *)
LEMMA ConStep ==
  ASSUME ServedParts, [ConNext]_conVars
  PROVE  /\ ServedParts' /\ [Tty!Next]_(Tty!lvars)
         /\ input.r' # input.r => \E p \in TtyReaders : read_char(p)
<1>1. CASE UNCHANGED conVars
  <2>1. input' = input /\ inputlock' = inputlock /\ rd' = rd
    BY <1>1, ZenonT(30) DEF conVars
  <2>2. RingShaped' /\ FinishedLines' = FinishedLines /\ EditedLine' = EditedLine
    BY <2>1, RingStays, ZenonT(30) DEF ServedParts
  <2>3. ServedParts'
    BY <2>1, <2>2, ZenonT(30) DEF ServedParts, LoopInv, Busy, NoLine
  <2>. QED  BY <2>1, <2>2, <2>3, ZenonT(30) DEF Tty!lvars
<1>2. ASSUME NEW key \in Keys, consoleintr(key)
      PROVE  ServedParts' /\ [Tty!Next]_(Tty!lvars) /\ input'.r = input.r
  <2>1. RingShaped
    BY ZenonT(30) DEF ServedParts
  <2>2. /\ RingShaped' /\ ~inputlock /\ inputlock' = inputlock /\ input'.r = input.r
        /\ rd' = wakeup_readers \/ (rd' = rd /\ input'.w = input.w)
        /\ [Tty!Next]_(Tty!lvars)
    BY <1>2, <2>1, consoleintr_step
  <2>. QED  BY <2>2, KeySound
<1>3. ASSUME NEW p \in TtyReaders,
             \/ \E n \in ReadSizes : consoleread(p, n)
             \/ read_woken(p) \/ read_empty(p) \/ sleep_input(p) \/ kill_reader(p)
      PROVE  ServedParts' /\ [Tty!Next]_(Tty!lvars) /\ input'.r = input.r
  <2>1. input' = input
    BY <1>3, ZenonT(30)
       DEF consoleread, read_woken, read_empty, sleep_input, kill_reader
  <2>2. FinishedLines' = FinishedLines /\ EditedLine' = EditedLine
    BY <2>1, RingStays, ZenonT(30) DEF ServedParts
  <2>3. ServedParts'
    BY <1>3, consoleread_sound, read_woken_sound, read_empty_sound, sleep_input_sound,
       kill_reader_sound, ZenonT(30)
  <2>. QED  BY <2>1, <2>2, <2>3, ZenonT(30) DEF Tty!lvars
<1>4. ASSUME NEW p \in TtyReaders, read_char(p)
      PROVE  ServedParts' /\ [Tty!Next]_(Tty!lvars)
  <2>1. ServedParts' /\ (input' = input \/ Tty!Take)
    BY <1>4, read_char_sound, ZenonT(30)
  <2>2. CASE input' = input
    <3>1. FinishedLines' = FinishedLines /\ EditedLine' = EditedLine
      BY <2>2, RingStays, ZenonT(30) DEF ServedParts
    <3>. QED  BY <2>1, <3>1, ZenonT(30) DEF Tty!lvars
  <2>3. CASE Tty!Take
    BY <2>1, <2>3, ZenonT(30) DEF Tty!Next
  <2>. QED  BY <2>1, <2>2, <2>3
<1>. QED  BY <1>1, <1>2, <1>3, <1>4, ZenonT(30) DEF ConNext

(* A reader sleeps only while there is no finished line, one reader at a     *)
(* time is in the loop, a read stops at the end of a line, and the three     *)
(* wrapping indices keep their order: for any number of readers, any ring    *)
(* size that divides the word, any keys and any sizes of reads.              *)
THEOREM ReadersInvariance == ConSpec => []ReadersServed
<1>1. ConInit => ServedParts
  BY ConInitSound
<1>2. ServedParts /\ [ConNext]_conVars => ServedParts'
  BY ConStep
<1>3. ServedParts => ReadersServed
  BY ServedIs
<1>. QED  BY <1>1, <1>2, <1>3, PTL DEF ConSpec

(* The ring and its indices implement the queue of finished lines.           *)
THEOREM ConsoleRefinesLineQueue == ConSpec => ConsoleIsLineQueue
<1>1. ConInit => Tty!Init
  <2>. SUFFICES ASSUME ConInit PROVE Tty!Init
    OBVIOUS
  <2>1. input.r = 0 /\ input.w = 0 /\ input.e = 0
    BY ZenonT(30) DEF ConInit
  <2>2. Uint(0 - 0) = 0
    <3>1. 0 \in 0 .. INDICES - 1 /\ 0 - 0 = 0
      BY ConsoleConstants
    <3>. QED  BY <3>1, UintSmall, ZenonT(30)
  <2>3. FinishedLines = [k \in 1 .. 0 |-> input.buf[Cell(0 + k - 1)]]
        /\ EditedLine = [k \in 1 .. 0 |-> input.buf[Cell(0 + k - 1)]]
    BY <2>1, <2>2, ZenonT(30) DEF FinishedLines, EditedLine, Chars
  <2>4. \A f : [k \in 1 .. 0 |-> f[Cell(0 + k - 1)]] = <<>>
    OBVIOUS
  <2>. QED  BY <2>3, <2>4, ZenonT(30) DEF Tty!Init
<1>2. ConInit => ServedParts
  BY ConInitSound
<1>3. ServedParts /\ [ConNext]_conVars => ServedParts' /\ [Tty!Next]_(Tty!lvars)
  BY ConStep
<1>. QED  BY <1>1, <1>2, <1>3, PTL DEF ConSpec, ConsoleIsLineQueue, Tty!Spec

(* What EofReturnsZero says of one step. *)
EofStep ==
  \A p \in TtyReaders :
    /\ rd[p].at = "loop" /\ input.r # input.w
    /\ input.buf[Cell(input.r)] = "^D" /\ input.r' # input.r
    => rd'[p].at = "user" /\ rd[p].got = <<>>

(* End of file leaves the ring only with a read that returns 0 bytes: the    *)
(* reader that takes it has read nothing, since it would have put it back.   *)
THEOREM EofInvariance == ConSpec => EofReturnsZero
<1>1. ConInit => ServedParts
  BY ConInitSound
<1>2. ServedParts /\ [ConNext]_conVars => ServedParts'
  BY ConStep
<1>3. ServedParts /\ [ConNext]_conVars => EofStep
  <2>. SUFFICES ASSUME ServedParts, [ConNext]_conVars, NEW p \in TtyReaders, rd[p].at = "loop",
                       input.buf[Cell(input.r)] = "^D", input.r' # input.r
                PROVE  rd'[p].at = "user" /\ rd[p].got = <<>>
    BY ZenonT(30) DEF EofStep
  <2>1. PICK q \in TtyReaders : read_char(q)
    BY ConStep
  <2>2. rd[q].at = "loop" /\ ~PutBack(rd[q]) /\ Return(q)
    BY <2>1, read_char_sound, ZenonT(30)
  <2>3. q = p
    BY <2>2, ZenonT(30) DEF ServedParts, LoopInv, Busy
  <2>4. rd \in [TtyReaders -> ReadRecords] /\ RecordSound(rd[p])
    BY ZenonT(30) DEF ServedParts
  <2>5. PICK n \in Nat, m \in Nat, g \in Seq(Stored) :
          n = rd[p].n /\ m = rd[p].target /\ g = rd[p].got
    BY <2>4, ZenonT(30) DEF ReadRecords
  <2>6. Len(g) = m - n /\ ~(n < m)
    BY <2>2, <2>3, <2>4, <2>5, ZenonT(30) DEF RecordSound, PutBack
  <2>7. g = <<>>
    BY <2>5, <2>6
  <2>8. rd'[p].at = "user"
    BY <2>2, <2>3, <2>4, ZenonT(30) DEF Return, Idle
  <2>. QED  BY <2>5, <2>7, <2>8, ZenonT(30)
<1>. QED  BY <1>1, <1>2, <1>3, PTL DEF ConSpec, EofReturnsZero, EofStep

-----------------------------------------------------------------------------
(* The spin locks, counted. *)

INSTANCE FiniteSetTheorems

(* Locks are finitely many. *)
LEMMA LocksCounted == Counting
<1>1. ASSUME NEW S \in SUBSET Locks PROVE IsFiniteSet(S)
  <2>1. S \subseteq Locks
    OBVIOUS
  <2>. QED  BY <2>1, LocksAssumption, FS_Subset, ZenonT(60)
<1>2. ASSUME NEW S \in SUBSET Locks
      PROVE  Cardinality(S) \in Nat /\ (Cardinality(S) = 0 <=> S = {})
  BY <1>1, FS_CardinalityType, FS_EmptySet, ZenonT(60)
<1>3. ASSUME NEW S \in SUBSET Locks, NEW l \in Locks \ S
      PROVE  Cardinality(S \cup {l}) = Cardinality(S) + 1
  <2>1. l \notin S
    OBVIOUS
  <2>. QED  BY <1>1, <2>1, FS_AddElement, ZenonT(60)
<1>4. ASSUME NEW S \in SUBSET Locks, NEW l \in S
      PROVE  Cardinality(S \ {l}) = Cardinality(S) - 1
  <2>1. IsFiniteSet(S)
    BY <1>1, ZenonT(60)
  <2>. QED  BY <2>1, FS_RemoveElement, ZenonT(60)
<1>5. Cardinality({}) = 0
  BY FS_EmptySet, ZenonT(60)
<1>. QED  BY <1>2, <1>3, <1>4, <1>5, ZenonT(60) DEF Counting

(* For any number of CPUs and locks, acquire(), release() and interrupts     *)
(* keep the invariant in which lk->locked, lk->cpu, cpu->ncli and            *)
(* cpu->intena agree with who has which lock.                                *)
THEOREM SpinInvariance == SpinSpec => []SpinInv
<1>1. SpinInit => Core
  BY LocksCounted, InitCore
<1>2. Core /\ [SpinNext]_spinVars => Core'
  BY LocksCounted, SpinStep
<1>3. Core => SpinInv
  BY LocksCounted, CoreIsSafe
<1>. QED  BY <1>1, <1>2, <1>3, PTL DEF SpinSpec

(* Two CPUs never have one lock, holding() is exact, no interrupt comes      *)
(* while a lock is held, the interrupt flag is restored, and no assertion of *)
(* spinlock.c fails.                                                         *)
THEOREM SpinLocksSafe == SpinSpec => []LocksSafe
<1>1. SpinInv => LocksSafe
  BY DEF SpinInv
<1>. QED  BY <1>1, SpinInvariance, PTL
==============================================================================
