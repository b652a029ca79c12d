-------------------------------- MODULE Clock --------------------------------
(***************************************************************************)
(* The clock: the timer interrupt (trap.c), sys_sleep() (sysproc.c) and    *)
(* the way sleep() (proc.c) trades tickslock for ptable.lock.  ticks is an *)
(* unsigned integer that wraps.                                            *)
(***************************************************************************)
EXTENDS Integers

CONSTANTS
  Sleepers,    \* the processes that call sys_sleep()
  TICKS,       \* the values of an unsigned integer (2^32)
  SleepTimes,  \* the values of n
  MaxLate,     \* ticks that pass at most before a woken process runs
  Nobody, Timer  \* who holds a lock, besides a process

ASSUME ClockConstants ==
  /\ TICKS \in Nat \ {0} /\ SleepTimes \subseteq {i \in Int : i < TICKS}
  /\ Nobody # Timer /\ Nobody \notin Sleepers /\ Timer \notin Sleepers

Wrap(i) == i % TICKS

VARIABLES
  ticks,
  tickslock, ptlock,   \* the holders of tickslock and ptable.lock
  slp,                 \* each process in sys_sleep()
  elapsed              \* how many ticks have really passed since ticks0

clockVars == <<ticks, tickslock, ptlock, slp, elapsed>>

NoSleep == [at |-> "user", n |-> 0, ticks0 |-> 0, killed |-> FALSE, late |-> 0]

ClockInit ==
  /\ ticks = 0
  /\ tickslock = Nobody /\ ptlock = Nobody
  /\ slp = [p \in Sleepers |-> NoSleep]
  /\ elapsed = [p \in Sleepers |-> 0]

Returned(p) == slp[p].at \in {"slept", "cut short"}

Sleeping(p) == slp[p].at # "user" /\ ~Returned(p)

(* ticks - ticks0 < n, in unsigned arithmetic. *)
TooSoon(s) == Wrap(ticks - s.ticks0) < Wrap(s.n)

(* One round of the loop of sys_sleep(): return 0 or -1, or sleep(). *)
Round(s) == IF ~TooSoon(s) THEN "slept" ELSE IF s.killed THEN "cut short" ELSE "tosleep"

Looping(p, s) ==
  /\ tickslock = Nobody
  /\ slp' = [slp EXCEPT ![p] = IF Round(s) = "tosleep" THEN [s EXCEPT !.at = "tosleep", !.late = 0]
                              ELSE [NoSleep EXCEPT !.at = Round(s), !.n = s.n]]
  /\ tickslock' = IF Round(s) = "tosleep" THEN p ELSE Nobody

sys_sleep(p, n) ==
  /\ slp[p].at = "user"
  /\ Looping(p, [slp[p] EXCEPT !.n = n, !.ticks0 = ticks])
  /\ elapsed' = [elapsed EXCEPT ![p] = 0]
  /\ UNCHANGED <<ticks, ptlock>>

sleep_again(p) ==
  /\ slp[p].at = "woken"
  /\ Looping(p, slp[p])
  /\ UNCHANGED <<ticks, ptlock, elapsed>>

(* Faulty variant: tickslock is released before ptable.lock is taken. *)
sleep_locks_swapped(p) ==
  /\ slp[p].at = "tosleep"
  /\ slp' = [slp EXCEPT ![p].at = "unlocked"]
  /\ tickslock' = Nobody
  /\ UNCHANGED <<ticks, ptlock, elapsed>>

(* sleep(): take ptable.lock, and only then let go of tickslock. *)
sleep_locks(p) ==
  /\ slp[p].at = "tosleep" /\ ptlock = Nobody
  /\ slp' = [slp EXCEPT ![p].at = "unlocked"]
  /\ tickslock' = Nobody /\ ptlock' = p
  /\ UNCHANGED <<ticks, elapsed>>

(* The state becomes SLEEPING; the scheduler releases ptable.lock. *)
sleep_sched(p) ==
  /\ slp[p].at = "unlocked"
  /\ slp' = [slp EXCEPT ![p].at = "asleep"]
  /\ ptlock' = Nobody
  /\ UNCHANGED <<ticks, tickslock, elapsed>>

Prompt == \A p \in Sleepers : slp[p].at = "woken" => slp[p].late < MaxLate

(* The timer interrupt of CPU 0: ticks++ under tickslock. *)
timer_tick ==
  /\ tickslock = Nobody /\ Prompt
  /\ tickslock' = Timer
  /\ ticks' = Wrap(ticks + 1)
  /\ elapsed' = [p \in Sleepers |->
                   IF Sleeping(p) /\ elapsed[p] < TICKS THEN elapsed[p] + 1 ELSE elapsed[p]]
  /\ slp' = [p \in Sleepers |->
               IF slp[p].at = "woken" THEN [slp[p] EXCEPT !.late = @ + 1] ELSE slp[p]]
  /\ UNCHANGED ptlock

(* Faulty variant: tickslock is released and nobody woken. *)
timer_wakeup_none ==
  /\ tickslock = Timer /\ ptlock = Nobody
  /\ tickslock' = Nobody
  /\ UNCHANGED <<ticks, ptlock, slp, elapsed>>

(* wakeup(&ticks), and the release of tickslock. *)
timer_wakeup ==
  /\ tickslock = Timer /\ ptlock = Nobody
  /\ tickslock' = Nobody
  /\ slp' = [p \in Sleepers |->
               IF slp[p].at = "asleep" THEN [slp[p] EXCEPT !.at = "woken"] ELSE slp[p]]
  /\ UNCHANGED <<ticks, ptlock, elapsed>>

(* kill(): wakes the process only if it is SLEEPING already. *)
kill_sleeper(p) ==
  /\ ptlock = Nobody
  /\ ~slp[p].killed /\ ~Returned(p)
  /\ slp' = [slp EXCEPT ![p].killed = TRUE,
                        ![p].at = IF @ = "asleep" THEN "woken" ELSE @]
  /\ UNCHANGED <<ticks, tickslock, ptlock, elapsed>>

SleeperRuns(p) == sleep_again(p) \/ sleep_locks(p) \/ sleep_sched(p)

TimerRuns == timer_tick \/ timer_wakeup

ClockNext ==
  \/ TimerRuns
  \/ \E p \in Sleepers :
       SleeperRuns(p) \/ kill_sleeper(p) \/ \E n \in SleepTimes : sys_sleep(p, n)

(* The timer keeps interrupting, and the scheduler's round robin reaches     *)
(* every runnable process.                                                   *)
ClockFairness == WF_clockVars(TimerRuns) /\ \A p \in Sleepers : WF_clockVars(SleeperRuns(p))

ClockSpec == ClockInit /\ [][ClockNext]_clockVars /\ ClockFairness

-----------------------------------------------------------------------------
(* sys_sleep(n) returns 0 only when n ticks have passed, also when ticks     *)
(* wraps in between.                                                         *)
SleepsLongEnough == \A p \in Sleepers : slp[p].at = "slept" => elapsed[p] >= slp[p].n

(* A process is asleep only if it tested the present value of ticks, or the  *)
(* interrupt that changed it has yet to call wakeup().                       *)
NoMissedTick ==
  \A p \in Sleepers : slp[p].at = "asleep" => TooSoon(slp[p]) \/ tickslock = Timer

SleepRecords ==
  [at : {"user", "tosleep", "unlocked", "asleep", "woken", "slept", "cut short"},
   n : SleepTimes \cup {0}, ticks0 : 0 .. TICKS - 1, killed : BOOLEAN, late : Nat]

ClockTypeOK ==
  /\ ticks \in 0 .. TICKS - 1 /\ elapsed \in [Sleepers -> 0 .. TICKS]
  /\ slp \in [Sleepers -> SleepRecords]

(* The difference of ticks that sys_sleep() tests never runs ahead of time,  *)
(* and one of the two locks keeps wakeup() away from a process that has      *)
(* tested it and not yet slept.                                              *)
SleeperInv(p) ==
  /\ Sleeping(p) => elapsed[p] >= Wrap(ticks - slp[p].ticks0)
  /\ slp[p].at = "tosleep" => tickslock = p
  /\ slp[p].at = "unlocked" => ptlock = p
  /\ slp[p].at \in {"tosleep", "unlocked"} => TooSoon(slp[p]) \/ tickslock = Timer

(* sys_sleep() neither returns before its time nor sleeps through it. *)
SleepsAsAsked ==
  ClockTypeOK /\ (\A p \in Sleepers : SleeperInv(p)) /\ SleepsLongEnough /\ NoMissedTick

(* It is time for p to return: it has been killed, or n is not so large that *)
(* a process that runs late can miss the ticks between n and the wrap.       *)
Due(p) == Sleeping(p) /\ (slp[p].killed \/ slp[p].n + MaxLate < TICKS)

(* Every sys_sleep(n) returns, and a killed process leaves it whatever n is, *)
(* even if kill() came after the test of proc->killed and before the process *)
(* slept: the next tick wakes it.  (A process calls sys_sleep() once.)       *)
SleepReturns == <>[](\A p \in Sleepers : ~Due(p))
==============================================================================
