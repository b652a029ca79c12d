--------------------------- MODULE LogCallProofs ----------------------------
(***************************************************************************)
(* The initial state and the steps that change the calls in progress, a    *)
(* crash included, preserve the inductive invariant of the log, and every  *)
(* step is one of AtomicDisk or invisible to it.                           *)
(***************************************************************************)
EXTENDS LogStepProofs

USE ConstantsAssumption

(* Counting the subsets of U. *)
Counts(U) ==
  \A S \in SUBSET U : /\ Cardinality(S) \in Nat
                      /\ Cardinality(S) = 0 <=> S = {}
                      /\ \A x \in U \ S : Cardinality(S \cup {x}) = Cardinality(S) + 1
                      /\ \A x \in S : Cardinality(S \ {x}) = Cardinality(S) - 1
                      /\ \A R \in SUBSET S : Cardinality(R) <= Cardinality(S)

(* The number of calls in progress. *)
LEMMA InOpCounts ==
  ASSUME Counts(Procs)
  PROVE  Cardinality(InOp) \in Nat /\ (Cardinality(InOp) = 0 <=> InOp = {})
  <1>1. InOp \in SUBSET Procs
    BY DEF InOp
  <1> QED
    BY ONLY Counts(Procs), <1>1 DEF Counts

(* No calls, no reservations. *)
LEMMA NoneCounts ==
  ASSUME Counts(Procs)
  PROVE  Cardinality({}) = 0
  BY ONLY Counts(Procs) DEF Counts

(* mkfs.c leaves a state of the invariant. *)
LEMMA InitInv ==
  ASSUME Counts(Procs), Init
  PROVE  IndInv
  <1> USE DEF Init
  <1>1. InOp = {}
    BY DEF InOp
  <1>2. Cardinality(InOp) = 0
    BY <1>1, NoneCounts
  <1>4. TypeOK
    <2>1. PICK zero \in Values : logblk = [i \in 1 .. NLOG - 1 |-> zero]
      OBVIOUS
    <2>2. logblk \in [1 .. NLOG - 1 -> Values]
      BY <2>1
    <2>3. /\ disk \in [Blocks -> Values] /\ cache \in [Blocks -> Values]
          /\ loghead \in Seq(Blocks) /\ lh \in Seq(Blocks) /\ dirty \subseteq Blocks
      OBVIOUS
    <2>4. /\ pc \in [Procs -> PCs]
          /\ buf \in [Procs -> Blocks \cup {NoBlock}]
          /\ written \in [Procs -> SUBSET Blocks]
      BY DEF PCs
    <2>5. /\ outstanding \in Nat /\ phase \in Phases /\ tail \in Nat
          /\ crashes \in 0 .. MaxCrashes
      BY SMT DEF Phases
    <2>6. committing \in BOOLEAN
      BY Zenon
    <2> QED
      BY <2>2, <2>3, <2>4, <2>5, <2>6, Zenon DEF TypeOK
  <1>5. ControlInv
    BY <1>1, <1>2 DEF ControlInv, Booting
  <1>6. BufInv
    BY DEF BufInv
  <1>8. HeadInv
    BY DEF HeadInv
  <1>9. DataInv
    BY DEF DataInv, Booting, Range
  <1> QED
    BY <1>4, <1>5, <1>6, <1>8, <1>9 DEF IndInv

(* begin_op() reserves blocks for a call. *)
LEMMA begin_opInv ==
  ASSUME NEW p \in Procs, Counts(Procs), IndInv, begin_op(p)
  PROVE  IndInv'
  <1> USE DEF begin_op, diskVars
  <1>1. /\ InOp' = InOp \cup {p} 
        /\ p \notin InOp
        /\ ~committing
        /\ ~Booting /\ ~Booting'
        /\ phase = "none"
    BY SMTT(30) DEF IndInv, TypeOK, PCs, InOp, ControlInv, Booting, MustWait
  <1>2. Cardinality(InOp') = Cardinality(InOp) + 1
    <2>1. InOp \in SUBSET Procs /\ p \in Procs \ InOp
      BY ONLY <1>1, p \in Procs DEF InOp
    <2> QED
      BY ONLY Counts(Procs), <2>1, <1>1 DEF Counts
  <1>4. TypeOK'
    BY DEF IndInv, TypeOK, PCs
  <1>5. ControlInv'
    BY SMTT(60), <1>1, <1>2 DEF IndInv, TypeOK, PCs, ControlInv, MustWait, Booting
  <1>6. BufInv'
    BY DEF IndInv, TypeOK, PCs, BufInv
  <1>8. HeadInv'
    BY DEF IndInv, HeadInv
  <1>9. DataInv'
    BY <1>1 DEF IndInv, DataInv
  <1> QED
    BY <1>4, <1>5, <1>6, <1>8, <1>9 DEF IndInv

(* log_write() tests the log: it goes on, or panics because the log is full. *)
LEMMA log_write_checkInv ==
  ASSUME NEW p \in Procs, NEW b \in Blocks, NEW v \in Values, Counts(Procs), IndInv,
         log_write_check(p, b, v)
  PROVE  IndInv'
  <1> USE DEF log_write_check, diskVars, logVars
  <1>1. p \in InOp /\ ~Booting /\ phase = "none" /\ ~committing
    BY SMTT(30) DEF IndInv, TypeOK, PCs, InOp, ControlInv, Booting
  <1>3. outstanding >= 1
    <2>1. Cardinality(InOp) \in Nat /\ Cardinality(InOp) # 0
      BY <1>1, InOpCounts
    <2> QED
      BY <2>1 DEF IndInv, ControlInv
  <1>4. /\ pc' = [pc EXCEPT ![p] = IF Fits(Len(lh)) THEN "log" ELSE "panic"]
        /\ UNCHANGED lh
    BY <1>3
  <1>5. InOp' = InOp /\ ~Booting'
    BY <1>1, <1>4 DEF IndInv, TypeOK, PCs, InOp, Booting
  <1>7. TypeOK'
    BY <1>4 DEF IndInv, TypeOK, PCs
  <1>8. ControlInv'
    BY <1>1, <1>4, <1>5 DEF IndInv, TypeOK, PCs, ControlInv, Booting
  <1>9. b # NoBlock
    BY DEF Blocks, NoBlock
  <1>10. BufInv'
    BY <1>4, <1>9 DEF IndInv, TypeOK, PCs, BufInv
  <1>12. HeadInv'
    BY DEF IndInv, HeadInv
  <1>13. DataInv'
    <2>1. ASSUME NEW c \in Blocks \ dirty, \A q \in Procs : buf'[q] # c
          PROVE  cache'[c] = disk'[c]
      <3>1. c # b /\ \A q \in Procs : buf[q] # c
        <4>1. buf'[p] = b /\ \A q \in Procs \ {p} : buf'[q] = buf[q]
          BY DEF IndInv, TypeOK
        <4>2. buf[p] = NoBlock /\ c # NoBlock
          BY DEF IndInv, BufInv, Blocks, NoBlock
        <4> QED
          BY <2>1, <4>1, <4>2
      <3> QED
        BY <3>1 DEF IndInv, TypeOK, DataInv
    <2>2. dirty' = Range(lh')
      BY <1>1 DEF IndInv, DataInv
    <2> QED
      BY <1>1, <1>5, <2>1, <2>2 DEF DataInv
  <1> QED
    BY <1>7, <1>8, <1>10, <1>12, <1>13 DEF IndInv

(* initlog() reads the header. *)
LEMMA read_headInv ==
  ASSUME IndInv, read_head
  PROVE  IndInv'
  <1> USE DEF read_head, diskVars
  <1>1. /\ Booting /\ InOp = {} /\ \A p \in Procs : buf[p] = NoBlock
    BY DEF IndInv, ControlInv, InOp, Booting, BufInv
  <1>2. ControlInv' /\ BufInv' /\ InOp' = InOp /\ Booting' = Booting
    BY SameProcs
  <1>3. TypeOK'
    BY DEF IndInv, TypeOK, Phases, procVars
  <1>5. HeadInv'
    BY DEF IndInv, TypeOK, HeadInv
  <1>6. DataInv'
    <2>1. lh' = <<>> => 1 .. Len(lh') = {}
      OBVIOUS
    <2>2. tail' = 0 /\ 1 .. tail' = {}
      BY DEF IndInv, HeadInv
    <2> QED
      BY <2>1, <2>2, <1>1, <1>2 DEF IndInv, DataInv, procVars
  <1> QED
    BY <1>2, <1>3, <1>5, <1>6 DEF IndInv

(* The power fails. *)
LEMMA CrashInv ==
  ASSUME Counts(Procs), IndInv, Crash
  PROVE  IndInv'
  <1> USE DEF Crash, diskVars
  <1>1. InOp' = {} /\ Booting'
    BY DEF InOp, Booting
  <1>2. Cardinality(InOp') = 0
    BY <1>1, NoneCounts
  <1>4. TypeOK'
    <2>1. committing' \in BOOLEAN
      BY Zenon
    <2>2. /\ lh' \in Seq(Blocks) /\ outstanding' \in Nat /\ phase' \in Phases
          /\ tail' \in Nat /\ dirty' \subseteq Blocks
      BY SMT DEF Phases
    <2>3. crashes' \in 0 .. MaxCrashes
      BY SMT DEF IndInv, TypeOK
    <2>4. /\ pc' \in [Procs -> PCs]
          /\ buf' \in [Procs -> Blocks \cup {NoBlock}]
          /\ written' \in [Procs -> SUBSET Blocks]
      BY DEF PCs
    <2>5. /\ disk' \in [Blocks -> Values] /\ loghead' \in Seq(Blocks)
          /\ logblk' \in [1 .. NLOG - 1 -> Values] /\ cache' \in [Blocks -> Values]
      BY DEF IndInv, TypeOK
    <2> QED
      BY <2>1, <2>2, <2>3, <2>4, <2>5, Zenon DEF TypeOK
  <1>5. ControlInv'
    BY <1>1, <1>2 DEF ControlInv, Booting
  <1>6. BufInv'
    BY DEF BufInv
  <1>8. HeadInv'
    BY DEF IndInv, HeadInv
  <1>9. DataInv'
    BY <1>1 DEF DataInv
  <1> QED
    BY <1>4, <1>5, <1>6, <1>8, <1>9 DEF IndInv

-----------------------------------------------------------------------------
(* log_write() and end_op(). *)

(* Appending a block that is not in a sequence of distinct blocks. *)
LEMMA AppendNew ==
  ASSUME NEW s \in Seq(Blocks), NEW b \in Blocks, b \notin Range(s),
         \A i, j \in DOMAIN s : s[i] = s[j] => i = j
  PROVE  /\ Append(s, b) \in Seq(Blocks)
         /\ Len(Append(s, b)) = Len(s) + 1
         /\ Range(Append(s, b)) = Range(s) \cup {b}
         /\ \A i, j \in DOMAIN Append(s, b) :
              Append(s, b)[i] = Append(s, b)[j] => i = j
  <1> DEFINE t == Append(s, b)
  <1>1. /\ t \in Seq(Blocks) /\ Len(t) = Len(s) + 1 /\ Len(s) \in Nat
        /\ DOMAIN t = 1 .. Len(s) + 1 /\ DOMAIN s = 1 .. Len(s)
        /\ \A i \in 1 .. Len(s) : t[i] = s[i]
        /\ t[Len(s) + 1] = b
    OBVIOUS
  <1> HIDE DEF t
  <1>2. Range(t) = Range(s) \cup {b}
    BY <1>1 DEF Range
  <1>3. \A i, j \in DOMAIN t : t[i] = t[j] => i = j
    BY <1>1 DEF Range
  <1> QED
    BY <1>1, <1>2, <1>3 DEF t

(* log_write() puts a block into the log, or finds it there. *)
LEMMA log_writeInv ==
  ASSUME NEW p \in Procs, IndInv, log_write(p)
  PROVE  IndInv'
  <1> USE DEF log_write, diskVars
  <1> DEFINE b == buf[p]
  <1>1. b \in Blocks
    BY DEF IndInv, TypeOK, BufInv
  <1>2. /\ p \in InOp /\ InOp' = InOp
        /\ ~Booting /\ ~Booting' /\ phase = "none" /\ ~committing
    BY SMTT(30) DEF IndInv, TypeOK, PCs, InOp, ControlInv, Booting
  <1>3. /\ lh' \in Seq(Blocks)
        /\ Range(lh') = Range(lh) \cup {b}
        /\ \A i, j \in DOMAIN lh' : lh'[i] = lh'[j] => i = j
        /\ Len(lh') = IF b \in Range(lh) THEN Len(lh) ELSE Len(lh) + 1
    <2>1. lh \in Seq(Blocks) /\ \A i, j \in DOMAIN lh : lh[i] = lh[j] => i = j
      BY DEF IndInv, TypeOK, HeadInv
    <2>2. CASE b \in Range(lh)
      BY <2>1, <2>2
    <2>3. CASE b \notin Range(lh)
      <3>1. lh' = Append(lh, b)
        BY <2>3
      <3> HIDE DEF b
      <3> QED
        BY ONLY <3>1, <2>1, <2>3, <1>1, AppendNew
    <2> QED
      BY <2>2, <2>3
  <1>4. ~Fits(Len(lh)) => ~Fits(Len(lh'))
    BY <1>3 DEF Fits, IndInv, TypeOK
  <1>8. TypeOK'
    BY <1>1, <1>3 DEF IndInv, TypeOK, PCs
  <1>9. ControlInv'
    BY <1>2, <1>4 DEF IndInv, TypeOK, PCs, ControlInv, Booting
  <1>10. BufInv'
    BY SMTT(60) DEF IndInv, TypeOK, BufInv
  <1>12. HeadInv'
    BY <1>2, <1>3 DEF IndInv, HeadInv
  <1>13. DataInv'
    <2>1. dirty' = Range(lh')
      BY SMTT(60), <1>2, <1>3 DEF IndInv, DataInv
    <2>2. ASSUME NEW c \in Blocks \ dirty', \A q \in Procs : buf'[q] # c
          PROVE  cache'[c] = disk'[c]
      <3>1. c # b /\ c \notin dirty
        BY <2>2
      <3>2. \A q \in Procs : buf[q] # c
        BY <2>2, <3>1 DEF IndInv, TypeOK
      <3> QED
        BY <3>1, <3>2, <2>2 DEF IndInv, DataInv
    <2> QED
      BY SMTT(60), <1>2, <2>1, <2>2 DEF DataInv
  <1> QED
    BY <1>8, <1>9, <1>10, <1>12, <1>13 DEF IndInv

(* end_op() ends a call. *)
LEMMA end_opInv ==
  ASSUME NEW p \in Procs, Counts(Procs), IndInv, end_op(p)
  PROVE  IndInv'
  <1> USE DEF end_op, diskVars
  <1>1. p \in InOp /\ ~committing /\ ~Booting /\ phase = "none"
    BY SMTT(30) DEF IndInv, TypeOK, PCs, InOp, ControlInv, Booting
  <1>2. /\ \A q \in Procs : pc'[q] = "commit" <=> outstanding = 1 /\ q = p
        /\ \A q \in Procs : pc'[q] # "boot"
        /\ \A q \in Procs : pc'[q] = "panic" <=> pc[q] = "panic"
        /\ \A q \in Procs : pc'[q] = "log" <=> pc[q] = "log"
        /\ \A q \in Procs : pc'[q] = "op" <=> pc[q] = "op" /\ q # p
        /\ pc' \in [Procs -> PCs]
    BY ZenonT(60), <1>1 DEF IndInv, TypeOK, PCs, ControlInv, Wakeup, Booting
  <1>3. InOp' = InOp \ {p} /\ ~Booting'
    BY <1>1, <1>2 DEF InOp, IndInv, Booting
  <1>4. /\ outstanding \in Nat
        /\ Cardinality(InOp') = outstanding - 1
        /\ Cardinality(InOp') \in Nat
        /\ InOp' = {} <=> outstanding = 1
    <2>1. outstanding = Cardinality(InOp)
      BY DEF IndInv, ControlInv
    <2>2. InOp \in SUBSET Procs /\ InOp' \in SUBSET Procs
      BY ONLY DEF InOp
    <2>3. /\ Cardinality(InOp) \in Nat /\ Cardinality(InOp') \in Nat
          /\ Cardinality(InOp \ {p}) = Cardinality(InOp) - 1
          /\ Cardinality(InOp') = 0 <=> InOp' = {}
      BY ONLY Counts(Procs), <2>2, <1>1 DEF Counts
    <2> QED
      BY ONLY <2>1, <2>3, <1>3
  <1>7. /\ committing' <=> outstanding = 1
        /\ phase' = IF outstanding = 1
                     THEN IF lh = <<>> THEN "finish" ELSE "write_log"
                     ELSE "none"
    BY <1>1 DEF IndInv, TypeOK
  <1>8. committing' \in BOOLEAN
    BY Zenon DEF IndInv, TypeOK
  <1>9. TypeOK'
    BY SMTT(60), <1>2, <1>4, <1>7, <1>8 DEF IndInv, TypeOK, Phases
  <1>10. ControlInv'
    BY <1>1, <1>2, <1>3, <1>4, <1>7 DEF IndInv, ControlInv, Booting
  <1>11. BufInv'
    BY SMTT(60), <1>2 DEF IndInv, BufInv
  <1>13. HeadInv'
    BY SMTT(60), <1>1, <1>7 DEF IndInv, TypeOK, HeadInv
  <1>14. DataInv'
    BY <1>1, <1>3, <1>7 DEF IndInv, TypeOK, HeadInv, DataInv, Range
  <1> QED
    BY <1>9, <1>10, <1>11, <1>13, <1>14 DEF IndInv

(* No step of the log leaves the invariant. *)
LEMMA NextInv ==
  ASSUME Counts(Procs), IndInv, WithinLog, [Next]_vars
  PROVE  IndInv'
  <1>1. ASSUME UNCHANGED vars PROVE IndInv'
    <2> USE <1>1 DEF vars
    <2>1. TypeOK'
      BY DEF IndInv, TypeOK
    <2>2. InOp' = InOp /\ Booting' = Booting
      BY DEF InOp, Booting
    <2>3. ControlInv' /\ BufInv'
      BY ONLY IndInv, UNCHANGED vars, <2>2 DEF vars, IndInv, ControlInv, BufInv
    <2>4. HeadInv'
      BY ONLY IndInv, UNCHANGED vars, <2>2 DEF vars, IndInv, HeadInv
    <2>5. DataInv'
      BY ONLY IndInv, UNCHANGED vars, <2>2 DEF vars, IndInv, DataInv
    <2> QED
      BY <2>1, <2>3, <2>4, <2>5 DEF IndInv
  <1>2. ASSUME NEW p \in Procs, ProcStep(p) PROVE IndInv'
    BY <1>2, begin_opInv, begin_op_sleepInv, log_write_checkInv, log_writeInv,
       end_opInv, end_op_finishInv DEF ProcStep
  <1>3. ASSUME CommitStep PROVE IndInv'
    BY <1>3, write_logInv, write_headInv, install_transInv, eraseInv,
       read_headInv, initlog_doneInv DEF CommitStep
  <1>4. ASSUME NEW b \in Blocks, bget_recycle(b) PROVE IndInv'
    BY <1>4, <1>1, RecycleInvisible
  <1>5. ASSUME Crash PROVE IndInv'
    BY <1>5, CrashInv
  <1> QED
    BY <1>1, <1>2, <1>3, <1>4, <1>5 DEF Next

-----------------------------------------------------------------------------
(* Every step of log.c is a step of AtomicDisk or leaves it unchanged. *)

(* What recovery would find depends on the disk alone. *)
LEMMA RecoveredSame ==
  ASSUME UNCHANGED diskVars
  PROVE  Recovered' = Recovered
  BY DEF Recovered, diskVars

(* With an empty header on disk, recovery leaves the home blocks alone. *)
LEMMA RecoveredHome ==
  ASSUME loghead = <<>>, disk \in [Blocks -> Values]
  PROVE  Recovered = disk
  <1>1. Recovered = [b \in Blocks |-> disk[b]]
    BY DEF Recovered, Range
  <1> QED
    BY <1>1

(* What the log block of a committed block holds is what recovery installs. *)
LEMMA RecoveredLogged ==
  ASSUME NEW i \in DOMAIN loghead, loghead[i] \in Blocks,
         \A j, k \in DOMAIN loghead : loghead[j] = loghead[k] => j = k
  PROVE  Recovered[loghead[i]] = logblk[i]
  <1> DEFINE b == loghead[i]
             k == CHOOSE j \in DOMAIN loghead : loghead[j] = b
  <1>1. k \in DOMAIN loghead /\ loghead[k] = b
    OBVIOUS
  <1>2. k = i
    BY <1>1
  <1>3. b \in Range(loghead)
    BY DEF Range
  <1>4. Recovered[b] = logblk[k]
    BY <1>3 DEF Recovered
  <1> QED
    BY <1>2, <1>4

(* The step of AtomicDisk that a step of the log takes. *)
LEMMA StepSimulation ==
  ASSUME IndInv, WithinLog, IndInv', Next
  PROVE  AD!Next \/ UNCHANGED AD!avars
  <1> DEFINE current == IF Booting THEN Recovered ELSE cache
  <1>0. /\ disk \in [Blocks -> Values] /\ cache \in [Blocks -> Values]
        /\ disk' \in [Blocks -> Values] /\ cache' \in [Blocks -> Values]
    BY DEF IndInv, TypeOK
  <1>a. /\ pc \in [Procs -> PCs]
        /\ Booting \/ \A p \in Procs : pc[p] # "boot"
        /\ committing => InOp = {}
    BY DEF IndInv, TypeOK, ControlInv
  <1>1. ASSUME NEW p \in Procs, begin_op(p) PROVE AD!Begin(p)
    <2>1. InOp' = InOp \cup {p} /\ p \notin InOp /\ ~Booting /\ ~Booting'
      BY ONLY p \in Procs, <1>a, <1>1 DEF begin_op, PCs, InOp, Booting
    <2> QED
      BY <1>1, <2>1, RecoveredSame DEF AD!Begin, begin_op
  <1>2. ASSUME NEW p \in Procs, begin_op_sleep(p) PROVE UNCHANGED AD!avars
    <2>1. InOp' = InOp /\ ~Booting /\ ~Booting'
      BY ONLY p \in Procs, <1>a, <1>2 DEF begin_op_sleep, PCs, InOp, Booting
    <2> QED
      BY <1>2, <2>1, RecoveredSame DEF AD!avars, begin_op_sleep
  <1>3. ASSUME NEW p \in Procs, NEW b \in Blocks, NEW v \in Values,
               log_write_check(p, b, v)
        PROVE  AD!Write(p, b, v)
    <2>1. InOp' = InOp /\ p \in InOp /\ ~Booting /\ ~Booting'
      BY ONLY p \in Procs, <1>a, <1>3 DEF log_write_check, PCs, InOp, Booting
    <2> QED
      BY <1>3, <2>1, RecoveredSame DEF AD!Write, log_write_check
  <1>4. ASSUME NEW p \in Procs, log_write(p) PROVE UNCHANGED AD!avars
    <2>1. InOp' = InOp /\ ~Booting /\ ~Booting'
      BY ONLY p \in Procs, <1>a, <1>4 DEF log_write, PCs, InOp, Booting
    <2> QED
      BY <1>4, <2>1, RecoveredSame DEF AD!avars, log_write
  <1>5. ASSUME NEW p \in Procs, end_op(p) PROVE AD!End(p)
    <2>1. p \in InOp /\ ~committing /\ ~Booting
      BY ONLY p \in Procs, <1>a, <1>5 DEF end_op, PCs, InOp, Booting
    <2>2. InOp' = InOp \ {p} /\ ~Booting'
      BY ONLY p \in Procs, <1>a, <1>5, <2>1 DEF end_op, PCs, InOp, Booting, Wakeup, NoPanic
    <2> QED
      BY <1>5, <2>1, <2>2, RecoveredSame DEF AD!End, end_op
  <1>6. ASSUME NEW p \in Procs, end_op_finish(p) PROVE UNCHANGED AD!avars
    <2>1. InOp' = InOp /\ ~Booting /\ ~Booting'
      BY ONLY p \in Procs, <1>a, <1>6 DEF end_op_finish, PCs, InOp, Booting, Wakeup, NoPanic
    <2> QED
      BY <1>6, <2>1, RecoveredSame DEF AD!avars, end_op_finish
  <1>7. ASSUME write_log PROVE UNCHANGED AD!avars
    <2>1. tail + 1 < NLOG
      BY <1>7, CommitFacts DEF write_log, IndInv, HeadInv, TypeOK
    <2>2. /\ UNCHANGED <<disk, cache, loghead>> /\ loghead = <<>>
          /\ InOp' = InOp /\ Booting' = Booting
      BY <1>7, <2>1 DEF write_log, PutLogBlock, IndInv, HeadInv, InOp, Booting,
                        procVars
    <2>3. Recovered' = Recovered
      BY <2>2, <1>0, RecoveredHome DEF Recovered, Range
    <2> QED
      BY <2>2, <2>3 DEF AD!avars
  <1>8. ASSUME write_head PROVE AD!Commit
    <2>1. InOp = {} /\ ~Booting /\ \A p \in Procs : buf[p] = NoBlock
      BY <1>8, CommitFacts DEF write_head, IndInv, ControlInv
    <2>2. ~Booting' /\ InOp' = InOp /\ cache' = cache /\ logblk' = logblk /\ disk' = disk
      BY <1>8, <2>1 DEF write_head, InOp, Booting, procVars
    <2>3. loghead' = lh /\ DOMAIN lh = 1 .. Len(lh) /\ lh \in Seq(Blocks)
      BY <1>8, CommitFacts DEF write_head, IndInv, TypeOK
    <2>4. ASSUME NEW b \in Blocks PROVE Recovered'[b] = cache[b]
      <3>1. CASE b \in Range(lh)
        <4>1. PICK i \in 1 .. Len(lh) : lh[i] = b
          BY <3>1, <2>3 DEF Range
        <4>2. logblk[i] = cache[b]
          BY <4>1, <1>8 DEF write_head, IndInv, DataInv
        <4> DEFINE k == CHOOSE j \in DOMAIN lh : lh[j] = b
        <4>3. k \in DOMAIN lh /\ lh[k] = b
          BY <4>1, <2>3
        <4>4. k = i
          BY <4>1, <4>3, <2>3 DEF IndInv, HeadInv
        <4>5. Recovered'[b] = logblk[k]
          BY <3>1, <2>2, <2>3 DEF Recovered
        <4> QED
          BY ZenonT(60), <4>2, <4>4, <4>5
      <3>2. CASE b \notin Range(lh)
        <4>1. b \notin dirty
          BY <3>2, <1>8 DEF write_head, IndInv, DataInv
        <4>2. cache[b] = disk[b]
          BY <4>1, <2>1 DEF IndInv, DataInv, Blocks, NoBlock
        <4>3. Recovered'[b] = disk[b]
          BY <3>2, <2>2, <2>3 DEF Recovered
        <4> QED
          BY <4>2, <4>3
      <3> QED
        BY <3>1, <3>2
    <2>5. Recovered' = cache
      <3>1. Recovered' = [b \in Blocks |-> Recovered'[b]]
        BY DEF Recovered
      <3> QED
        BY <3>1, <2>4, <1>0
    <2> QED
      BY <2>1, <2>2, <2>5 DEF AD!Commit
  <1>9. ASSUME install_trans PROVE UNCHANGED AD!avars
    <2> DEFINE b == lh[tail + 1]
    <2>1. /\ lh = loghead /\ tail + 1 \in DOMAIN lh /\ b \in Blocks
          /\ tail + 1 < NLOG /\ tail + 1 \in 1 .. Len(lh)
      BY SMTT(60), <1>9, CommitFacts DEF install_trans, IndInv, HeadInv, TypeOK
    <2>2. /\ InOp' = InOp /\ Booting' = Booting
          /\ UNCHANGED <<loghead, logblk>>
          /\ \A c \in Blocks : c # b => disk'[c] = disk[c]
      BY <1>9 DEF install_trans, InOp, Booting, procVars, IndInv, TypeOK
    <2>3. b \in Range(loghead)
      BY <2>1 DEF Range
    <2>4. Recovered' = Recovered
      BY <2>2, <2>3 DEF Recovered
    <2>5. ~Booting => cache' = cache
      <3>1. ~Booting => logblk[tail + 1] = cache[b]
        BY <1>9, <2>1 DEF install_trans, IndInv, DataInv
      <3>2. cache' = [cache EXCEPT ![b] = logblk[tail + 1]]
        BY <1>9, <2>1 DEF install_trans, LogBlock
      <3> QED
        BY ONLY <3>1, <3>2, <1>0
    <2> QED
      BY <2>2, <2>4, <2>5 DEF AD!avars
  <1>10. ASSUME erase PROVE UNCHANGED AD!avars
    <2>1. /\ loghead = lh /\ loghead' = <<>> /\ UNCHANGED <<disk, logblk, cache>>
          /\ InOp' = InOp /\ Booting' = Booting
      BY <1>10 DEF erase, IndInv, HeadInv, InOp, Booting, procVars
    <2>2. Recovered' = disk
      BY <2>1, <1>0 DEF Recovered, Range
    <2>3. ASSUME NEW b \in Blocks PROVE Recovered[b] = disk[b]
      <3>1. CASE b \in Range(loghead)
        <4>1. PICK i \in DOMAIN loghead : loghead[i] = b
          BY <3>1 DEF Range
        <4>2. Recovered[b] = logblk[i]
          BY <4>1, RecoveredLogged DEF IndInv, HeadInv
        <4>3. i \in 1 .. Len(lh)
          BY <4>1, <2>1 DEF IndInv, TypeOK
        <4> QED
          BY <4>1, <4>2, <4>3, <2>1, <1>10 DEF erase, IndInv, DataInv
      <3>2. CASE b \notin Range(loghead)
        BY <3>2 DEF Recovered
      <3> QED
        BY ONLY <3>1, <3>2
    <2>4. Recovered = disk
      <3>1. Recovered = [b \in Blocks |-> Recovered[b]]
        BY DEF Recovered
      <3> QED
        BY <3>1, <2>3, <1>0
    <2> QED
      BY <2>1, <2>2, <2>4 DEF AD!avars
  <1>11. ASSUME read_head PROVE UNCHANGED AD!avars
    BY <1>11, RecoveredSame DEF AD!avars, read_head, InOp, Booting, procVars
  <1>12. ASSUME initlog_done PROVE UNCHANGED AD!avars
    <2>1. Booting /\ ~Booting' /\ InOp' = InOp
      BY ONLY ConstantsAssumption, <1>12 DEF initlog_done, Booting, InOp
    <2>2. loghead = <<>> /\ cache = disk
      BY <1>12, <2>1 DEF initlog_done, IndInv, HeadInv, DataInv
    <2>3. Recovered = cache
      BY <2>2, <1>0, RecoveredHome
    <2> QED
      BY <1>12, <2>1, <2>3, RecoveredSame DEF AD!avars, initlog_done
  <1>13. ASSUME NEW b \in Blocks, bget_recycle(b) PROVE UNCHANGED AD!avars
    <2>1. UNCHANGED vars
      BY <1>13, RecycleInvisible
    <2> QED
      BY <2>1, RecoveredSame DEF AD!avars, vars, diskVars, InOp, Booting
  <1>14. ASSUME Crash PROVE AD!Crash
    <2>1. Booting' /\ InOp' = {} /\ Recovered' = Recovered
      BY <1>14, RecoveredSame DEF Crash, Booting, InOp
    <2> QED
      BY <2>1 DEF AD!Crash
  <1> QED
    BY <1>1, <1>2, <1>3, <1>4, <1>5, <1>6, <1>7, <1>8, <1>9, <1>10, <1>11,
       <1>12, <1>13, <1>14
       DEF Next, ProcStep, CommitStep, AD!Next

(* Home blocks are written by install_trans() only. *)
LEMMA HomeWriteStep ==
  ASSUME IndInv, WithinLog, [Next]_vars
  PROVE  \A b \in Blocks : disk'[b] # disk[b] => b \in Range(loghead)
  <1>1. CASE disk' = disk
    BY <1>1
  <1>2. CASE install_trans
    <2>1. lh = loghead /\ tail + 1 \in DOMAIN lh
      BY <1>2, CommitFacts DEF install_trans, IndInv, HeadInv, TypeOK
    <2>2. \A b \in Blocks : disk'[b] # disk[b] => b = lh[tail + 1]
      BY <1>2 DEF install_trans, IndInv, TypeOK
    <2> QED
      BY <2>1, <2>2 DEF Range
  <1>3. CASE write_log
    <2>1. tail + 1 < NLOG
      BY <1>3, CommitFacts DEF write_log, IndInv, HeadInv, TypeOK
    <2> QED
      BY <1>1, <1>3, <2>1 DEF write_log, PutLogBlock
  <1>4. disk' = disk \/ install_trans \/ write_log
    BY ZenonT(60) DEF Next, ProcStep, CommitStep, begin_op, begin_op_sleep,
       log_write_check, log_write, end_op, end_op_finish, write_head, erase,
       read_head, initlog_done, bget_recycle, Crash, vars, diskVars
  <1> QED
    BY <1>1, <1>2, <1>3, <1>4

(* end_op() returns from a commit when all is home. *)
LEMMA ReturnStep ==
  ASSUME IndInv, [Next]_vars
  PROVE  \A p \in Procs : pc[p] = "commit" /\ pc'[p] = "idle"
                         => Recovered = cache /\ dirty = {}
  <1> SUFFICES ASSUME NEW p \in Procs, pc[p] = "commit", pc'[p] = "idle"
               PROVE  Recovered = cache /\ dirty = {}
    OBVIOUS
  <1>1. phase = "finish"
    BY ZenonT(60) DEF Next, ProcStep, CommitStep, begin_op, begin_op_sleep,
       log_write_check, log_write, end_op, end_op_finish, write_log,
       write_head, install_trans, erase, read_head, initlog_done,
       bget_recycle, Crash, vars, procVars, Wakeup, IndInv, TypeOK
  <1>2. dirty = {} /\ loghead = <<>> /\ ~Booting
    BY ZenonT(60), <1>1 DEF IndInv, HeadInv, DataInv, Booting
  <1>3. \A q \in Procs : buf[q] = NoBlock
    BY DEF IndInv, ControlInv, BufInv, InOp
  <1>4. \A b \in Blocks : cache[b] = disk[b]
    BY <1>2, <1>3 DEF IndInv, DataInv, Blocks, NoBlock
  <1>5. Recovered = [b \in Blocks |-> disk[b]]
    BY <1>2 DEF Recovered, Range
  <1>6. cache = [b \in Blocks |-> cache[b]]
    BY DEF IndInv, TypeOK
  <1> QED
    BY <1>2, <1>4, <1>5, <1>6
=============================================================================
