----------------------------- MODULE LogProofs ------------------------------
(***************************************************************************)
(* Proofs about the log for every number of processes, blocks and crashes, *)
(* every size of the log and any file system calls: what holds as long as  *)
(* the entries of log.lh stay within the log, and what file system calls   *)
(* must respect for that and for log_write() not to panic.                 *)
(***************************************************************************)
EXTENDS LogCallProofs

USE ConstantsAssumption

-----------------------------------------------------------------------------
(* The room in the log. *)

(* What the proofs need of cardinalities: how processes, blocks and the      *)
(* pairs of Reserved are counted.                                            *)
Counting(n) ==
  /\ Counts(Procs) /\ Counts(Blocks) /\ Counts(Procs \X (1 .. n))
  /\ \A S \in SUBSET Procs : Cardinality(S \X (1 .. n)) = Cardinality(S) * n

(* No call reserves more than n blocks. *)
LEMMA ReservedCounts ==
  ASSUME NEW n \in Nat, Counting(n)
  PROVE  /\ Cardinality(Reserved(n)) \in Nat
         /\ Cardinality(Reserved(n)) <= Cardinality(InOp) * n
  <1>1. InOp \in SUBSET Procs
    BY DEF InOp
  <1>2. InOp \X (1 .. n) \in SUBSET (Procs \X (1 .. n))
    BY ONLY <1>1
  <1>3. Reserved(n) \in SUBSET (InOp \X (1 .. n))
    BY ONLY DEF Reserved
  <1>4. Cardinality(InOp \X (1 .. n)) = Cardinality(InOp) * n
    BY ONLY Counting(n), <1>1 DEF Counting
  <1> QED
    BY ONLY Counting(n), <1>2, <1>3, <1>4 DEF Counting, Counts

(* What leaves room for j blocks leaves room for fewer. *)
LEMMA FitsLess ==
  ASSUME NEW i \in Int, NEW j \in Int, i <= j, Fits(j)
  PROVE  Fits(i)
  BY ConstantsAssumption DEF Fits

(* A log whose calls keep within their reservations is within its bounds. *)
LEMMA SpaceFits ==
  ASSUME NEW n \in Nat, Counting(n), lh \in Seq(Blocks), SpaceInv(n)
  PROVE  LogFits /\ WithinLog
  <1> DEFINE r == Cardinality(Reserved(n))
  <1>1. r \in Nat /\ Len(lh) \in Nat
    BY ReservedCounts
  <1>2. Fits(Len(lh) + r)
    BY DEF SpaceInv
  <1> HIDE DEF r
  <1>3. Fits(Len(lh))
    BY <1>1, <1>2, FitsLess
  <1> QED
    BY <1>1, <1>3 DEF LogFits, WithinLog, Fits

(* With no call in progress nothing is reserved. *)
LEMMA NoCallsSpace ==
  ASSUME NEW n \in Nat, Counting(n)
  PROVE  InOp = {} /\ NoPanic /\ lh \in Seq(Blocks) /\ Fits(Len(lh)) /\ Fits(Len(loghead))
           => SpaceInv(n)
  <1>1. InOp = {} => Cardinality(Reserved(n)) = 0
    BY NoneCounts DEF Counting, Reserved
  <1> QED
    BY <1>1 DEF SpaceInv

(* A step that starts no call and logs nothing keeps the room there is. *)
LEMMA SameCallsSpace ==
  ASSUME NEW n \in Nat, Counting(n), SpaceInv(n), lh \in Seq(Blocks),
         InOp' \subseteq InOp, UNCHANGED <<lh, written>>, NoPanic',
         Fits(Len(loghead'))
  PROVE  SpaceInv(n)'
  <1>1. Reserved(n)' \in SUBSET Reserved(n)
    BY DEF Reserved
  <1>2. Reserved(n) \in SUBSET (Procs \X (1 .. n))
    BY ONLY DEF Reserved, InOp
  <1>3. /\ Cardinality(Reserved(n)') \in Nat /\ Cardinality(Reserved(n)) \in Nat
        /\ Cardinality(Reserved(n)') <= Cardinality(Reserved(n))
    <2>1. Reserved(n)' \in SUBSET (Procs \X (1 .. n))
      BY ONLY <1>1, <1>2
    <2> QED
      BY ONLY Counting(n), <1>1, <1>2, <2>1 DEF Counting, Counts
  <1>4. Fits(Len(lh') + Cardinality(Reserved(n)'))
    <2> DEFINE i == Len(lh') + Cardinality(Reserved(n)')
               j == Len(lh) + Cardinality(Reserved(n))
    <2>1. i \in Int /\ j \in Int /\ i <= j
      BY <1>3
    <2>2. Fits(j)
      BY DEF SpaceInv
    <2> HIDE DEF i, j
    <2>3. Fits(i)
      BY <2>1, <2>2, FitsLess
    <2> QED
      BY <2>3 DEF i
  <1> QED
    BY <1>4 DEF SpaceInv

(* k reservations of m blocks leave k calls of o <= m blocks a margin. *)
LEMMA ReserveArith ==
  ASSUME NEW n \in Nat, NEW k \in Nat, k >= 2, NEW m \in Nat, NEW o \in Nat,
         o <= m, NEW L \in Nat, n + k * m <= L
  PROVE  n + k * o + 2 * m <= L + 2 * o
  <1> DEFINE d == m - o
  <1>1. d \in Nat /\ m = o + d
    OBVIOUS
  <1> HIDE DEF d
  <1>2. k * m = k * o + k * d
    BY <1>1
  <1>3. k * d >= 2 * d
    BY <1>1
  <1>4. k * o \in Nat /\ k * d \in Nat
    BY <1>1
  <1> QED
    BY <1>1, <1>2, <1>3, <1>4

(* begin_op() admits a call only if the log has room for its blocks. *)
LEMMA begin_opSpace ==
  ASSUME NEW n \in Nat, Capacity(n), Counting(n), IndInv, SpaceInv(n),
         NEW p \in Procs, begin_op(p)
  PROVE  SpaceInv(n)'
  <1> USE DEF begin_op, diskVars
  <1>1. InOp' = InOp \cup {p} /\ p \notin InOp /\ ~committing /\ ~Booting
    BY SMTT(30) DEF IndInv, TypeOK, PCs, InOp, ControlInv, Booting, MustWait
  <1>2. /\ Cardinality(InOp) \in Nat /\ Cardinality(InOp') \in Nat
        /\ Cardinality(InOp') = Cardinality(InOp) + 1
    <2>1. InOp \in SUBSET Procs /\ p \in Procs \ InOp
      BY ONLY <1>1, p \in Procs DEF InOp
    <2> QED
      BY ONLY Counting(n), <2>1, <1>1 DEF Counting, Counts
  <1>3. /\ Cardinality(Reserved(n)') \in Nat
        /\ Cardinality(Reserved(n)') <= Cardinality(InOp') * n
    <2>1. InOp' \in SUBSET Procs
      BY ONLY DEF InOp
    <2>2. InOp' \X (1 .. n) \in SUBSET (Procs \X (1 .. n))
      BY ONLY <2>1
    <2>3. Reserved(n)' \in SUBSET (InOp' \X (1 .. n))
      BY ONLY DEF Reserved
    <2>4. Cardinality(InOp' \X (1 .. n)) = Cardinality(InOp') * n
      BY ONLY Counting(n), <2>1 DEF Counting
    <2> QED
      BY ONLY Counting(n), <2>2, <2>3, <2>4 DEF Counting, Counts
  <1>4. Len(lh) \in Nat /\ outstanding = Cardinality(InOp) /\ outstanding \in Nat
    BY DEF IndInv, TypeOK, ControlInv
  <1> DEFINE r == Cardinality(InOp') * n
  <1>5. r \in Nat /\ r = (outstanding + 1) * n
    BY <1>2, <1>4
  <1> HIDE DEF r
  <1>6. Fits(Len(lh) + r)
    <2>1. CASE outstanding = 0
      <3>1. InOp = {}
        BY <2>1, <1>4, InOpCounts DEF Counting
      <3>2. lh = <<>>
        BY <3>1, <1>1 DEF IndInv, ControlInv
      <3>3. Len(lh) = 0 /\ r = n
        BY <2>1, <3>2, <1>5
      <3> QED
        BY <3>3 DEF Capacity, Fits
    <2>2. CASE outstanding >= 1
      <3> DEFINE k == outstanding + 1
      <3>0. Len(lh) + k * MAXOPBLOCKS <= LOGSIZE
        BY <1>4 DEF MustWait
      <3>1. k \in Nat /\ k >= 2 /\ Len(lh) + k * MAXOPBLOCKS <= LOGSIZE /\ r = k * n
        BY ONLY <1>4, <1>5, <2>2, <3>0
      <3>2. n <= MAXOPBLOCKS
        BY DEF Capacity
      <3> HIDE DEF k
      <3>a. MAXOPBLOCKS \in Nat /\ LOGSIZE \in Nat
        OBVIOUS
      <3>3. Len(lh) + k * n + 2 * MAXOPBLOCKS <= LOGSIZE + 2 * n
        BY ONLY ZenonT(60), <3>a, n \in Nat, <3>1, <3>2, <1>4, ReserveArith
      <3>4. r \in Nat /\ Len(lh) \in Nat /\ Len(lh) + r + 2 * MAXOPBLOCKS <= LOGSIZE + 2 * n
        BY ONLY <3>1, <3>3, <1>4, <1>5
      <3> QED
        BY ONLY ConstantsAssumption, Capacity(n), n \in Nat, <3>4
           DEF Capacity, Fits
    <2> QED
      BY <2>1, <2>2, <1>4
  <1>7. Fits(Len(lh') + Cardinality(Reserved(n)'))
    <2> DEFINE i == Len(lh') + Cardinality(Reserved(n)')
               j == Len(lh) + r
    <2>1. i \in Int /\ j \in Int /\ i <= j
      <3>1. lh' = lh /\ Cardinality(Reserved(n)') <= r
        BY <1>3 DEF r
      <3> QED
        BY ONLY <3>1, <1>3, <1>4, <1>5
    <2> HIDE DEF i, j
    <2>2. Fits(j)
      BY <1>6 DEF j
    <2>3. Fits(i)
      BY <2>1, <2>2, FitsLess
    <2> QED
      BY <2>3 DEF i
  <1>8. \A q \in InOp' : written'[q] \subseteq Range(lh')
    BY <1>1 DEF IndInv, TypeOK, SpaceInv, InOp
  <1>9. NoPanic'
    BY DEF IndInv, TypeOK, SpaceInv, NoPanic
  <1> QED
    BY <1>7, <1>8, <1>9 DEF SpaceInv

(* log_write() passes its test. *)
LEMMA log_write_checkSpace ==
  ASSUME NEW n \in Nat, Counting(n), IndInv, SpaceInv(n),
         NEW p \in Procs, NEW b \in Blocks, NEW v \in Values, log_write_check(p, b, v)
  PROVE  SpaceInv(n)'
  <1> USE DEF log_write_check, diskVars, logVars
  <1>1. Fits(Len(lh)) /\ lh \in Seq(Blocks)
    BY SpaceFits DEF LogFits, IndInv, TypeOK
  <1>2. outstanding >= 1
    <2>1. p \in InOp
      BY DEF InOp
    <2> QED
      BY <2>1, InOpCounts DEF IndInv, ControlInv, Counting
  <1>3. pc' = [pc EXCEPT ![p] = "log"]
    BY <1>1, <1>2
  <1>4. InOp' = InOp /\ NoPanic'
    BY <1>3 DEF IndInv, TypeOK, InOp, SpaceInv, NoPanic
  <1>5. UNCHANGED <<lh, written, loghead>>
    OBVIOUS
  <1>6. InOp' \subseteq InOp /\ Fits(Len(loghead'))
    BY <1>4, <1>5 DEF SpaceInv
  <1> QED
    BY <1>1, <1>4, <1>5, <1>6, SameCallsSpace

(* log_write() uses up one of the blocks reserved, or none. *)
LEMMA log_writeSpace ==
  ASSUME NEW n \in Nat, Counting(n), IndInv, SpaceInv(n), Modest(n),
         NEW p \in Procs, log_write(p)
  PROVE  SpaceInv(n)'
  <1> USE DEF log_write, diskVars
  <1> DEFINE b == buf[p]
             w == written[p]
  <1>1. b \in Blocks /\ b # NoBlock
    BY DEF IndInv, TypeOK, BufInv
  <1>2. p \in InOp /\ InOp' = InOp /\ lh \in Seq(Blocks)
    BY DEF IndInv, TypeOK, PCs, InOp
  <1>3. /\ lh' \in Seq(Blocks)
        /\ Range(lh') = Range(lh) \cup {b}
        /\ Len(lh) \in Nat
        /\ Len(lh') = IF b \in Range(lh) THEN Len(lh) ELSE Len(lh) + 1
    <2>1. lh \in Seq(Blocks) /\ \A i, j \in DOMAIN lh : lh[i] = lh[j] => i = j
      BY DEF IndInv, TypeOK, HeadInv
    <2>2. CASE b \in Range(lh)
      BY <2>1, <2>2
    <2>3. CASE b \notin Range(lh)
      <3>1. lh' = Append(lh, b)
        BY <2>3
      <3> HIDE DEF b
      <3> QED
        BY ONLY <3>1, <2>1, <2>3, <1>1, AppendNew
    <2> QED
      BY <2>2, <2>3
  <1>4. /\ written'[p] = w \cup {b}
        /\ \A q \in Procs \ {p} : written'[q] = written[q]
        /\ w \in SUBSET Blocks
    BY DEF IndInv, TypeOK
  <1>5. w \subseteq Range(lh) /\ Cardinality(w \cup {b}) <= n
    <2>1. Logged(p) = w \cup {b}
      BY <1>1 DEF Logged
    <2> QED
      BY ZenonT(60), <1>2, <2>1 DEF SpaceInv, Modest
  <1>6. /\ Cardinality(w) \in Nat
        /\ b \notin w => Cardinality(w \cup {b}) = Cardinality(w) + 1
    <2> HIDE DEF w, b
    <2>1. w \in SUBSET Blocks /\ b \in Blocks
      BY ONLY <1>1, <1>4
    <2> QED
      BY ONLY Counting(n), <2>1 DEF Counting, Counts
  <1>7. /\ Cardinality(Reserved(n)') \in Nat /\ Cardinality(Reserved(n)) \in Nat
        /\ Len(lh') + Cardinality(Reserved(n)') <= Len(lh) + Cardinality(Reserved(n))
    <2>1. CASE b \in w
      <3>1. written' = written
        BY <2>1 DEF IndInv, TypeOK
      <3>2. Reserved(n)' = Reserved(n)
        BY Zenon, <3>1, <1>2 DEF Reserved
      <3> QED
        BY <2>1, <3>2, <1>3, <1>5, ReservedCounts
    <2>2. CASE b \notin w
      <3> DEFINE e == <<p, Cardinality(w) + 1>>
      <3>1. e \in Reserved(n)
        BY <2>2, <1>2, <1>5, <1>6 DEF Reserved
      <3>2. Reserved(n)' = Reserved(n) \ {e}
        <4>1. \A q \in InOp, m \in 1 .. n :
                m > Cardinality(written'[q])
                  <=> m > Cardinality(written[q]) /\ <<q, m>> # e
          <5> TAKE q \in InOp, m \in 1 .. n
          <5>1. CASE q = p
            <6>1. <<q, m>> # e <=> m # Cardinality(w) + 1
              BY <5>1
            <6>2. Cardinality(written'[q]) = Cardinality(w) + 1
              BY ZenonT(60), <5>1, <2>2, <1>4, <1>6
            <6> QED
              BY <5>1, <6>1, <6>2, <1>6
          <5>2. CASE q # p
            BY <5>2, <1>4 DEF InOp
          <5> QED
            BY <5>1, <5>2
        <4>2. ASSUME NEW s \in InOp \X (1 .. n)
              PROVE  s \in Reserved(n)' <=> s \in Reserved(n) /\ s # e
          <5>1. PICK q \in InOp, m \in 1 .. n : s = <<q, m>>
            OBVIOUS
          <5>2. s[1] = q /\ s[2] = m
            BY <5>1
          <5> QED
            BY ZenonT(60), <5>1, <5>2, <4>1, <1>2 DEF Reserved
        <4> QED
          BY ZenonT(60), <4>2, <1>2 DEF Reserved
      <3> HIDE DEF e
      <3>3. /\ Cardinality(Reserved(n)') = Cardinality(Reserved(n)) - 1
            /\ Cardinality(Reserved(n)') \in Nat /\ Cardinality(Reserved(n)) \in Nat
        <4>1. /\ Reserved(n) \in SUBSET (Procs \X (1 .. n))
              /\ Reserved(n)' \in SUBSET (Procs \X (1 .. n))
          BY ONLY <3>2 DEF Reserved, InOp
        <4> QED
          BY ONLY Counting(n), <4>1, <3>1, <3>2 DEF Counting, Counts
      <3> QED
        BY <3>3, <1>3
    <2> QED
      BY <2>1, <2>2
  <1>8. Fits(Len(lh') + Cardinality(Reserved(n)'))
    <2> DEFINE i == Len(lh') + Cardinality(Reserved(n)')
               j == Len(lh) + Cardinality(Reserved(n))
    <2>1. i \in Int /\ j \in Int /\ i <= j
      BY <1>3, <1>7
    <2>2. Fits(j)
      BY DEF SpaceInv
    <2> HIDE DEF i, j
    <2>3. Fits(i)
      BY <2>1, <2>2, FitsLess
    <2> QED
      BY <2>3 DEF i
  <1>9. \A q \in InOp' : written'[q] \subseteq Range(lh')
    <2> TAKE q \in InOp'
    <2>1. q \in InOp /\ q \in Procs
      BY <1>2 DEF InOp
    <2>2. CASE q = p
      BY <2>2, <1>3, <1>4, <1>5
    <2>3. CASE q # p
      BY <2>1, <2>3, <1>3, <1>4 DEF SpaceInv
    <2> QED
      BY <2>2, <2>3
  <1>10. NoPanic'
    BY DEF IndInv, TypeOK, SpaceInv, NoPanic
  <1> QED
    BY <1>8, <1>9, <1>10 DEF SpaceInv

(* No step of the log takes the room that is reserved. *)
LEMMA NextSpace ==
  ASSUME NEW n \in Nat, Capacity(n), Counting(n), IndInv, SpaceInv(n), Modest(n),
         [Next]_vars
  PROVE  SpaceInv(n)'
  <1>1. lh \in Seq(Blocks) /\ loghead \in Seq(Blocks) /\ pc \in [Procs -> PCs]
    BY DEF IndInv, TypeOK
  <1>2. Fits(Len(lh)) /\ Fits(Len(loghead)) /\ NoPanic
    BY <1>1, SpaceFits DEF LogFits, SpaceInv
  <1>3. Fits(0)
    BY DEF Capacity, Fits
  <1>4. ASSUME InOp' \subseteq InOp, UNCHANGED <<lh, written, loghead>>, NoPanic'
        PROVE  SpaceInv(n)'
    BY <1>1, <1>2, <1>4, SameCallsSpace
  <1>5. ASSUME InOp' = {}, NoPanic', lh' \in {<<>>, lh, loghead},
               loghead' \in {<<>>, lh, loghead}
        PROVE  SpaceInv(n)'
    <2>1. Fits(Len(lh')) /\ Fits(Len(loghead')) /\ lh' \in Seq(Blocks)
      <3>1. Len(<<>>) = 0 /\ <<>> \in Seq(Blocks)
        OBVIOUS
      <3> QED
        BY ONLY ZenonT(60), <3>1, <1>1, <1>2, <1>3, <1>5
    <2>2. Cardinality(Reserved(n)') = 0
      BY <1>5, NoneCounts DEF Counting, Reserved
    <2> QED
      BY <1>5, <2>1, <2>2 DEF SpaceInv
  <1>6. ASSUME UNCHANGED procVars PROVE InOp' = InOp /\ NoPanic'
    BY <1>2, <1>6 DEF procVars, InOp, NoPanic
  <1>7. ASSUME NEW p \in Procs, begin_op_sleep(p) PROVE SpaceInv(n)'
    <2>1. InOp' \subseteq InOp /\ NoPanic' /\ UNCHANGED <<lh, written, loghead>>
      BY ONLY <1>1, <1>2, <1>7, p \in Procs
         DEF begin_op_sleep, InOp, NoPanic, PCs, logVars, diskVars
    <2> QED
      BY <2>1, <1>4
  <1>8. ASSUME NEW p \in Procs, end_op(p) PROVE SpaceInv(n)'
    <2>1. ~committing
      BY <1>8 DEF end_op, IndInv, ControlInv, InOp
    <2>2. InOp' \subseteq InOp /\ NoPanic' /\ UNCHANGED <<lh, written, loghead>>
      BY ONLY <1>1, <1>2, <1>8, <2>1, p \in Procs
         DEF end_op, InOp, NoPanic, PCs, diskVars, Wakeup
    <2> QED
      BY <2>2, <1>4
  <1>9. ASSUME NEW p \in Procs, end_op_finish(p) PROVE SpaceInv(n)'
    <2>1. InOp' \subseteq InOp /\ NoPanic' /\ UNCHANGED <<lh, written, loghead>>
      BY ONLY <1>1, <1>2, <1>9, p \in Procs
         DEF end_op_finish, InOp, NoPanic, PCs, diskVars, Wakeup
    <2> QED
      BY <2>1, <1>4
  <1>10. ASSUME write_log \/ install_trans PROVE SpaceInv(n)'
    BY <1>10, <1>4, <1>6 DEF write_log, install_trans, logVars, procVars
  <1>11. ASSUME write_head \/ erase \/ read_head PROVE SpaceInv(n)'
    <2>1. InOp = {}
      BY <1>11 DEF write_head, erase, read_head, IndInv, ControlInv, InOp, Booting
    <2>2. UNCHANGED procVars
      BY <1>11 DEF write_head, erase, read_head
    <2>3. lh' \in {<<>>, lh, loghead} /\ loghead' \in {<<>>, lh, loghead}
      BY <1>11 DEF write_head, erase, read_head, logVars, diskVars
    <2> QED
      BY <2>1, <2>2, <2>3, <1>5, <1>6
  <1>12. ASSUME initlog_done PROVE SpaceInv(n)'
    <2>1. InOp' = {} /\ NoPanic' /\ UNCHANGED <<lh, written, loghead>>
      BY ONLY <1>12 DEF initlog_done, InOp, NoPanic, logVars, diskVars
    <2> QED
      BY <2>1, <1>4
  <1>13. ASSUME NEW b \in Blocks, bget_recycle(b) PROVE SpaceInv(n)'
    BY <1>13, <1>4, <1>6 DEF bget_recycle, logVars, diskVars, procVars
  <1>14. ASSUME Crash PROVE SpaceInv(n)'
    BY <1>14, <1>5 DEF Crash, InOp, NoPanic, diskVars
  <1>15. ASSUME UNCHANGED vars PROVE SpaceInv(n)'
    BY <1>15, <1>4, <1>6 DEF vars, procVars
  <1> QED
    BY <1>7, <1>8, <1>9, <1>10, <1>11, <1>12, <1>13, <1>14, <1>15, begin_opSpace,
       log_write_checkSpace, log_writeSpace DEF Next, ProcStep, CommitStep

-----------------------------------------------------------------------------
(* Counting finite sets. *)
INSTANCE FiniteSetTheorems

(* The subsets of a finite set are counted as Counts says. *)
LEMMA FiniteCounts ==
  ASSUME NEW U, IsFiniteSet(U)
  PROVE  Counts(U)
  <1> SUFFICES ASSUME NEW S \in SUBSET U
               PROVE  /\ Cardinality(S) \in Nat
                      /\ Cardinality(S) = 0 <=> S = {}
                      /\ \A x \in U \ S : Cardinality(S \cup {x}) = Cardinality(S) + 1
                      /\ \A x \in S : Cardinality(S \ {x}) = Cardinality(S) - 1
                      /\ \A R \in SUBSET S : Cardinality(R) <= Cardinality(S)
    BY DEF Counts
  <1>1. IsFiniteSet(S)
    BY FS_Subset
  <1>2. Cardinality(S) \in Nat
    BY <1>1, FS_CardinalityType
  <1>3. Cardinality(S) = 0 <=> S = {}
    BY <1>1, FS_EmptySet
  <1>4. \A x \in U \ S : Cardinality(S \cup {x}) = Cardinality(S) + 1
    BY Zenon, <1>1, FS_AddElement
  <1>5. \A x \in S : Cardinality(S \ {x}) = Cardinality(S) - 1
    BY Zenon, <1>1, FS_RemoveElement
  <1>6. \A R \in SUBSET S : Cardinality(R) <= Cardinality(S)
    BY <1>1, FS_Subset
  <1> QED
    BY <1>2, <1>3, <1>4, <1>5, <1>6

(* There are finitely many processes, blocks and reservations. *)
LEMMA CountingHolds ==
  ASSUME NEW n \in Nat
  PROVE  Counting(n)
  <1>1. IsFiniteSet(Procs) /\ IsFiniteSet(Blocks)
    BY FS_Interval DEF Blocks
  <1>2. IsFiniteSet(1 .. n) /\ Cardinality(1 .. n) = n
    <2>1. 1 \in Int /\ n \in Int /\ (IF 1 > n THEN 0 ELSE n - 1 + 1) = n
      OBVIOUS
    <2> QED
      BY Zenon, <2>1, FS_Interval
  <1>3. \A S \in SUBSET Procs : /\ IsFiniteSet(S \X (1 .. n))
                                /\ Cardinality(S \X (1 .. n)) = Cardinality(S) * n
    <2> SUFFICES ASSUME NEW S \in SUBSET Procs
                 PROVE  /\ IsFiniteSet(S \X (1 .. n))
                        /\ Cardinality(S \X (1 .. n)) = Cardinality(S) * n
      BY Zenon
    <2>1. IsFiniteSet(S)
      BY <1>1, FS_Subset
    <2> QED
      BY ZenonT(60), <1>2, <2>1, FS_Product
  <1>4. IsFiniteSet(Procs \X (1 .. n))
    BY <1>3
  <1> QED
    BY <1>1, <1>3, <1>4, FiniteCounts DEF Counting

-----------------------------------------------------------------------------
(* Whatever the calls write, as long as the entries stay within the log. *)

(* The inductive invariant: who may be where in log.c, what the headers, the *)
(* log blocks, the home blocks and the cache say about each other, and that  *)
(* a call panics only in log_write(), when the log is full.                  *)
THEOREM Invariance == Spec /\ []WithinLog => []IndInv
  <1>1. Counts(Procs)
    <2>1. 1 \in Nat
      OBVIOUS
    <2> QED
      BY Zenon, <2>1, CountingHolds DEF Counting
  <1>2. Init => IndInv
    BY <1>1, InitInv
  <1>3. IndInv /\ WithinLog /\ [Next]_vars => IndInv'
    BY <1>1, NextInv
  <1> QED
    BY <1>2, <1>3, PTL DEF Spec

(* The write-ahead rule: only install_trans() writes home blocks, and it     *)
(* runs while the header on disk lists them.                                 *)
THEOREM HomeWritesAreAhead == Spec /\ []WithinLog => WriteAhead
  <1> DEFINE A == \A b \in Blocks : disk'[b] # disk[b] => b \in Range(loghead)
  <1>1. IndInv /\ WithinLog /\ [Next]_vars => [A]_vars
    BY HomeWriteStep
  <1> QED
    BY <1>1, Invariance, PTL DEF Spec, WriteAhead

(* When end_op() returns from a commit, the cache is what recovery would     *)
(* produce and nothing stays pinned.                                         *)
THEOREM CommitIsDurable == Spec /\ []WithinLog => DurableOnReturn
  <1> DEFINE A == \A p \in Procs : pc[p] = "commit" /\ pc'[p] = "idle"
                                 => Recovered = cache /\ dirty = {}
  <1>1. IndInv /\ [Next]_vars => [A]_vars
    BY ReturnStep
  <1> QED
    BY <1>1, Invariance, PTL DEF Spec, DurableOnReturn

(* log.c implements the atomic disk: crash or no crash, the file system sees *)
(* the writes between two commits all together or not at all, calls that     *)
(* panic on a full log included.                                             *)
THEOREM Refinement == Spec /\ []WithinLog => CrashAtomic
  <1>1. Init => AD!Init
    <2> SUFFICES ASSUME Init PROVE AD!Init
      OBVIOUS
    <2>1. Booting /\ InOp = {}
      BY DEF Init, Booting, InOp
    <2>2. Recovered = disk /\ disk \in [Blocks -> Values]
      BY RecoveredHome DEF Init
    <2> QED
      BY <2>1, <2>2 DEF AD!Init
  <1>2. IndInv /\ WithinLog /\ IndInv' /\ [Next]_vars => [AD!Next]_(AD!avars)
    <2> SUFFICES ASSUME IndInv, WithinLog, IndInv', [Next]_vars
                 PROVE  AD!Next \/ UNCHANGED AD!avars
      OBVIOUS
    <2>1. CASE Next
      BY <2>1, StepSimulation
    <2>2. CASE UNCHANGED vars
      BY <2>2, RecoveredSame DEF AD!avars, vars, diskVars, InOp, Booting
    <2> QED
      BY <2>1, <2>2
  <1> QED
    BY <1>1, <1>2, Invariance, PTL DEF Spec, CrashAtomic, AD!Spec

-----------------------------------------------------------------------------
(* When the calls keep within what begin_op() can reserve for them. *)

(* If no call logs more than n blocks, and the reservation of begin_op()     *)
(* covers n (n <= 9 with param.h), the log always has the room reserved.     *)
LEMMA RoomReserved ==
  ASSUME NEW n \in Nat, Capacity(n)
  PROVE  Spec /\ []Modest(n) => [](IndInv /\ SpaceInv(n))
  <1>0. Counting(n) /\ Counts(Procs)
    BY CountingHolds DEF Counting
  <1>1. Init => IndInv /\ SpaceInv(n)
    <2> SUFFICES ASSUME Init PROVE IndInv /\ SpaceInv(n)
      OBVIOUS
    <2>1. IndInv
      BY <1>0, InitInv
    <2>2. InOp = {} /\ NoPanic /\ lh = <<>> /\ loghead = <<>>
      BY DEF Init, InOp, NoPanic
    <2>3. Fits(0)
      BY DEF Capacity, Fits
    <2> QED
      BY <1>0, <2>1, <2>2, <2>3, NoCallsSpace DEF IndInv, TypeOK
  <1>2. (IndInv /\ SpaceInv(n)) /\ Modest(n) /\ [Next]_vars => (IndInv /\ SpaceInv(n))'
    <2> SUFFICES ASSUME IndInv, SpaceInv(n), Modest(n), [Next]_vars
                 PROVE  IndInv' /\ SpaceInv(n)'
      OBVIOUS
    <2>1. WithinLog
      BY <1>0, SpaceFits DEF IndInv, TypeOK
    <2> QED
      BY <1>0, <2>1, NextInv, NextSpace
  <1> QED
    BY <1>1, <1>2, PTL DEF Spec

(* No file system call runs into a panic of log.c if none logs more blocks   *)
(* than begin_op()'s reservation covers, which is one less than MAXOPBLOCKS  *)
(* with the sizes of param.h and mkfs.c.                                     *)
THEOREM NeverPanics ==
  ASSUME NEW n \in Nat, Capacity(n)
  PROVE  Spec /\ []Modest(n) => []NoPanic
  <1>1. IndInv /\ SpaceInv(n) => NoPanic
    BY DEF SpaceInv
  <1> QED
    BY <1>1, RoomReserved, PTL

(* The transaction of such calls always fits the log: the check-then-append  *)
(* race of log_write() is harmless because begin_op() reserves the space.    *)
THEOREM TransactionFits ==
  ASSUME NEW n \in Nat, Capacity(n)
  PROVE  Spec /\ []Modest(n) => [](LogFits /\ WithinLog)
  <1>1. IndInv /\ SpaceInv(n) => LogFits /\ WithinLog
    BY CountingHolds, SpaceFits DEF IndInv, TypeOK
  <1> QED
    BY <1>1, RoomReserved, PTL
=============================================================================
