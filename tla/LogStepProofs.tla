--------------------------- MODULE LogStepProofs ----------------------------
(* The steps of begin_op(), commit() and recovery that need no counting of  *)
(* calls or blocks preserve the inductive invariant of the log.             *)
EXTENDS LogInv, TLAPS

USE ConstantsAssumption

(* begin_op() waits. *)
LEMMA begin_op_sleepInv ==
  ASSUME NEW p \in Procs, IndInv, begin_op_sleep(p)
  PROVE  IndInv'
  <1> USE DEF begin_op_sleep, diskVars, logVars
  <1>1. InOp' = InOp /\ ~Booting /\ ~Booting'
    BY DEF IndInv, TypeOK, PCs, InOp, ControlInv, Booting
  <1>3. TypeOK'
    BY DEF IndInv, TypeOK, PCs
  <1>4. ControlInv'
    BY SMTT(60), <1>1 DEF IndInv, TypeOK, PCs, ControlInv, Booting
  <1>5. BufInv'
    BY DEF IndInv, TypeOK, BufInv
  <1>7. HeadInv'
    BY DEF IndInv, HeadInv
  <1>8. DataInv'
    BY SMTT(60), <1>1 DEF IndInv, DataInv
  <1> QED
    BY <1>3, <1>4, <1>5, <1>7, <1>8 DEF IndInv

(* While write_log(), write_head() or install_trans() runs, no call is in    *)
(* progress, no buffer is held and the current log block is inside the log.  *)
LEMMA CommitFacts ==
  ASSUME IndInv, WithinLog, phase \in {"write_log", "write_head", "install"}
  PROVE  /\ InOp = {}
         /\ \A p \in Procs : buf[p] = NoBlock
         /\ Len(lh) \in Nat /\ Len(lh) >= 1 /\ Len(lh) < NLOG
         /\ DOMAIN lh = 1 .. Len(lh)
         /\ \A i \in 1 .. Len(lh) : lh[i] \in Blocks
  <1>1. InOp = {}
    BY DEF IndInv, ControlInv, InOp, Booting
  <1>2. \A p \in Procs : buf[p] = NoBlock
    BY <1>1 DEF IndInv, BufInv, InOp
  <1>3. Len(lh) \in Nat /\ Len(lh) < NLOG
    BY DEF IndInv, TypeOK, WithinLog
  <1>4. lh \in Seq(Blocks) /\ lh # <<>>
    BY DEF IndInv, TypeOK, HeadInv
  <1> QED
    BY <1>1, <1>2, <1>3, <1>4

(* The steps of commit() and of recovery do not move a process, so only the  *)
(* phase and the data are at stake.                                          *)
LEMMA SameProcs ==
  ASSUME IndInv, UNCHANGED <<procVars, outstanding, committing>>,
         phase # "none", phase' # "none", phase' # "read_head",
         Booting => phase' \in {"install", "erase", "finish"}
  PROVE  ControlInv' /\ BufInv' /\ InOp' = InOp /\ Booting' = Booting
  <1> USE DEF procVars
  <1>1. InOp' = InOp /\ Booting' = Booting
    BY DEF InOp, Booting
  <1>2. BufInv'
    BY DEF IndInv, BufInv
  <1>3. \A p \in Procs : pc[p] # "panic"
    BY DEF IndInv, ControlInv, InOp, Booting
  <1>4. ControlInv'
    BY <1>1, <1>3 DEF IndInv, ControlInv
  <1> QED
    BY <1>1, <1>2, <1>4

(* The loops over log.lh either go on or end after their last block. *)
LEMMA LoopStepCases ==
  ASSUME NEW after, LoopStep(after), Len(lh) \in Nat, tail \in Nat, tail < Len(lh)
  PROVE  \/ tail + 1 < Len(lh) /\ tail' = tail + 1 /\ phase' = phase
         \/ tail + 1 = Len(lh) /\ tail' = 0 /\ phase' = after
  <1>1. CASE tail + 1 < Len(lh)
    BY <1>1 DEF LoopStep
  <1>2. CASE ~(tail + 1 < Len(lh))
    <2>1. tail + 1 = Len(lh)
      BY <1>2
    <2> QED
      BY <1>2, <2>1 DEF LoopStep
  <1> QED
    BY <1>1, <1>2

(* write_log() copies a block to the log. *)
LEMMA write_logInv ==
  ASSUME IndInv, WithinLog, write_log
  PROVE  IndInv'
  <1> USE DEF write_log
  <1>1. /\ InOp = {} /\ \A p \in Procs : buf[p] = NoBlock
        /\ Len(lh) \in Nat /\ Len(lh) >= 1 /\ Len(lh) < NLOG
        /\ DOMAIN lh = 1 .. Len(lh)
        /\ \A i \in 1 .. Len(lh) : lh[i] \in Blocks
    BY CommitFacts
  <1>2. ~Booting /\ tail < Len(lh) /\ tail \in Nat
    BY DEF IndInv, ControlInv, HeadInv, TypeOK
  <1>3. /\ logblk' = [logblk EXCEPT ![tail + 1] = cache[lh[tail + 1]]]
        /\ UNCHANGED <<disk, cache, dirty>>
    BY SMTT(60), <1>1, <1>2 DEF PutLogBlock
  <1>4. \/ tail + 1 < Len(lh) /\ tail' = tail + 1 /\ phase' = "write_log"
        \/ tail + 1 = Len(lh) /\ tail' = 0 /\ phase' = "write_head"
    BY <1>1, <1>2, LoopStepCases
  <1>5. ControlInv' /\ BufInv' /\ InOp' = InOp /\ Booting' = Booting
    <2>1. UNCHANGED <<procVars, outstanding, committing>>
      BY DEF logVars
    <2>2. /\ phase # "none" /\ phase' # "none" /\ phase' # "read_head"
          /\ (Booting => phase' \in {"install", "erase", "finish"})
      BY <1>2, <1>4
    <2> QED
      BY <2>1, <2>2, SameProcs
  <1>6. cache[lh[tail + 1]] \in Values
    BY <1>1, <1>2 DEF IndInv, TypeOK
  <1>7. TypeOK'
    <2>1. logblk' \in [1 .. NLOG - 1 -> Values]
      BY ZenonT(60), <1>3, <1>6 DEF IndInv, TypeOK
    <2>2. tail' \in Nat /\ phase' \in Phases
      BY <1>2, <1>4 DEF Phases
    <2> QED
      BY SMTT(60), <2>1, <2>2, <1>3 DEF IndInv, TypeOK, logVars, procVars
  <1>9. HeadInv'
    BY <1>2, <1>4 DEF IndInv, HeadInv, logVars
  <1>10. \A i \in 1 .. tail + 1 : logblk'[i] = cache[lh[i]]
    <2> TAKE i \in 1 .. tail + 1
    <2>0. logblk \in [1 .. NLOG - 1 -> Values] /\ tail \in Nat
      BY DEF IndInv, TypeOK
    <2>1. CASE i = tail + 1
      BY SMTT(60), <2>0, <2>1, <1>1, <1>2, <1>3
    <2>2. CASE i # tail + 1
      <3>1. i \in 1 .. tail
        BY <2>0, <2>2
      <3>2. logblk[i] = cache[lh[i]]
        BY <3>1, <1>1, <1>2 DEF IndInv, DataInv
      <3> QED
        BY <3>1, <3>2, <2>0, <2>2, <1>3
    <2> QED
      BY <2>1, <2>2
  <1>11. DataInv'
    BY SMTT(60), <1>2, <1>3, <1>4, <1>5, <1>10 DEF IndInv, DataInv, logVars, procVars, Range
  <1> QED
    BY <1>5, <1>7, <1>9, <1>11 DEF IndInv

(* write_head() writes the header: the commit point. *)
LEMMA write_headInv ==
  ASSUME IndInv, WithinLog, write_head
  PROVE  IndInv'
  <1> USE DEF write_head
  <1>1. /\ InOp = {} /\ \A p \in Procs : buf[p] = NoBlock
        /\ Len(lh) \in Nat /\ Len(lh) >= 1 /\ Len(lh) < NLOG
        /\ DOMAIN lh = 1 .. Len(lh)
        /\ \A i \in 1 .. Len(lh) : lh[i] \in Blocks
    BY CommitFacts
  <1>2. ~Booting /\ tail = 0
    BY DEF IndInv, ControlInv, HeadInv
  <1>3. ControlInv' /\ BufInv' /\ InOp' = InOp /\ Booting' = Booting
    <2>1. UNCHANGED <<procVars, outstanding, committing>>
      BY DEF logVars
    <2> QED
      BY <2>1, SameProcs
  <1>4. TypeOK'
    BY DEF IndInv, TypeOK, Phases, logVars, procVars
  <1>6. HeadInv'
    BY <1>1, <1>2 DEF IndInv, HeadInv, logVars
  <1>7. DataInv'
    <2>1. dirty = {lh[i] : i \in 1 .. Len(lh)}
      BY SMTT(60), <1>1 DEF IndInv, DataInv, Range
    <2>2. tail' + 1 = 1 /\ tail' = 0
      BY <1>2
    <2> QED
      BY SMTT(60), <2>1, <2>2, <1>2, <1>3 DEF IndInv, DataInv, logVars, procVars
  <1> QED
    BY <1>3, <1>4, <1>6, <1>7 DEF IndInv

(* install_trans() copies a block home. *)
LEMMA install_transInv ==
  ASSUME IndInv, WithinLog, install_trans
  PROVE  IndInv'
  <1> USE DEF install_trans
  <1> DEFINE b == lh[tail + 1]
             v == logblk[tail + 1]
  <1>1. /\ InOp = {} /\ \A p \in Procs : buf[p] = NoBlock
        /\ Len(lh) \in Nat /\ Len(lh) >= 1 /\ Len(lh) < NLOG
        /\ DOMAIN lh = 1 .. Len(lh)
        /\ \A i \in 1 .. Len(lh) : lh[i] \in Blocks
    BY CommitFacts
  <1>2. tail < Len(lh) /\ tail \in Nat
    BY DEF IndInv, HeadInv, TypeOK
  <1>3. b \in Blocks /\ v \in Values
    BY SMTT(60), <1>1, <1>2 DEF IndInv, TypeOK
  <1>4. /\ disk' = [disk EXCEPT ![b] = v]
        /\ cache' = [cache EXCEPT ![b] = v]
        /\ dirty' = dirty \ {b}
    <2>1. tail + 1 < NLOG
      BY <1>1, <1>2
    <2>2. LogBlock(tail + 1) = v
      BY <2>1 DEF LogBlock
    <2> QED
      BY ZenonT(60), <2>2
  <1>5. \/ tail + 1 < Len(lh) /\ tail' = tail + 1 /\ phase' = "install"
        \/ tail + 1 = Len(lh) /\ tail' = 0 /\ phase' = "erase"
    BY ZenonT(60), <1>1, <1>2, LoopStepCases
  <1>6. ControlInv' /\ BufInv' /\ InOp' = InOp /\ Booting' = Booting
    <2>1. UNCHANGED <<procVars, outstanding, committing>>
      BY DEF logVars
    <2>2. phase # "none" /\ phase' # "none" /\ phase' \in {"install", "erase"}
      BY <1>5
    <2> QED
      BY <2>1, <2>2, SameProcs
  <1>7. TypeOK'
    <2>1. /\ disk' \in [Blocks -> Values] /\ cache' \in [Blocks -> Values]
          /\ dirty' \subseteq Blocks
      BY SMTT(60), <1>3, <1>4 DEF IndInv, TypeOK
    <2>2. tail' \in Nat /\ phase' \in Phases
      BY <1>2, <1>5 DEF Phases
    <2> QED
      BY SMTT(60), <2>1, <2>2 DEF IndInv, TypeOK, logVars, procVars
  <1>9. HeadInv'
    BY <1>2, <1>5 DEF IndInv, HeadInv, logVars
  <1>10. \A i \in 1 .. tail : lh[i] # b
    BY SMTT(60), <1>1, <1>2 DEF IndInv, HeadInv
  <1>11. \A i \in 1 .. tail + 1 : disk'[lh[i]] = logblk[i]
    <2> TAKE i \in 1 .. tail + 1
    <2>1. CASE i = tail + 1
      BY SMTT(60), <2>1, <1>3, <1>4 DEF IndInv, TypeOK
    <2>2. CASE i # tail + 1
      <3>1. i \in 1 .. tail
        BY <2>2, <1>2
      <3>2. lh[i] \in Blocks /\ lh[i] # b /\ disk[lh[i]] = logblk[i]
        BY SMTT(60), <3>1, <1>1, <1>2, <1>10 DEF IndInv, DataInv
      <3> QED
        BY <3>2, <1>4 DEF IndInv, TypeOK
    <2> QED
      BY <2>1, <2>2
  <1>12. ~Booting => cache' = cache
    <2>1. ~Booting => cache[b] = v
      BY SMTT(60), <1>1, <1>2 DEF IndInv, DataInv
    <2> QED
      BY <2>1, <1>3, <1>4 DEF IndInv, TypeOK
  <1>13. Booting => cache' = disk' /\ dirty' = {}
    BY SMTT(60), <1>4 DEF IndInv, DataInv
  <1>14. ASSUME NEW c \in Blocks \ dirty'
         PROVE  cache'[c] = disk'[c]
    <2>1. CASE c = b
      BY SMTT(60), <2>1, <1>3, <1>4 DEF IndInv, TypeOK
    <2>2. CASE c # b
      <3>1. c \notin dirty /\ \A p \in Procs : buf[p] # c
        BY SMTT(60), <2>2, <1>4, <1>1 DEF Blocks, NoBlock
      <3> QED
        BY SMTT(60), <2>2, <3>1, <1>4 DEF IndInv, TypeOK, DataInv
    <2> QED
      BY <2>1, <2>2
  <1>15. ~Booting => dirty' = {lh[i] : i \in tail + 2 .. Len(lh)}
    <2>1. ~Booting => dirty = {lh[i] : i \in tail + 1 .. Len(lh)}
      BY SMTT(60) DEF IndInv, DataInv
    <2>2. \A i \in tail + 1 .. Len(lh) : lh[i] # b <=> i \in tail + 2 .. Len(lh)
      BY SMTT(60), <1>1, <1>2 DEF IndInv, HeadInv
    <2> QED
      BY SMTT(60), <2>1, <2>2, <1>2, <1>4
  <1>16. DataInv'
    <2>1. CASE tail + 1 < Len(lh) /\ tail' = tail + 1 /\ phase' = "install"
      <3>1. tail' + 1 = tail + 2
        BY <2>1, <1>2
      <3> QED
        BY SMTT(60), <2>1, <3>1, <1>6, <1>11, <1>12, <1>13, <1>14, <1>15
           DEF IndInv, DataInv, logVars
    <2>2. CASE tail + 1 = Len(lh) /\ tail' = 0 /\ phase' = "erase"
      <3>1. dirty' = {}
        BY SMTT(60), <2>2, <1>2, <1>13, <1>15
      <3> QED
        BY SMTT(60), <2>2, <3>1, <1>6, <1>11, <1>13, <1>14 DEF DataInv, logVars
    <2> QED
      BY <1>5, <2>1, <2>2
  <1> QED
    BY <1>6, <1>7, <1>9, <1>16 DEF IndInv

(* The header is erased. *)
LEMMA eraseInv ==
  ASSUME IndInv, WithinLog, erase
  PROVE  IndInv'
  <1> USE DEF erase
  <1>1. InOp = {} /\ \A p \in Procs : buf[p] = NoBlock
    BY SMTT(60) DEF IndInv, ControlInv, InOp, Booting, BufInv
  <1>2. ControlInv' /\ BufInv' /\ InOp' = InOp /\ Booting' = Booting
    <2>1. ASSUME ~Booting, ~committing PROVE FALSE
      BY <2>1 DEF IndInv, ControlInv
    <2> QED
      BY <2>1, SameProcs
  <1>3. TypeOK'
    BY SMTT(60) DEF IndInv, TypeOK, Phases, procVars
  <1>5. HeadInv'
    BY DEF IndInv, HeadInv
  <1>6. DataInv'
    BY SMTT(60), <1>2 DEF IndInv, DataInv, procVars
  <1> QED
    BY <1>2, <1>3, <1>5, <1>6 DEF IndInv

(* end_op() ends the commit. *)
LEMMA end_op_finishInv ==
  ASSUME NEW p \in Procs, IndInv, end_op_finish(p)
  PROVE  IndInv'
  <1> USE DEF end_op_finish, diskVars
  <1>1. committing /\ ~Booting /\ InOp = {} /\ lh = <<>>
    BY SMTT(60) DEF IndInv, ControlInv, Booting, HeadInv
  <1>2. /\ \A q \in Procs : pc'[q] \notin {"commit", "boot", "panic", "op", "log"}
        /\ pc' \in [Procs -> PCs]
    BY SMTT(60), <1>1 DEF IndInv, TypeOK, PCs, ControlInv, Wakeup,
                Booting, InOp
  <1>3. InOp' = InOp /\ ~Booting'
    BY ZenonT(60), <1>1, <1>2 DEF InOp, Booting
  <1>4. committing' = FALSE /\ committing' \in BOOLEAN
    BY Zenon
  <1>5. TypeOK'
    BY ZenonT(60), <1>2, <1>4 DEF IndInv, TypeOK, Phases
  <1>6. ControlInv'
    BY ZenonT(60), <1>1, <1>2, <1>3, <1>4 DEF IndInv, ControlInv, Booting
  <1>7. BufInv'
    BY ZenonT(60), <1>1, <1>2 DEF IndInv, BufInv, InOp
  <1>9. HeadInv'
    BY DEF IndInv, HeadInv
  <1>10. DataInv'
    <2>1. phase' = "none" /\ lh' = <<>> /\ dirty' = {}
      BY SMTT(30), <1>1 DEF IndInv, DataInv
    <2>2. \A b \in Blocks \ dirty' : (\A q \in Procs : buf'[q] # b) => cache'[b] = disk'[b]
      BY ZenonT(60) DEF IndInv, DataInv
    <2>3. Range(lh') = {}
      BY SMTT(30), <2>1 DEF Range
    <2>4. dirty' = Range(lh')
      BY <2>1, <2>3
    <2>5. /\ phase' \notin {"write_log", "write_head", "install", "erase", "finish"}
          /\ ~Booting'
      BY ONLY <2>1, <1>3
    <2> QED
      BY ZenonT(60), <2>2, <2>4, <2>5 DEF DataInv
  <1> QED
    BY <1>5, <1>6, <1>7, <1>9, <1>10 DEF IndInv

(* Recovery is over. *)
LEMMA initlog_doneInv ==
  ASSUME IndInv, initlog_done
  PROVE  IndInv'
  <1> USE DEF initlog_done, diskVars, logVars
  <1>1. Booting /\ ~committing /\ InOp = {} /\ lh = <<>>
    BY SMTT(60) DEF IndInv, ControlInv, Booting, HeadInv, InOp
  <1>2. InOp' = InOp /\ ~Booting'
    BY <1>1 DEF InOp, Booting
  <1>3. TypeOK'
    BY SMTT(60) DEF IndInv, TypeOK, Phases, PCs
  <1>4. ControlInv'
    BY SMTT(60), <1>1, <1>2 DEF IndInv, ControlInv, Booting
  <1>5. BufInv'
    BY SMTT(60), <1>1 DEF IndInv, BufInv
  <1>7. HeadInv'
    BY DEF IndInv, HeadInv
  <1>8. DataInv'
    BY SMTT(60), <1>1, <1>2 DEF IndInv, DataInv, Range
  <1> QED
    BY <1>3, <1>4, <1>5, <1>7, <1>8 DEF IndInv

(* Recycling a buffer that is neither busy nor dirty changes nothing that    *)
(* bread() returns.                                                          *)
LEMMA RecycleInvisible ==
  ASSUME IndInv, NEW b \in Blocks, bget_recycle(b)
  PROVE  UNCHANGED vars
  <1>1. cache[b] = disk[b]
    BY SMTT(60) DEF IndInv, DataInv, bget_recycle
  <1>2. cache' = cache
    BY <1>1 DEF IndInv, TypeOK, bget_recycle
  <1> QED
    BY SMTT(60), <1>2 DEF bget_recycle, vars, diskVars, logVars, procVars
=============================================================================
