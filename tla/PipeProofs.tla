----------------------------- MODULE PipeProofs -----------------------------
(***************************************************************************)
(* Proofs about Pipe, for any number of readers and writers, any pipe and  *)
(* word size and any kills: PipeSound, which is inductive, and PipeIsQueue *)
(* by forward simulation.                                                  *)
(***************************************************************************)
EXTENDS Pipe, TLAPS

-----------------------------------------------------------------------------
(* Arithmetic of counters that wrap. *)

(* A remainder lies below the divisor. *)
LEMMA ModRange ==
  ASSUME NEW w \in Nat \ {0}, NEW a \in Int
  PROVE  a % w \in 0 .. w - 1
OBVIOUS

(* A number below the divisor is its own remainder, *)
LEMMA ModSmall ==
  ASSUME NEW w \in Nat \ {0}, NEW a \in 0 .. w - 1
  PROVE  a % w = a
OBVIOUS

(* and a negative one that has wrapped once gains a word. *)
LEMMA ModBelow ==
  ASSUME NEW w \in Nat \ {0}, NEW a \in -w .. -1
  PROVE  a % w = a + w
OBVIOUS

(* Division with remainder, *)
LEMMA ModQuotient ==
  ASSUME NEW w \in Nat \ {0}, NEW a \in Int
  PROVE  a \div w \in Int /\ a = (a \div w) * w + (a % w)
<1>1. a \div w \in Int
  OBVIOUS
<1>2. a = (a \div w) * w + (a % w)
  OBVIOUS
<1> QED
  BY <1>1, <1>2

(* which is unique. *)
LEMMA ModUnique ==
  ASSUME NEW w \in Nat \ {0}, NEW q \in Int, NEW r \in 0 .. w - 1
  PROVE  (q * w + r) % w = r
OBVIOUS

(* Multiples of the divisor do not change the remainder. *)
LEMMA ModShift ==
  ASSUME NEW w \in Nat \ {0}, NEW a \in Int, NEW q \in Int
  PROVE  (a + q * w) % w = a % w
<1> DEFINE d == a \div w
           r == a % w
<1>1. d \in Int /\ r \in 0 .. w - 1 /\ a = d * w + r
  BY ModQuotient, ModRange
<1> HIDE DEF d, r
<1>2. a + q * w = (d + q) * w + r
  BY <1>1
<1>3. ((d + q) * w + r) % w = r
  BY <1>1, ModUnique
<1> QED
  BY <1>2, <1>3 DEF r

(* A sum may be reduced before it is complete. *)
LEMMA ModSum ==
  ASSUME NEW w \in Nat \ {0}, NEW a \in Int, NEW b \in Int
  PROVE  ((a % w) + b) % w = (a + b) % w
<1> DEFINE d == a \div w
           r == a % w
<1>1. d \in Int /\ r \in 0 .. w - 1 /\ a = d * w + r
  BY ModQuotient, ModRange
<1> HIDE DEF d, r
<1>2. PICK x \in Int : x = r + b
  BY <1>1
<1>3. a + b = x + d * w
  BY <1>1, <1>2
<1>4. (x + d * w) % w = x % w
  BY <1>1, ModShift, ZenonT(30)
<1> QED
  BY <1>2, <1>3, <1>4, ZenonT(30) DEF r

(* A buffer index is not disturbed by the wrap of its counter when the       *)
(* buffer's size divides the word.                                           *)
LEMMA ModMod ==
  ASSUME NEW w \in Nat \ {0}, NEW v \in Nat \ {0}, v % w = 0, NEW a \in Int
  PROVE  (a % v) % w = a % w
<1> DEFINE d == a \div v
           r == a % v
           q == v \div w
<1>1. d \in Int /\ r \in 0 .. v - 1 /\ a = d * v + r
  BY ModQuotient, ModRange
<1>2. q \in Int /\ v = q * w
  BY ModQuotient
<1> HIDE DEF d, r, q
<1>3. d * q \in Int /\ r \in Int /\ a = r + (d * q) * w
  BY <1>1, <1>2
<1>4. a % w = r % w
  BY <1>3, ModShift, ZenonT(30)
<1> QED
  BY <1>4 DEF r

-----------------------------------------------------------------------------
(* The circular buffer. *)

(* How a concatenation is recognised. *)
LEMMA ConcatIs ==
  ASSUME NEW S, NEW s \in Seq(S), NEW t \in Seq(S), NEW u \in Seq(S),
         Len(u) = Len(s) + Len(t),
         \A i \in 1 .. Len(s) : u[i] = s[i],
         \A i \in 1 .. Len(t) : u[Len(s) + i] = t[i]
  PROVE  u = s \o t
<1>1. s \o t \in Seq(S) /\ Len(s \o t) = Len(s) + Len(t)
  OBVIOUS
<1>2. \A i \in 1 .. Len(s) + Len(t) : (s \o t)[i] = IF i <= Len(s) THEN s[i] ELSE t[i - Len(s)]
  OBVIOUS
<1>3. ASSUME NEW i \in 1 .. Len(s) + Len(t)
      PROVE  (s \o t)[i] = u[i]
  <2>1. CASE i <= Len(s)
    BY <1>2, <2>1
  <2>2. CASE ~ i <= Len(s)
    <3>1. i - Len(s) \in 1 .. Len(t) /\ Len(s) + (i - Len(s)) = i
      BY <2>2
    <3> QED  BY <1>2, <2>2, <3>1, ZenonT(30)
  <2> QED  BY <2>1, <2>2
<1> QED
  BY <1>1, <1>3

(* The number of bytes in the pipe, and the counters' wrap. *)
LEMMA CountRange ==
  ASSUME NEW r \in Int, NEW w \in Int
  PROVE  (w - r) % WORD \in 0 .. WORD - 1
BY PipeConstants, ModRange

(* An empty pipe has equal counters, and the other way round. *)
LEMMA EmptyCount ==
  ASSUME TypeOK
  PROVE  Count = 0 <=> nread = nwrite
<1>1. nread \in 0 .. WORD - 1 /\ nwrite \in 0 .. WORD - 1 /\ WORD \in Nat \ {0}
  BY PipeConstants DEF TypeOK
<1>2. CASE nwrite >= nread
  BY <1>1, <1>2, ModSmall DEF Count
<1>3. CASE nwrite < nread
  <2>1. nwrite - nread \in -WORD .. -1
    BY <1>1, <1>3
  <2>2. Count = nwrite - nread + WORD
    BY <1>1, <2>1, ModBelow DEF Count
  <2> QED  BY <1>1, <1>3, <2>2
<1> QED  BY <1>1, <1>2, <1>3

(* Writing k bytes adds k to the number of bytes, as long as they fit. *)
LEMMA CountUp ==
  ASSUME TypeOK, NEW k \in Nat, Count + k <= PIPESIZE
  PROVE  (((nwrite + k) % WORD) - nread) % WORD = Count + k
<1>1. /\ nread \in Int /\ nwrite \in Int /\ WORD \in Nat \ {0}
      /\ Count \in 0 .. WORD - 1 /\ nwrite - nread \in Int
      /\ nwrite + k \in Int /\ -nread \in Int /\ k \in Int
  BY PipeConstants, CountRange DEF TypeOK, Count
<1>2. (((nwrite + k) % WORD) + (-nread)) % WORD = ((nwrite + k) + (-nread)) % WORD
  BY <1>1, ModSum, ZenonT(30)
<1>3. (((nwrite - nread) % WORD) + k) % WORD = ((nwrite - nread) + k) % WORD
  BY <1>1, ModSum, ZenonT(30)
<1>4. (Count + k) % WORD = Count + k
  <2>1. Count + k \in 0 .. WORD - 1
    BY PipeConstants, <1>1
  <2> QED  BY <1>1, <2>1, ModSmall
<1>5. ((nwrite + k) % WORD) - nread = ((nwrite + k) % WORD) + (-nread)
  BY <1>1, ModRange
<1>6. (nwrite + k) + (-nread) = (nwrite - nread) + k
  BY <1>1
<1> QED
  BY <1>2, <1>3, <1>4, <1>5, <1>6 DEF Count

(* Reading k bytes takes k from it, as long as they are there. *)
LEMMA CountDown ==
  ASSUME TypeOK, NEW k \in 0 .. Count
  PROVE  (nwrite - ((nread + k) % WORD)) % WORD = Count - k
<1> DEFINE q == (nread + k) \div WORD
<1>1. /\ nread \in Int /\ nwrite \in Int /\ WORD \in Nat \ {0}
      /\ Count \in 0 .. WORD - 1 /\ nwrite - nread \in Int
      /\ nread + k \in Int /\ k \in Int /\ -k \in Int
      /\ (nwrite - nread) + (-k) \in Int
  BY PipeConstants, CountRange DEF TypeOK, Count
<1>2. q \in Int /\ nread + k = q * WORD + ((nread + k) % WORD)
  BY <1>1, ModQuotient
<1>3. nwrite - ((nread + k) % WORD) = ((nwrite - nread) + (-k)) + q * WORD
  <2> DEFINE m == (nread + k) % WORD
             t == q * WORD
  <2>1. m \in Int /\ t \in Int /\ nread + k = t + m
    BY <1>1, <1>2, ModRange
  <2> HIDE DEF m, t, q
  <2>2. nwrite - m = ((nwrite - nread) + (-k)) + t
    BY <1>1, <2>1
  <2> QED  BY <2>2 DEF m, t
<1> HIDE DEF q
<1>4. (((nwrite - nread) + (-k)) + q * WORD) % WORD = ((nwrite - nread) + (-k)) % WORD
  BY <1>1, <1>2, ModShift, ZenonT(30)
<1>5. (((nwrite - nread) % WORD) + (-k)) % WORD = ((nwrite - nread) + (-k)) % WORD
  BY <1>1, ModSum, ZenonT(30)
<1>6. Count + (-k) \in 0 .. WORD - 1 /\ Count + (-k) = Count - k
  BY <1>1
<1>7. (Count + (-k)) % WORD = Count + (-k)
  BY <1>1, <1>6, ModSmall
<1> QED
  BY <1>3, <1>4, <1>5, <1>6, <1>7 DEF Count

(* The slots behind the last byte are the ones that pipewrite() fills next:  *)
(* the wraps of both counters and of the index cancel out.                   *)
LEMMA SlotDistance ==
  ASSUME TypeOK, NEW i \in Int
  PROVE  (((nread + i) % PIPESIZE) - nwrite) % PIPESIZE = (i - Count) % PIPESIZE
<1> DEFINE q == (nwrite - nread) \div WORD
           v == WORD \div PIPESIZE
           d == (nread + i) \div PIPESIZE
           j == (nread + i) % PIPESIZE
<1>1. /\ nread \in Int /\ nwrite \in Int /\ nwrite - nread \in Int /\ nread + i \in Int
      /\ WORD \in Nat \ {0} /\ PIPESIZE \in Nat \ {0} /\ WORD \in Int
  BY PipeConstants DEF TypeOK
<1>2. q \in Int /\ nwrite - nread = q * WORD + Count /\ Count \in Int
  BY <1>1, ModQuotient, CountRange DEF Count
<1>3. v \in Int /\ WORD = v * PIPESIZE + (WORD % PIPESIZE)
  BY <1>1, ModQuotient
<1>4. d \in Int /\ nread + i = d * PIPESIZE + j /\ j \in Int
  BY <1>1, ModQuotient, ModRange
<1> HIDE DEF q, v, d, j
<1>5. q * v \in Int /\ nwrite - nread = (q * v) * PIPESIZE + Count
  BY PipeConstants, <1>1, <1>2, <1>3
<1>6. -(q * v) - d \in Int /\ i - Count \in Int
  BY <1>2, <1>4, <1>5
<1>7. j - nwrite = (i - Count) + (-(q * v) - d) * PIPESIZE
  BY <1>1, <1>2, <1>4, <1>5, <1>6
<1>8. ((i - Count) + (-(q * v) - d) * PIPESIZE) % PIPESIZE = (i - Count) % PIPESIZE
  BY <1>1, <1>6, ModShift, ZenonT(30)
<1> QED
  BY <1>7, <1>8 DEF j

(* What the pipe holds is a sequence of Count bytes. *)
LEMMA ContentsBytes ==
  ASSUME TypeOK
  PROVE  /\ Count \in 0 .. PIPESIZE
         /\ Contents \in Seq(Bytes) /\ Len(Contents) = Count
         /\ \A i \in 1 .. Count : Contents[i] = data[(nread + i - 1) % PIPESIZE]
<1>1. nread \in Int /\ nwrite \in Int /\ PIPESIZE \in Nat \ {0}
  BY PipeConstants DEF TypeOK
<1>2. Count \in 0 .. PIPESIZE
  BY <1>1, CountRange DEF TypeOK, Count
<1>3. \A i \in 1 .. Count : (nread + i - 1) % PIPESIZE \in 0 .. PIPESIZE - 1
  BY <1>1, <1>2, ModRange
<1>4. Contents \in [1 .. Count -> Bytes]
  BY <1>2, <1>3, ZenonT(30) DEF Contents, TypeOK
<1> QED
  BY <1>2, <1>4 DEF Contents

(* pipewrite() appends the first bytes of the message, as many as there is   *)
(* room for.                                                                 *)
LEMMA PutAppends ==
  ASSUME TypeOK, NEW msg \in Seq(Bytes), PutBytes(msg), nread' = nread,
         NEW k, k = SmallerOf(Len(msg), Room)
  PROVE  /\ k \in 0 .. Len(msg) /\ k <= Room
         /\ data' \in [0 .. PIPESIZE - 1 -> Bytes]
         /\ nwrite' \in 0 .. WORD - 1
         /\ Count' = Count + k
         /\ Contents' = Contents \o SubSeq(msg, 1, k)
<1>1. nread \in Int /\ nwrite \in Int /\ PIPESIZE \in Nat \ {0} /\ WORD \in Nat \ {0}
  BY PipeConstants DEF TypeOK
<1>2. Count \in 0 .. PIPESIZE /\ Contents \in Seq(Bytes) /\ Len(Contents) = Count
  BY ContentsBytes
<1>3. k \in 0 .. Len(msg) /\ k <= Room /\ k \in Nat /\ Count + k <= PIPESIZE
  BY <1>1, <1>2 DEF Room, SmallerOf
<1>4. /\ data' = [j \in 0 .. PIPESIZE - 1 |->
                    IF (j - nwrite) % PIPESIZE < k THEN msg[((j - nwrite) % PIPESIZE) + 1]
                    ELSE data[j]]
      /\ nwrite' = (nwrite + k) % WORD
  BY DEF PutBytes
<1>5. nwrite' \in 0 .. WORD - 1 /\ Count' = Count + k
  <2>1. nwrite + k \in Int
    BY <1>1, <1>3
  <2> QED  BY <1>1, <1>3, <1>4, <2>1, ModRange, CountUp, ZenonT(30) DEF Count
<1>6. data' \in [0 .. PIPESIZE - 1 -> Bytes]
  <2>1. ASSUME NEW j \in 0 .. PIPESIZE - 1
        PROVE  (j - nwrite) % PIPESIZE \in 0 .. PIPESIZE - 1
    BY <1>1, ModRange
  <2> QED  BY <1>3, <1>4, <2>1 DEF TypeOK
<1>7. ASSUME NEW i \in 1 .. Count + k
      PROVE  Contents'[i] = IF i <= Count THEN Contents[i] ELSE msg[i - Count]
  <2> DEFINE j == (nread + (i - 1)) % PIPESIZE
  <2>1. i - 1 \in Int /\ (i - 1) - Count \in Int /\ nread + (i - 1) \in Int
    BY <1>1, <1>2, <1>3
  <2>2. j \in 0 .. PIPESIZE - 1
    BY <1>1, <2>1, ModRange
  <2>3. (j - nwrite) % PIPESIZE = ((i - 1) - Count) % PIPESIZE
    BY <2>1, SlotDistance
  <2>4. Contents'[i] = data'[j]
    BY <1>1, <1>2, <1>3, <1>5 DEF Contents
  <2>5. CASE i <= Count
    <3>1. (i - 1) - Count \in -PIPESIZE .. -1
      BY <1>1, <1>2, <2>5
    <3>2. (j - nwrite) % PIPESIZE = ((i - 1) - Count) + PIPESIZE
      BY <1>1, <2>3, <3>1, ModBelow
    <3>3. ~ (j - nwrite) % PIPESIZE < k
      BY <1>1, <1>2, <1>3, <2>5, <3>2
    <3>4. data'[j] = data[j]
      BY <1>4, <2>2, <3>3
    <3>5. Contents[i] = data[j]
      BY <1>1, <1>2, <2>5 DEF Contents
    <3> QED  BY <2>4, <2>5, <3>4, <3>5
  <2>6. CASE ~ i <= Count
    <3>1. (i - 1) - Count \in 0 .. PIPESIZE - 1
      BY <1>1, <1>2, <1>3, <2>6
    <3>2. (j - nwrite) % PIPESIZE = (i - 1) - Count
      BY <1>1, <2>3, <3>1, ModSmall, ZenonT(30)
    <3>3. (j - nwrite) % PIPESIZE < k /\ ((j - nwrite) % PIPESIZE) + 1 = i - Count
      BY <1>1, <1>2, <1>3, <2>6, <3>2
    <3> QED  BY <1>4, <2>2, <2>4, <2>6, <3>3
  <2> QED  BY <2>5, <2>6
<1>8. Contents' \in Seq(Bytes) /\ Len(Contents') = Count + k
  <2>1. ASSUME NEW i \in 1 .. Count + k
        PROVE  (nread + i - 1) % PIPESIZE \in 0 .. PIPESIZE - 1
    <3>1. nread + i - 1 \in Int
      BY <1>1, <1>2, <1>3
    <3> QED  BY <1>1, <3>1, ModRange
  <2>2. Contents' \in [1 .. Count + k -> Bytes]
    BY <1>5, <1>6, <2>1 DEF Contents
  <2> QED  BY <1>2, <1>3, <2>2
<1>9. Contents' = Contents \o SubSeq(msg, 1, k)
  <2> DEFINE t == SubSeq(msg, 1, k)
  <2>1. t \in Seq(Bytes) /\ Len(t) = k
    BY <1>3
  <2>2. \A i \in 1 .. k : t[i] = msg[i]
    BY <1>3
  <2> HIDE DEF t
  <2>3. \A i \in 1 .. Len(Contents) : Contents'[i] = Contents[i]
    BY <1>2, <1>3, <1>7
  <2>4. ASSUME NEW i \in 1 .. k
        PROVE  Contents'[Len(Contents) + i] = t[i]
    <3>1. /\ Count + i \in 1 .. Count + k
          /\ ~ Count + i <= Count /\ (Count + i) - Count = i
      BY <1>2, <1>3
    <3> QED  BY <1>2, <1>7, <2>2, <3>1
  <2>5. Len(Contents') = Len(Contents) + Len(t)
    BY <1>2, <1>8, <2>1
  <2>6. \A i \in 1 .. Len(t) : Contents'[Len(Contents) + i] = t[i]
    BY <2>1, <2>4
  <2>7. Contents' = Contents \o t
    BY <1>2, <1>8, <2>1, <2>3, <2>5, <2>6, ConcatIs, ZenonT(30)
  <2> QED  BY <2>7 DEF t
<1> QED
  BY <1>3, <1>5, <1>6, <1>9

(* piperead() removes the first bytes. *)
LEMMA TakeRemoves ==
  ASSUME TypeOK, NEW k \in 0 .. Count,
         nread' = (nread + k) % WORD, nwrite' = nwrite, data' = data
  PROVE  /\ nread' \in 0 .. WORD - 1
         /\ Count' = Count - k
         /\ Contents' = SubSeq(Contents, k + 1, Count)
<1>1. nread \in Int /\ nwrite \in Int /\ PIPESIZE \in Nat \ {0} /\ WORD \in Nat \ {0}
  BY PipeConstants DEF TypeOK
<1>2. Count \in 0 .. PIPESIZE /\ Contents \in Seq(Bytes) /\ Len(Contents) = Count
  BY ContentsBytes
<1>3. k \in Nat /\ nread + k \in Int
  BY <1>1, <1>2
<1>4. nread' \in 0 .. WORD - 1 /\ Count' = Count - k
  BY <1>1, <1>3, ModRange, CountDown, ZenonT(30) DEF Count
<1>5. ASSUME NEW i \in 1 .. Count - k
      PROVE  data'[(nread' + i - 1) % PIPESIZE] = Contents[k + i]
  <2>1. /\ i - 1 \in Int /\ nread' \in Int /\ k + i \in 1 .. Count
        /\ (nread + k) + (i - 1) = nread + (k + i) - 1
        /\ nread' + i - 1 = nread' + (i - 1)
        /\ (nread + k) + (i - 1) \in Int /\ nread' + (i - 1) \in Int
    BY <1>1, <1>2, <1>3, <1>4
  <2>2. (nread' + (i - 1)) % PIPESIZE = ((nread + k) + (i - 1)) % PIPESIZE
    <3>1. nread' % PIPESIZE = (nread + k) % PIPESIZE
      BY PipeConstants, <1>1, <1>3, ModMod, ZenonT(30)
    <3>2. ((nread' % PIPESIZE) + (i - 1)) % PIPESIZE = (nread' + (i - 1)) % PIPESIZE
      BY <1>1, <2>1, ModSum, ZenonT(30)
    <3>3. (((nread + k) % PIPESIZE) + (i - 1)) % PIPESIZE = ((nread + k) + (i - 1)) % PIPESIZE
      BY <1>1, <1>3, <2>1, ModSum, ZenonT(30)
    <3> QED  BY <3>1, <3>2, <3>3
  <2>3. Contents[k + i] = data[(nread + (k + i) - 1) % PIPESIZE]
    BY <2>1, ContentsBytes
  <2> QED  BY <2>1, <2>2, <2>3
<1>6. Contents' = [i \in 1 .. Count - k |-> Contents[k + i]]
  BY <1>4, <1>5 DEF Contents
<1>7. SubSeq(Contents, k + 1, Count) = [i \in 1 .. Count - k |-> Contents[k + i]]
  <2> DEFINE s == Contents
  <2>1. s \in Seq(Bytes) /\ Len(s) = Count /\ Count \in Nat /\ k \in 0 .. Count
    BY <1>2
  <2> HIDE DEF s
  <2>2. SubSeq(s, k + 1, Count) = [i \in 1 .. Count - k |-> s[k + i]]
    BY <2>1
  <2> QED  BY <2>2 DEF s
<1> QED
  BY <1>4, <1>6, <1>7

-----------------------------------------------------------------------------
(* PipeSound is inductive. *)

(* What wakeup() does to the process states. *)
LEMMA Woken ==
  ASSUME TypeOK, NEW who
  PROVE  /\ Wakeup(pc, who) \in [Procs -> {"idle", "tosleep", "asleep", "woken"}]
         /\ \A q \in Procs : /\ q \in who => Wakeup(pc, who)[q] # "asleep"
                             /\ q \notin who => Wakeup(pc, who)[q] = pc[q]
                             /\ pc[q] # "asleep" => Wakeup(pc, who)[q] = pc[q]
                             /\ pc[q] = "asleep" => Wakeup(pc, who)[q] \in {"asleep", "woken"}
BY DEF TypeOK, Wakeup

(* pipealloc() leaves a sound pipe. *)
LEMMA InitSound == Init => PipeSound
<1> SUFFICES ASSUME Init PROVE PipeSound
  OBVIOUS
<1>1. Count = 0
  BY PipeConstants, ModSmall DEF Init, Count
<1>2. (CHOOSE b \in Bytes : TRUE) \in Bytes
  BY PipeConstants
<1>3. TypeOK
  BY PipeConstants, <1>1, <1>2 DEF Init, TypeOK, Procs
<1>4. CallInv
  BY PipeConstants DEF Init, CallInv, Procs, NoOne
<1>5. NoLostWakeup
  BY DEF Init, NoLostWakeup, Procs
<1> QED
  BY <1>3, <1>4, <1>5 DEF PipeSound

(* One round of pipewrite(), with what it leaves unwritten. *)
LEMMA WriteSound ==
  ASSUME PipeSound, NEW p \in Writers, NEW msg \in Seq(Bytes), msg # <<>>,
         p \in holders, pc[p] # "tosleep", WriteRound(p, msg)
  PROVE  PipeSound'
<1> DEFINE k == SmallerOf(Len(msg), Room)
           rest == Unwritten(msg)
<1>1. /\ TypeOK /\ CallInv /\ PutBytes(msg) /\ lock = NoOne /\ p \in Procs /\ p \notin Readers
      /\ nread' = nread /\ readopen' = readopen /\ writeopen' = writeopen
      /\ killed' = killed /\ holders' = holders
      /\ left' = [left EXCEPT ![p] = IF pc'[p] = "idle" THEN <<>> ELSE rest]
  BY PipeConstants, ZenonT(30) DEF PipeSound, WriteRound, Procs
<1>2. /\ k \in 0 .. Len(msg) /\ k <= Room /\ Count' = Count + k
      /\ data' \in [0 .. PIPESIZE - 1 -> Bytes] /\ nwrite' \in 0 .. WORD - 1
  BY <1>1, PutAppends
<1>3. rest \in Seq(Bytes) /\ (rest # <<>> => k = Room)
  BY <1>2 DEF Unwritten, SmallerOf
<1>4. Count \in 0 .. PIPESIZE /\ Count' \in 0 .. PIPESIZE /\ (rest # <<>> => Count' = PIPESIZE)
  <2>1. Count \in 0 .. PIPESIZE
    BY <1>1, ContentsBytes
  <2> QED  BY PipeConstants, <1>2, <1>3, <2>1 DEF Room
<1>5. /\ pc' \in [Procs -> {"idle", "tosleep", "asleep", "woken"}]
      /\ \A q \in Procs : q # p /\ pc'[q] # pc[q] =>
           q \in Readers /\ pc[q] = "asleep" /\ pc'[q] = "woken"
      /\ \/ pc'[p] = "idle" /\ lock' = NoOne
         \/ pc'[p] = "tosleep" /\ lock' = p /\ rest # <<>> /\ readopen
      /\ (\E q \in Readers : pc'[q] = "asleep") => ~readopen \/ killed[p]
  <2> DEFINE w == Wakeup(pc, Readers)
  <2>0. /\ w \in [Procs -> {"idle", "tosleep", "asleep", "woken"}]
        /\ \A q \in Procs : /\ q \in Readers => w[q] # "asleep"
                            /\ q \notin Readers => w[q] = pc[q]
                            /\ pc[q] # "asleep" => w[q] = pc[q]
                            /\ pc[q] = "asleep" => w[q] \in {"asleep", "woken"}
    BY <1>1, Woken, ZenonT(30)
  <2> HIDE DEF w
  <2>1. CASE rest = <<>>
    <3>1. pc' = [w EXCEPT ![p] = "idle"] /\ lock' = NoOne
      BY <1>1, <2>1, ZenonT(30) DEF WriteRound, w
    <3> QED  BY <1>1, <2>0, <3>1 DEF Procs
  <2>2. CASE rest # <<>> /\ (~readopen \/ killed[p])
    <3>1. pc' = [pc EXCEPT ![p] = "idle"] /\ lock' = NoOne
      BY <1>1, <2>2, ZenonT(30) DEF WriteRound
    <3> QED  BY <1>1, <2>2, <3>1 DEF TypeOK
  <2>3. CASE rest # <<>> /\ readopen /\ ~killed[p]
    <3>1. pc' = [w EXCEPT ![p] = "tosleep"] /\ lock' = p
      BY <2>3, ZenonT(30) DEF WriteRound, w
    <3> QED  BY <1>1, <2>0, <2>3, <3>1 DEF Procs
  <2> QED  BY <2>1, <2>2, <2>3
<1> HIDE DEF k, rest
<1>6. TypeOK'
  <2>1. /\ DOMAIN left' = Procs
        /\ \A q \in Writers : left'[q] \in Seq(Bytes)
        /\ \A q \in Readers : left'[q] \in 0 .. MaxN
    BY <1>1, <1>3 DEF TypeOK, Procs
  <2>2. lock' \in Procs \cup {NoOne}
    BY <1>1, <1>5
  <2>3. Count' <= PIPESIZE
    BY PipeConstants, <1>4
  <2> QED  BY <1>1, <1>2, <1>5, <2>1, <2>2, <2>3, ZenonT(30) DEF TypeOK
<1>7. CallInv'
  <2>1. \A q \in Procs : pc'[q] # "idle" => q \in holders'
    BY <1>1, <1>5 DEF CallInv
  <2>2. \A q \in Writers : left'[q] = <<>> <=> pc'[q] = "idle"
    BY <1>1, <1>5 DEF CallInv, TypeOK, Procs
  <2>3. \A q \in Readers : left'[q] = 0 <=> pc'[q] = "idle"
    BY <1>1, <1>5 DEF CallInv, TypeOK, Procs
  <2>4. \A q \in Procs : lock' = q <=> pc'[q] = "tosleep"
    BY PipeConstants, <1>1, <1>5 DEF CallInv
  <2>5. lock' \notin Readers /\ (lock' \in Writers => Count' = PIPESIZE /\ readopen')
    BY PipeConstants, <1>1, <1>4, <1>5 DEF Procs
  <2> QED  BY <1>1, <2>1, <2>2, <2>3, <2>4, <2>5, ZenonT(30) DEF CallInv
<1>8. NoLostWakeup' \/ \E q \in Writers : killed'[q]
  <2> SUFFICES ASSUME \A q \in Writers : ~killed'[q]
               PROVE  NoLostWakeup'
    OBVIOUS
  <2>1. NoLostWakeup /\ ~killed[p]
    BY <1>1, ZenonT(30) DEF PipeSound
  <2>2. \A q \in Readers : pc'[q] # "asleep"
    BY <1>1, <1>5, <2>1 DEF CallInv, Procs
  <2>3. ASSUME NEW q \in Writers, pc'[q] = "asleep"
        PROVE  Count' = PIPESIZE /\ readopen'
    <3>1. pc[q] = "asleep"
      BY PipeConstants, <1>5, <2>3 DEF Procs
    <3>2. Count = PIPESIZE /\ readopen
      BY <2>1, <3>1 DEF NoLostWakeup
    <3> QED  BY PipeConstants, <1>1, <1>2, <1>4, <3>2
  <2> QED  BY <2>2, <2>3 DEF NoLostWakeup
<1> QED
  BY <1>6, <1>7, <1>8 DEF PipeSound

(* One round of piperead(). *)
LEMMA ReadSound ==
  ASSUME PipeSound, NEW p \in Readers, NEW n \in 1 .. MaxN,
         p \in holders, pc[p] # "tosleep", ReadRound(p, n)
  PROVE  PipeSound'
<1>1. /\ TypeOK /\ CallInv /\ lock = NoOne /\ p \in Procs /\ p \notin Writers
      /\ data' = data /\ nwrite' = nwrite /\ readopen' = readopen /\ writeopen' = writeopen
      /\ killed' = killed /\ holders' = holders
  BY PipeConstants, ZenonT(30) DEF PipeSound, ReadRound, Procs
<1>2. /\ nread' \in 0 .. WORD - 1 /\ Count' <= PIPESIZE
      /\ pc' \in [Procs -> {"idle", "tosleep", "asleep", "woken"}]
      /\ \A q \in Procs : q # p /\ pc'[q] # pc[q] =>
           q \in Writers /\ pc[q] = "asleep" /\ pc'[q] = "woken"
      /\ \/ pc'[p] = "idle" /\ lock' = NoOne /\ left' = [left EXCEPT ![p] = 0]
         \/ pc'[p] = "tosleep" /\ lock' = p /\ left' = [left EXCEPT ![p] = n]
            /\ nread' = nwrite' /\ writeopen
      /\ \/ nread' = nread
         \/ ~(nread = nwrite /\ writeopen) /\ \A q \in Writers : pc'[q] # "asleep"
  <2>1. CASE nread = nwrite /\ writeopen
    <3>1. nread' = nread
      BY <2>1, ZenonT(30) DEF ReadRound
    <3>2. \/ pc' = [pc EXCEPT ![p] = "idle"] /\ lock' = NoOne /\ left' = [left EXCEPT ![p] = 0]
          \/ pc' = [pc EXCEPT ![p] = "tosleep"] /\ lock' = p /\ left' = [left EXCEPT ![p] = n]
      BY <1>1, <2>1, ZenonT(30) DEF ReadRound
    <3>3. Count' = Count
      BY <1>1, <3>1 DEF Count
    <3> QED  BY <1>1, <2>1, <3>1, <3>2, <3>3 DEF TypeOK
  <2>2. CASE ~(nread = nwrite /\ writeopen)
    <3> DEFINE w == Wakeup(pc, Writers)
               k == SmallerOf(n, Count)
    <3>1. /\ nread' = (nread + k) % WORD /\ lock' = NoOne
          /\ pc' = [w EXCEPT ![p] = "idle"] /\ left' = [left EXCEPT ![p] = 0]
      BY <1>1, <2>2, ZenonT(30) DEF ReadRound
    <3>2. k \in 0 .. Count /\ Count \in 0 .. PIPESIZE
      BY PipeConstants, <1>1, ContentsBytes DEF SmallerOf
    <3>3. nread' \in 0 .. WORD - 1 /\ Count' <= PIPESIZE
      <4>1. nread' \in 0 .. WORD - 1 /\ Count' = Count - k
        BY <1>1, <3>1, <3>2, TakeRemoves
      <4> QED  BY PipeConstants, <3>2, <4>1
    <3>4. /\ w \in [Procs -> {"idle", "tosleep", "asleep", "woken"}]
          /\ \A q \in Procs : /\ q \in Writers => w[q] # "asleep"
                              /\ q \notin Writers => w[q] = pc[q]
                              /\ pc[q] # "asleep" => w[q] = pc[q]
                              /\ pc[q] = "asleep" => w[q] \in {"asleep", "woken"}
      BY <1>1, Woken, ZenonT(30)
    <3> HIDE DEF w, k
    <3> QED  BY <1>1, <2>2, <3>1, <3>3, <3>4 DEF Procs
  <2> QED  BY <2>1, <2>2
<1>3. TypeOK'
  <2>1. /\ DOMAIN left' = Procs
        /\ \A q \in Writers : left'[q] \in Seq(Bytes)
        /\ \A q \in Readers : left'[q] \in 0 .. MaxN
    <3>1. DOMAIN left = Procs /\ p \in Procs /\ p \notin Writers
          /\ (\A q \in Writers : left[q] \in Seq(Bytes)) /\ (\A q \in Readers : left[q] \in 0 .. MaxN)
      BY PipeConstants, <1>1, ZenonT(30) DEF TypeOK, Procs
    <3>2. PICK x \in 0 .. MaxN : left' = [left EXCEPT ![p] = x]
      BY PipeConstants, <1>1, <1>2
    <3>3. \A q \in Procs : left'[q] = IF q = p THEN x ELSE left[q]
      BY <3>1, <3>2, ZenonT(30)
    <3> QED  BY <3>1, <3>2, <3>3, ZenonT(30) DEF Procs
  <2>2. lock' \in Procs \cup {NoOne}
    BY <1>1, <1>2
  <2> QED  BY <1>1, <1>2, <2>1, <2>2, ZenonT(30) DEF TypeOK
<1>4. CallInv'
  <2>1. \A q \in Procs : pc'[q] # "idle" => q \in holders'
    BY <1>1, <1>2 DEF CallInv
  <2>2. \A q \in Writers : left'[q] = <<>> <=> pc'[q] = "idle"
    BY <1>1, <1>2 DEF CallInv, TypeOK, Procs
  <2>3. \A q \in Readers : left'[q] = 0 <=> pc'[q] = "idle"
    BY PipeConstants, <1>1, <1>2 DEF CallInv, TypeOK, Procs
  <2>4. \A q \in Procs : lock' = q <=> pc'[q] = "tosleep"
    BY PipeConstants, <1>1, <1>2 DEF CallInv
  <2>5. lock' \notin Writers /\ (lock' \in Readers => nread' = nwrite' /\ writeopen')
    BY PipeConstants, <1>1, <1>2 DEF Procs
  <2> QED  BY <1>1, <2>1, <2>2, <2>3, <2>4, <2>5, ZenonT(30) DEF CallInv
<1>5. NoLostWakeup' \/ \E q \in Writers : killed'[q]
  <2> SUFFICES ASSUME \A q \in Writers : ~killed'[q]
               PROVE  NoLostWakeup'
    OBVIOUS
  <2>1. NoLostWakeup
    BY <1>1, ZenonT(30) DEF PipeSound
  <2>2. ASSUME NEW q \in Readers, pc'[q] = "asleep"
        PROVE  nread' = nwrite' /\ writeopen'
    <3>1. pc[q] = "asleep"
      BY PipeConstants, <1>2, <2>2 DEF Procs
    <3> QED  BY <1>1, <1>2, <2>1, <3>1 DEF NoLostWakeup
  <2>3. ASSUME NEW q \in Writers, pc'[q] = "asleep"
        PROVE  Count' = PIPESIZE /\ readopen'
    <3>1. nread' = nread /\ Count' = Count
      BY <1>1, <1>2, <2>3 DEF Count
    <3>2. pc[q] = "asleep"
      BY <1>1, <1>2, <2>3 DEF Procs
    <3> QED  BY <1>1, <2>1, <3>1, <3>2 DEF NoLostWakeup
  <2> QED  BY <2>2, <2>3 DEF NoLostWakeup
<1> QED
  BY <1>3, <1>4, <1>5 DEF PipeSound

(* sleep() puts to sleep a process whose test still holds. *)
LEMMA SleepSound ==
  ASSUME PipeSound, NEW p \in Procs, sleep(p)
  PROVE  PipeSound'
<1>1. /\ TypeOK /\ CallInv /\ pc[p] = "tosleep" /\ lock = p /\ lock' = NoOne
      /\ pc' = [pc EXCEPT ![p] = "asleep"] /\ left' = left
      /\ data' = data /\ nread' = nread /\ nwrite' = nwrite
      /\ readopen' = readopen /\ writeopen' = writeopen
      /\ killed' = killed /\ holders' = holders
  BY ZenonT(30) DEF PipeSound, CallInv, sleep, pipeVars
<1>2. Count' = Count
  BY <1>1 DEF Count
<1>3. TypeOK'
  BY <1>1, <1>2 DEF TypeOK
<1>4. CallInv'
  BY PipeConstants, <1>1, <1>2 DEF CallInv, TypeOK, Procs
<1>5. NoLostWakeup' \/ \E q \in Writers : killed'[q]
  <2>1. NoLostWakeup \/ \E q \in Writers : killed'[q]
    BY <1>1, ZenonT(30) DEF PipeSound
  <2>2. NoLostWakeup => NoLostWakeup'
    BY <1>1, <1>2 DEF CallInv, TypeOK, NoLostWakeup, Procs
  <2> QED  BY <2>1, <2>2
<1> QED
  BY <1>3, <1>4, <1>5 DEF PipeSound

(* kill() wakes its victim and changes nothing else. *)
LEMMA KillSound ==
  ASSUME PipeSound, NEW p \in Procs, kill(p)
  PROVE  PipeSound'
<1> DEFINE w == Wakeup(pc, {p})
<1>1. /\ TypeOK /\ CallInv /\ lock' = lock /\ pc' = w /\ left' = left
      /\ data' = data /\ nread' = nread /\ nwrite' = nwrite
      /\ readopen' = readopen /\ writeopen' = writeopen /\ holders' = holders
      /\ killed' = [killed EXCEPT ![p] = TRUE]
  BY ZenonT(30) DEF PipeSound, CallInv, kill, pipeVars
<1>2. Count' = Count
  BY <1>1 DEF Count
<1>3. /\ w \in [Procs -> {"idle", "tosleep", "asleep", "woken"}]
      /\ \A q \in Procs : /\ pc[q] # "asleep" => w[q] = pc[q]
                          /\ pc[q] = "asleep" => w[q] \in {"asleep", "woken"}
  BY <1>1, Woken, ZenonT(30)
<1>4. killed' \in [Procs -> BOOLEAN] /\ \A q \in Procs : killed[q] => killed'[q]
  BY <1>1, ZenonT(30) DEF TypeOK
<1> HIDE DEF w
<1>5. TypeOK'
  BY <1>1, <1>2, <1>3, <1>4, ZenonT(30) DEF TypeOK
<1>6. CallInv'
  BY <1>1, <1>2, <1>3 DEF CallInv, Procs
<1>7. NoLostWakeup' \/ \E q \in Writers : killed'[q]
  <2>1. NoLostWakeup \/ \E q \in Writers : killed'[q]
    BY <1>4, ZenonT(30) DEF PipeSound, Procs
  <2>2. NoLostWakeup => NoLostWakeup'
    BY <1>1, <1>2, <1>3 DEF NoLostWakeup, Procs
  <2> QED  BY <2>1, <2>2
<1> QED
  BY <1>5, <1>6, <1>7 DEF PipeSound

(* pipeclose() by the last holder of an end wakes those who wait at the      *)
(* other.                                                                    *)
LEMMA CloseSound ==
  ASSUME PipeSound, NEW p \in Procs, pipeclose(p)
  PROVE  PipeSound'
<1>1. /\ TypeOK /\ CallInv /\ lock = NoOne /\ lock' = NoOne /\ left' = left
      /\ data' = data /\ nread' = nread /\ nwrite' = nwrite
      /\ p \in holders /\ pc[p] = "idle" /\ holders' = holders \ {p} /\ killed' = killed
  BY ZenonT(30) DEF PipeSound, pipeclose
<1>2. Count' = Count
  BY <1>1 DEF Count
<1>3. /\ pc' \in [Procs -> {"idle", "tosleep", "asleep", "woken"}]
      /\ \A q \in Procs : pc'[q] # pc[q] => pc[q] = "asleep" /\ pc'[q] = "woken"
      /\ readopen' \in BOOLEAN /\ writeopen' \in BOOLEAN
      /\ \/ readopen' = readopen
         \/ ~readopen' /\ holders' \cap Readers = {} /\ \A q \in Writers : pc'[q] # "asleep"
      /\ \/ writeopen' = writeopen
         \/ ~writeopen' /\ holders' \cap Writers = {} /\ \A q \in Readers : pc'[q] # "asleep"
  <2>1. CASE holders' \cap Writers = {} /\ p \in Writers
    <3>1. writeopen' = FALSE /\ pc' = Wakeup(pc, Readers) /\ readopen' = readopen
      BY <2>1, ZenonT(30) DEF pipeclose
    <3>2. /\ pc' \in [Procs -> {"idle", "tosleep", "asleep", "woken"}]
          /\ \A q \in Procs : /\ q \in Readers => pc'[q] # "asleep"
                              /\ pc[q] # "asleep" => pc'[q] = pc[q]
                              /\ pc[q] = "asleep" => pc'[q] \in {"asleep", "woken"}
      BY <1>1, <3>1, Woken, ZenonT(30)
    <3>3. \A q \in Procs : pc'[q] # pc[q] => pc[q] = "asleep" /\ pc'[q] = "woken"
      BY <3>2
    <3> QED  BY <1>1, <2>1, <3>1, <3>2, <3>3, ZenonT(30) DEF TypeOK, Procs
  <2>2. CASE ~(holders' \cap Writers = {} /\ p \in Writers) /\ holders' \cap Readers = {} /\ p \in Readers
    <3>1. readopen' = FALSE /\ pc' = Wakeup(pc, Writers) /\ writeopen' = writeopen
      BY <2>2, ZenonT(30) DEF pipeclose
    <3>2. /\ pc' \in [Procs -> {"idle", "tosleep", "asleep", "woken"}]
          /\ \A q \in Procs : /\ q \in Writers => pc'[q] # "asleep"
                              /\ pc[q] # "asleep" => pc'[q] = pc[q]
                              /\ pc[q] = "asleep" => pc'[q] \in {"asleep", "woken"}
      BY <1>1, <3>1, Woken, ZenonT(30)
    <3>3. \A q \in Procs : pc'[q] # pc[q] => pc[q] = "asleep" /\ pc'[q] = "woken"
      BY <3>2, SMTT(30)
    <3> QED  BY <1>1, <2>2, <3>1, <3>2, <3>3, ZenonT(30) DEF TypeOK, Procs
  <2>3. CASE ~(holders' \cap Writers = {} /\ p \in Writers) /\ ~(holders' \cap Readers = {} /\ p \in Readers)
    <3>1. UNCHANGED <<readopen, writeopen, pc>>
      BY <2>3, ZenonT(30) DEF pipeclose
    <3> QED  BY <1>1, <3>1 DEF TypeOK
  <2> QED  BY <2>1, <2>2, <2>3, ZenonT(30)
<1>4. TypeOK'
  BY <1>1, <1>2, <1>3, ZenonT(30) DEF TypeOK
<1>5. CallInv'
  BY PipeConstants, <1>1, <1>2, <1>3 DEF CallInv, TypeOK, Procs
<1>6. NoLostWakeup' \/ \E q \in Writers : killed'[q]
  <2>1. NoLostWakeup \/ \E q \in Writers : killed'[q]
    BY <1>1, ZenonT(30) DEF PipeSound
  <2>2. NoLostWakeup => NoLostWakeup'
    BY <1>1, <1>2, <1>3 DEF NoLostWakeup, Procs
  <2> QED  BY <2>1, <2>2
<1> QED
  BY <1>4, <1>5, <1>6 DEF PipeSound

(* A call's first round, or one after a sleep(). *)
LEMMA WriterCases ==
  ASSUME PipeSound, NEW p \in Writers, WriterStep(p)
  PROVE  \E msg \in Seq(Bytes) :
           /\ msg # <<>> /\ p \in holders /\ pc[p] # "tosleep" /\ WriteRound(p, msg)
           /\ \/ left[p] = <<>> /\ \E n \in 1 .. MaxN : msg \in [1 .. n -> Bytes]
              \/ left[p] # <<>> /\ msg = left[p]
<1>1. CASE pipewrite(p)
  <2>1. PICK n \in 1 .. MaxN : \E msg \in [1 .. n -> Bytes] : WriteRound(p, msg)
    BY <1>1, ZenonT(30) DEF pipewrite
  <2>2. PICK msg \in [1 .. n -> Bytes] : WriteRound(p, msg)
    BY <2>1
  <2>3. msg \in Seq(Bytes) /\ msg # <<>>
    BY PipeConstants
  <2>4. p \in holders /\ pc[p] = "idle" /\ left[p] = <<>>
    BY <1>1, ZenonT(30) DEF pipewrite, PipeSound, CallInv
  <2> QED  BY <2>2, <2>3, <2>4
<1>2. CASE pipewrite_woken(p)
  <2>1. pc[p] = "woken" /\ WriteRound(p, left[p])
    BY <1>2, ZenonT(30) DEF pipewrite_woken
  <2>2. left[p] \in Seq(Bytes) /\ left[p] # <<>> /\ p \in holders
    BY <2>1 DEF PipeSound, TypeOK, CallInv, Procs
  <2> QED  BY <2>1, <2>2
<1> QED
  BY <1>1, <1>2 DEF WriterStep

(* A reader enters piperead() or goes on in it. *)
LEMMA ReaderCases ==
  ASSUME PipeSound, NEW p \in Readers, ReaderStep(p)
  PROVE  p \in holders /\ pc[p] # "tosleep" /\ \E n \in 1 .. MaxN : ReadRound(p, n)
<1>1. CASE piperead(p)
  BY <1>1, ZenonT(30) DEF piperead
<1>2. CASE piperead_woken(p)
  <2>1. pc[p] = "woken" /\ ReadRound(p, left[p])
    BY <1>2, ZenonT(30) DEF piperead_woken
  <2>2. left[p] \in 1 .. MaxN /\ p \in holders
    BY PipeConstants, <2>1 DEF PipeSound, TypeOK, CallInv, Procs
  <2> QED  BY <2>1, <2>2
<1> QED
  BY <1>1, <1>2 DEF ReaderStep

(* Every step keeps the pipe sound. *)
LEMMA NextSound == PipeSound /\ [Next]_vars => PipeSound'
<1> SUFFICES ASSUME PipeSound, [Next]_vars PROVE PipeSound'
  OBVIOUS
<1>1. ASSUME NEW p \in Writers, WriterStep(p) PROVE PipeSound'
  BY <1>1, WriterCases, WriteSound
<1>2. ASSUME NEW p \in Readers, ReaderStep(p) PROVE PipeSound'
  BY <1>2, ReaderCases, ReadSound
<1>3. ASSUME NEW p \in Procs, sleep(p) \/ pipeclose(p) \/ kill(p) PROVE PipeSound'
  BY <1>3, SleepSound, CloseSound, KillSound
<1>4. CASE UNCHANGED vars
  BY <1>4, ZenonT(30) DEF vars, PipeSound, TypeOK, CallInv, NoLostWakeup, Count
<1> QED
  BY <1>1, <1>2, <1>3, <1>4, ZenonT(30) DEF Next

(* PipeSound holds of every pipe, whatever the numbers of its readers and    *)
(* writers, its size and the width of its counters: at every point of        *)
(* piperead(), pipewrite() and pipeclose() the counters, the flags and the   *)
(* calls agree, and until a writer is killed nobody sleeps on a condition    *)
(* that has changed.                                                         *)
THEOREM PipeInvariance == SafetySpec => []PipeSound
<1>1. Init => PipeSound
  BY InitSound
<1>2. PipeSound /\ [Next]_vars => PipeSound'
  BY NextSound
<1> QED
  BY <1>1, <1>2, PTL DEF SafetySpec

-----------------------------------------------------------------------------
(* Every step of the pipe is a step of ByteQueue. *)

(* A round of pipewrite() appends to the queue. *)
LEMMA WriteIsPut ==
  ASSUME PipeSound, NEW p \in Writers, WriterStep(p)
  PROVE  Queue!Put(p)
<1>1. PICK msg \in Seq(Bytes) :
        /\ msg # <<>> /\ p \in holders /\ pc[p] # "tosleep" /\ WriteRound(p, msg)
        /\ \/ left[p] = <<>> /\ \E n \in 1 .. MaxN : msg \in [1 .. n -> Bytes]
           \/ left[p] # <<>> /\ msg = left[p]
  BY WriterCases
<1> DEFINE k == SmallerOf(Len(msg), Room)
           pend == [q \in Writers |-> left[q]]
           rest == SubSeq(msg, k + 1, Len(msg))
<1>2. /\ TypeOK /\ CallInv /\ PutBytes(msg) /\ p \in Procs /\ nread' = nread
      /\ readopen' = readopen /\ writeopen' = writeopen /\ delivered' = <<>>
      /\ left' = [left EXCEPT ![p] = IF pc'[p] = "idle" THEN <<>> ELSE rest]
  BY <1>1, ZenonT(30) DEF PipeSound, WriteRound, Unwritten, Procs
<1>3. /\ k \in 0 .. Len(msg) /\ Count' = Count + k
      /\ Contents' = Contents \o SubSeq(msg, 1, k)
  BY <1>2, PutAppends
<1>4. Count \in 0 .. PIPESIZE /\ Len(Contents) = Count /\ (rest # <<>> => k = Room)
  BY <1>2, <1>3, ContentsBytes DEF SmallerOf
<1>5. Len(Contents) + k <= PIPESIZE /\ (rest # <<>> => Len(Contents') = PIPESIZE)
  <2>1. k <= Room /\ Len(SubSeq(msg, 1, k)) = k /\ SubSeq(msg, 1, k) \in Seq(Bytes)
    BY <1>2, <1>3, PutAppends
  <2>2. Contents \in Seq(Bytes)
    BY <1>2, ContentsBytes
  <2>3. Len(Contents') = Len(Contents) + Len(SubSeq(msg, 1, k))
    BY <1>3, <2>1, <2>2
  <2> QED  BY PipeConstants, <1>3, <1>4, <2>1, <2>3 DEF Room
<1> HIDE DEF k, rest
<1>6. \/ [q \in Writers |-> left'[q]] = [pend EXCEPT ![p] = rest]
      \/ /\ Len(Contents') = PIPESIZE
         /\ [q \in Writers |-> left'[q]] = [pend EXCEPT ![p] = <<>>]
  <2>1. CASE rest = <<>> \/ pc'[p] # "idle"
    <3>1. \A q \in Writers : left'[q] = IF q = p THEN rest ELSE left[q]
      BY <1>2, <2>1 DEF TypeOK, Procs
    <3> QED  BY <3>1, ZenonT(30)
  <2>2. CASE rest # <<>> /\ pc'[p] = "idle"
    <3>1. \A q \in Writers : left'[q] = IF q = p THEN <<>> ELSE left[q]
      BY <1>2, <2>2 DEF TypeOK, Procs
    <3> QED  BY <1>5, <2>2, <3>1, ZenonT(30)
  <2> QED  BY <2>1, <2>2
<1>7. msg \in IF pend[p] = <<>> THEN Queue!Messages ELSE {pend[p]}
  BY <1>1 DEF Queue!Messages
<1>8. writeopen
  BY <1>1, <1>2 DEF CallInv
<1> QED
  BY <1>2, <1>3, <1>5, <1>6, <1>7, <1>8, ZenonT(30) DEF Queue!Put, rest

(* A round of piperead() delivers bytes or prepares to sleep. *)
LEMMA ReadIsTake ==
  ASSUME PipeSound, NEW p \in Readers, ReaderStep(p)
  PROVE  Queue!Take \/ Queue!Idle
<1>1. PICK n \in 1 .. MaxN : ReadRound(p, n)
  BY ReaderCases
<1>2. /\ TypeOK /\ CallInv /\ p \in holders /\ p \notin Writers
      /\ data' = data /\ nwrite' = nwrite
      /\ readopen' = readopen /\ writeopen' = writeopen
  BY PipeConstants, <1>1, ReaderCases, ZenonT(30) DEF PipeSound, ReadRound
<1>3. \E m : left' = [left EXCEPT ![p] = m]
  BY <1>1, ZenonT(30) DEF ReadRound
<1>4. [q \in Writers |-> left'[q]] = [q \in Writers |-> left[q]]
  BY <1>2, <1>3 DEF TypeOK, Procs
<1>5. CASE nread = nwrite /\ writeopen
  <2>1. nread' = nread /\ delivered' = <<>>
    BY <1>1, <1>5, ZenonT(30) DEF ReadRound
  <2>2. Contents' = Contents
    BY <1>2, <2>1 DEF Contents, Count
  <2> QED  BY <1>2, <1>4, <2>1, <2>2, ZenonT(30) DEF Queue!Idle
<1>6. CASE ~(nread = nwrite /\ writeopen)
  <2> DEFINE k == SmallerOf(n, Count)
  <2>1. nread' = (nread + k) % WORD /\ delivered' = SubSeq(Contents, 1, k)
    BY <1>1, <1>6, ZenonT(30) DEF ReadRound
  <2>2. Count \in 0 .. PIPESIZE /\ Contents \in Seq(Bytes) /\ Len(Contents) = Count
    BY <1>2, ContentsBytes
  <2>3. k \in 0 .. Len(Contents) /\ (k = 0 => Count = 0)
    BY PipeConstants, <2>2 DEF SmallerOf
  <2>4. Contents' = SubSeq(Contents, k + 1, Len(Contents))
    BY <1>2, <2>1, <2>2, <2>3, TakeRemoves
  <2>5. k = 0 => Contents = <<>> /\ ~writeopen
    <3>1. Count = 0 => Contents = <<>>
      BY <2>2
    <3> QED  BY <1>2, <1>6, <2>3, <3>1, EmptyCount
  <2>6. readopen
    BY <1>2 DEF CallInv
  <2> HIDE DEF k
  <2> QED  BY <1>2, <1>4, <2>1, <2>3, <2>4, <2>5, <2>6, ZenonT(30) DEF Queue!Take
<1> QED
  BY <1>5, <1>6

(* pipeclose() closes an end, or one of several holders lets go of it. *)
LEMMA CloseIsClose ==
  ASSUME PipeSound, NEW p \in Procs, pipeclose(p)
  PROVE  Queue!Close \/ Queue!Idle
<1>1. /\ CallInv /\ p \in holders /\ Contents' = Contents
      /\ [q \in Writers |-> left'[q]] = [q \in Writers |-> left[q]] /\ delivered' = <<>>
  BY ZenonT(30) DEF PipeSound, pipeclose, Contents, Count
<1>2. (p \in Readers => readopen) /\ (p \in Writers => writeopen)
  BY <1>1 DEF CallInv
<1>3. \/ p \in Writers /\ writeopen' = FALSE /\ UNCHANGED readopen
      \/ p \in Readers /\ readopen' = FALSE /\ UNCHANGED writeopen
      \/ UNCHANGED <<readopen, writeopen>>
  BY ZenonT(30) DEF pipeclose
<1> QED
  BY <1>1, <1>2, <1>3, ZenonT(30) DEF Queue!Close, Queue!Idle

(* A new pipe is an empty queue. *)
LEMMA InitQueue == Init => Queue!Init
<1> SUFFICES ASSUME Init PROVE Queue!Init
  OBVIOUS
<1>1. Count = 0 /\ Contents = <<>>
  <2>1. Count = 0
    BY PipeConstants, ModSmall, SMTT(30) DEF Init, Count
  <2> QED  BY <2>1 DEF Contents
<1>2. [q \in Writers |-> left[q]] = [q \in Writers |-> <<>>]
  BY DEF Init, Procs
<1> QED
  BY <1>1, <1>2 DEF Init, Queue!Init

(* The pipe implements the bounded queue: through all interleavings, wraps   *)
(* of the counters and reuses of the slots, every byte written is read once  *)
(* and in order, and a read returns no bytes only at the end of the file.    *)
THEOREM PipeRefinesQueue == SafetySpec => PipeIsQueue
<1>1. Init => Queue!Init
  BY InitQueue
<1>2. PipeSound /\ [Next]_vars => [Queue!Next]_(Queue!qvars)
  <2> SUFFICES ASSUME PipeSound, [Next]_vars PROVE [Queue!Next]_(Queue!qvars)
    OBVIOUS
  <2>1. ASSUME NEW p \in Writers, WriterStep(p) PROVE Queue!Next
    BY <2>1, WriteIsPut DEF Queue!Next
  <2>2. ASSUME NEW p \in Readers, ReaderStep(p) PROVE Queue!Next
    BY <2>2, ReadIsTake DEF Queue!Next
  <2>3. ASSUME NEW p \in Procs, sleep(p) \/ kill(p) PROVE Queue!Next
    BY <2>3, ZenonT(30) DEF sleep, kill, pipeVars, Contents, Count, Queue!Idle, Queue!Next
  <2>4. ASSUME NEW p \in Procs, pipeclose(p) PROVE Queue!Next
    BY <2>4, CloseIsClose DEF Queue!Next
  <2>5. CASE UNCHANGED vars
    BY <2>5, ZenonT(30) DEF vars, Contents, Count, Queue!qvars
  <2> QED  BY <2>1, <2>2, <2>3, <2>4, <2>5, ZenonT(30) DEF Next
<1> QED
  BY <1>1, <1>2, PipeInvariance, PTL DEF SafetySpec, PipeIsQueue, Queue!Spec
=============================================================================
