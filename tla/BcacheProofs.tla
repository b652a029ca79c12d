---------------------------- MODULE BcacheProofs ----------------------------
(***************************************************************************)
(* Proofs about Bcache, for any number of processes, blocks and buffers:   *)
(* BuffersSound, which is inductive, and CacheIsStore by forward           *)
(* simulation.  There is one lemma per action.                             *)
(***************************************************************************)
EXTENDS Bcache, TLAPS

(* BuffersSound without what it says of a panic. *)
Core ==
  /\ TypeOK /\ OneHolder /\ QueueSound /\ HolderInv /\ FlagInv
  /\ ReadErrors \/ ValidMatchesDisk

-----------------------------------------------------------------------------
(* The steps. *)

(* Steps of a process that has no buffer and gets none: bread() and bget()   *)
(* going to sleep.                                                           *)
LEMMA NotHolding ==
  ASSUME Core, NEW p \in Procs, NEW k \in Blocks, NEW x \in {"bget", "bget_asleep", "panic"},
         NEW c \in Bufs \cup {NoBuf},
         pc[p] \in {"idle", "bget"}, pc' = [pc EXCEPT ![p] = x],
         want' = [want EXCEPT ![p] = k], buf' = [buf EXCEPT ![p] = c],
         UNCHANGED <<lru, blockno, busy, valid, dirty, data, idequeue, irq, disk>>
  PROVE  Core'
<1>1. UNCHANGED <<lru, blockno, busy, valid, dirty, data, idequeue, irq, disk>>
  OBVIOUS
<1>2. TypeOK'
  BY DEF Core, TypeOK
<1>3. \A q \in Procs : pc'[q] # "idle" => want'[q] \in Blocks
  BY DEF Core, TypeOK, HolderInv
<1>4. /\ ~Holds(p) /\ ~Holds(p)' /\ pc[p] \notin {"use", "rw", "rw_asleep", "rw_woken"}
      /\ pc'[p] \notin {"use", "rw", "rw_asleep", "rw_woken"}
      /\ \A q \in Procs : q # p => pc'[q] = pc[q] /\ buf'[q] = buf[q] /\ want'[q] = want[q]
  BY DEF Core, TypeOK, Holds
<1>5. \A q \in Procs : /\ Holds(q)' <=> Holds(q)
                       /\ Holds(q) => buf'[q] = buf[q] /\ want'[q] = want[q] /\ pc'[q] = pc[q]
                       /\ pc'[q] = "use" => pc[q] = "use" /\ Holds(q)
                       /\ pc'[q] = "rw" => pc[q] = "rw" /\ Holds(q)
  BY <1>4, ZenonT(30) DEF Holds
<1>6. OneHolder'
  BY <1>1, <1>5 DEF Core, OneHolder
<1>7. QueueSound'
  BY <1>1, <1>4 DEF Core, QueueSound
<1>8. HolderInv'
  BY <1>1, <1>3, <1>5 DEF Core, HolderInv, Done
<1>9. FlagInv'
  BY <1>1 DEF Core, FlagInv, Done
<1>10. ReadErrors \/ ValidMatchesDisk'
  BY <1>1, ZenonT(30) DEF Core, ValidMatchesDisk
<1> QED
  BY <1>2, <1>6, <1>7, <1>8, <1>9, <1>10 DEF Core

(* bread() is called. *)
LEMMA bread_core ==
  ASSUME Core, NEW p \in Procs, NEW k \in Blocks, bread(p, k)
  PROVE  Core'
<1>1. /\ pc[p] = "idle" /\ pc' = [pc EXCEPT ![p] = "bget"]
      /\ want' = [want EXCEPT ![p] = k] /\ buf' = buf
      /\ UNCHANGED <<lru, blockno, busy, valid, dirty, data, idequeue, irq, disk>>
  BY ZenonT(30) DEF bread, bufVars
<1>2. buf' = [buf EXCEPT ![p] = buf[p]] /\ buf[p] \in Bufs \cup {NoBuf}
  BY <1>1 DEF Core, TypeOK
<1> QED
  BY <1>1, <1>2, NotHolding, ZenonT(30)

(* bget() finds its block in use. *)
LEMMA bget_sleep_core ==
  ASSUME Core, NEW p \in Procs, bget_sleep(p)
  PROVE  Core'
<1>1. PICK b \in Cached(want[p]) :
        buf' = [buf EXCEPT ![p] = b] /\ pc' = [pc EXCEPT ![p] = "bget_asleep"]
  BY ZenonT(30) DEF bget_sleep
<1>2. /\ pc[p] = "bget"
      /\ UNCHANGED <<lru, blockno, busy, valid, dirty, data, idequeue, irq, disk, want>>
  BY ZenonT(30) DEF bget_sleep, bufVars
<1>3. want' = [want EXCEPT ![p] = want[p]] /\ want[p] \in Blocks /\ b \in Bufs \cup {NoBuf}
  BY <1>2 DEF Core, TypeOK, HolderInv, Cached
<1> QED
  BY <1>1, <1>2, <1>3, NotHolding, ZenonT(30)

(* bget() finds no buffer to recycle. *)
LEMMA bget_panic_core ==
  ASSUME Core, NEW p \in Procs, bget_panic(p)
  PROVE  Core'
<1>1. /\ pc[p] = "bget" /\ pc' = [pc EXCEPT ![p] = "panic"] /\ buf' = buf
      /\ UNCHANGED <<lru, blockno, busy, valid, dirty, data, idequeue, irq, disk, want>>
  BY ZenonT(30) DEF bget_panic, bufVars
<1>2. /\ want' = [want EXCEPT ![p] = want[p]] /\ want[p] \in Blocks
      /\ buf' = [buf EXCEPT ![p] = buf[p]] /\ buf[p] \in Bufs \cup {NoBuf}
  BY <1>1 DEF Core, TypeOK, HolderInv
<1> QED
  BY <1>1, <1>2, NotHolding, ZenonT(30)

(* bget() gets the buffer of a cached block. *)
LEMMA bget_hit_core ==
  ASSUME Core, NEW p \in Procs, bget_hit(p)
  PROVE  Core'
<1>1. PICK b \in Cached(want[p]) :
        /\ ~busy[b] /\ busy' = [busy EXCEPT ![b] = TRUE]
        /\ buf' = [buf EXCEPT ![p] = b] /\ pc' = [pc EXCEPT ![p] = AfterBget(b)]
  BY ZenonT(30) DEF bget_hit, Free
<1>2. /\ pc[p] = "bget" /\ b \in Bufs /\ blockno[b] = want[p]
      /\ UNCHANGED <<lru, blockno, valid, dirty, data, idequeue, irq, disk, want>>
  BY ZenonT(30) DEF bget_hit, Cached
<1>3. want[p] \in Blocks /\ \A q \in Procs : ~(Holds(q) /\ buf[q] = b)
  BY <1>1, <1>2, ZenonT(30) DEF Core, HolderInv, OneHolder
<1>4. /\ busy' \in [Bufs -> BOOLEAN] /\ busy'[b]
      /\ \A c \in Bufs : c # b => (busy'[c] <=> busy[c])
  BY <1>1, <1>2, ZenonT(30) DEF Core, TypeOK
<1>5. /\ pc'[p] \in {"use", "rw"} /\ buf'[p] = b
      /\ pc'[p] = "use" => valid[b]
      /\ pc'[p] = "rw" => ~valid[b]
  BY <1>1, <1>2 DEF AfterBget, Core, TypeOK
<1>6. /\ ~Holds(p) /\ Holds(p)'
      /\ \A q \in Procs : q # p => pc'[q] = pc[q] /\ buf'[q] = buf[q] /\ (Holds(q)' <=> Holds(q))
  BY <1>1, <1>2, <1>5 DEF Core, TypeOK, Holds
<1>7. TypeOK'
  <2>1. pc' \in [Procs -> {"idle", "bget", "bget_asleep", "panic", "use", "rw", "rw_asleep", "rw_woken"}]
    BY <1>1, <1>5 DEF Core, TypeOK
  <2>2. buf' \in [Procs -> Bufs \cup {NoBuf}]
    BY <1>1, <1>2 DEF Core, TypeOK
  <2> QED  BY <1>2, <1>4, <2>1, <2>2, ZenonT(30) DEF Core, TypeOK
<1>8. OneHolder'
  <2>1. \A c \in Bufs : busy'[c] <=> \E q \in Procs : Holds(q)' /\ buf'[q] = c
    BY <1>2, <1>3, <1>4, <1>5, <1>6 DEF Core, OneHolder
  <2>2. \A q, r \in Procs : Holds(q)' /\ Holds(r)' /\ buf'[q] = buf'[r] => q = r
    BY <1>3, <1>5, <1>6 DEF Core, OneHolder
  <2> QED  BY <1>2, <2>1, <2>2, ZenonT(30) DEF Core, OneHolder
<1>9. QueueSound'
  BY <1>2, <1>6 DEF Core, QueueSound
<1>10. HolderInv'
  <2>1. \A q \in Procs : pc'[q] # "idle" => want'[q] \in Blocks
    BY <1>2, <1>3, <1>6 DEF Core, HolderInv
  <2>2. \A q \in Procs : Holds(q)' => buf'[q] \in Bufs /\ blockno'[buf'[q]] = want'[q]
    BY <1>2, <1>5, <1>6 DEF Core, HolderInv
  <2>3. \A q \in Procs : pc'[q] = "use" => valid'[buf'[q]]
    BY <1>2, <1>5, <1>6 DEF Core, HolderInv
  <2>4. \A q \in Procs : pc'[q] = "rw" => ~Done(buf[q])'
    BY <1>2, <1>5, <1>6 DEF Core, HolderInv, Done
  <2> QED  BY <2>1, <2>2, <2>3, <2>4, ZenonT(30) DEF HolderInv, Done
<1>11. FlagInv'
  BY <1>2, ZenonT(30) DEF Core, FlagInv, Done
<1>12. ReadErrors \/ ValidMatchesDisk'
  BY <1>2, ZenonT(30) DEF Core, ValidMatchesDisk
<1> QED
  BY <1>7, <1>8, <1>9, <1>10, <1>11, <1>12 DEF Core

(* A buffer that no process waits for the disk with is not in the queue. *)
LEMMA NotQueued ==
  ASSUME Core, NEW b \in Bufs,
         \A q \in Procs : buf[q] = b => pc[q] \notin {"rw_asleep", "rw_woken"}
  PROVE  /\ \A i \in DOMAIN idequeue : idequeue[i] # b
         /\ idequeue # <<>> => Head(idequeue) # b /\ Head(idequeue) \in Bufs
<1>1. \A i \in DOMAIN idequeue : idequeue[i] # b
  BY DEF Core, QueueSound
<1>2. idequeue \in Seq(Bufs)
  BY DEF Core, TypeOK
<1> QED
  BY <1>1, <1>2

(* bget() recycles a buffer. *)
LEMMA bget_recycle_core ==
  ASSUME Core, NEW p \in Procs, bget_recycle(p)
  PROVE  Core'
<1>1. PICK i \in 1 .. NBUF :
        /\ Recyclable(lru[i])
        /\ blockno' = [blockno EXCEPT ![lru[i]] = want[p]]
        /\ busy' = [busy EXCEPT ![lru[i]] = TRUE]
        /\ valid' = [valid EXCEPT ![lru[i]] = FALSE]
        /\ dirty' = [dirty EXCEPT ![lru[i]] = FALSE]
        /\ buf' = [buf EXCEPT ![p] = lru[i]]
  BY ZenonT(30) DEF bget_recycle, FlagWhenRecycled
<1>2. /\ pc[p] = "bget" /\ pc' = [pc EXCEPT ![p] = "rw"]
      /\ \A c \in Bufs : blockno[c] # want[p]
      /\ UNCHANGED <<lru, data, idequeue, irq, disk, want>>
  BY ZenonT(30) DEF bget_recycle, Cached
<1>3. PICK b \in Bufs : b = lru[i]
  BY ZenonT(30) DEF Core, TypeOK
<1>4. /\ want[p] \in Blocks /\ ~busy[b] /\ ~dirty[b]
      /\ \A q \in Procs : ~(Holds(q) /\ buf[q] = b)
  BY <1>1, <1>2, <1>3, ZenonT(30) DEF Core, HolderInv, OneHolder, Recyclable
<1>5. /\ busy' \in [Bufs -> BOOLEAN] /\ valid' \in [Bufs -> BOOLEAN] /\ dirty' \in [Bufs -> BOOLEAN]
      /\ busy'[b] /\ ~valid'[b] /\ ~dirty'[b]
      /\ \A c \in Bufs : c # b => /\ busy'[c] <=> busy[c]
                                  /\ valid'[c] <=> valid[c]
                                  /\ dirty'[c] <=> dirty[c]
  BY <1>1, <1>3, ZenonT(30) DEF Core, TypeOK
<1>6. /\ blockno' \in [Bufs -> Blocks \cup {NoBlock}] /\ blockno'[b] = want[p]
      /\ \A c \in Bufs : c # b => blockno'[c] = blockno[c]
  BY <1>1, <1>3, <1>4 DEF Core, TypeOK
<1>7. /\ pc' \in [Procs -> {"idle", "bget", "bget_asleep", "panic", "use", "rw", "rw_asleep", "rw_woken"}]
      /\ buf' \in [Procs -> Bufs \cup {NoBuf}]
      /\ pc'[p] = "rw" /\ buf'[p] = b /\ ~Holds(p) /\ Holds(p)'
      /\ \A q \in Procs : q # p => pc'[q] = pc[q] /\ buf'[q] = buf[q] /\ (Holds(q)' <=> Holds(q))
  BY <1>1, <1>2, <1>3 DEF Core, TypeOK, Holds
<1>8. TypeOK'
  <2>1. /\ (lru \in [1 .. NBUF -> Bufs] /\ \A c \in Bufs : \E j \in 1 .. NBUF : lru[j] = c)'
        /\ (data \in [Bufs -> Values] /\ idequeue \in Seq(Bufs) /\ irq \in BOOLEAN
            /\ disk \in [Blocks -> Values] /\ want \in [Procs -> Blocks \cup {NoBlock}])'
    BY <1>2 DEF Core, TypeOK
  <2> QED  BY <1>5, <1>6, <1>7, <2>1 DEF TypeOK
<1>9. OneHolder'
  <2>1. \A c \in Bufs : busy'[c] <=> \E q \in Procs : Holds(q)' /\ buf'[q] = c
    BY <1>4, <1>5, <1>7 DEF Core, OneHolder
  <2>2. \A q, r \in Procs : Holds(q)' /\ Holds(r)' /\ buf'[q] = buf'[r] => q = r
    BY <1>4, <1>7 DEF Core, OneHolder
  <2>3. \A c, d \in Bufs : blockno'[c] = blockno'[d] /\ blockno'[c] # NoBlock => c = d
    BY <1>2, <1>6 DEF Core, OneHolder
  <2> QED  BY <2>1, <2>2, <2>3, ZenonT(30) DEF OneHolder
<1>10. QueueSound'
  BY <1>2, <1>7 DEF Core, QueueSound
<1>11. /\ \A j \in DOMAIN idequeue : idequeue[j] # b /\ idequeue[j] \in Bufs
       /\ idequeue # <<>> => Head(idequeue) # b /\ Head(idequeue) \in Bufs
  <2>1. \A q \in Procs : buf[q] = b => pc[q] \notin {"rw_asleep", "rw_woken"}
    BY <1>4, ZenonT(30) DEF Holds
  <2> QED  BY <2>1, NotQueued DEF Core, TypeOK
<1>12. HolderInv'
  <2>1. \A q \in Procs : pc'[q] # "idle" => want'[q] \in Blocks
    BY <1>2, <1>4, <1>7 DEF Core, HolderInv
  <2>2. \A q \in Procs : Holds(q)' => buf'[q] \in Bufs /\ blockno'[buf'[q]] = want'[q]
    BY <1>2, <1>4, <1>6, <1>7 DEF Core, HolderInv
  <2>3. \A q \in Procs : pc'[q] = "use" => valid'[buf'[q]]
    BY <1>2, <1>4, <1>5, <1>7 DEF Core, HolderInv, Holds
  <2>4. \A q \in Procs : pc'[q] = "rw" => ~Done(buf[q])'
    BY <1>2, <1>4, <1>5, <1>7 DEF Core, HolderInv, Done, Holds
  <2> QED  BY <2>1, <2>2, <2>3, <2>4, ZenonT(30) DEF HolderInv, Done
<1>13. FlagInv'
  <2>3. \A c \in Bufs : (dirty'[c] => valid'[c]) /\ (valid'[c] => blockno'[c] \in Blocks)
    BY <1>5, <1>6, ZenonT(30) DEF Core, FlagInv
  <2>4. \A j \in DOMAIN idequeue : ~(valid'[idequeue[j]] /\ ~dirty'[idequeue[j]])
    BY <1>5, <1>11, ZenonT(30) DEF Core, FlagInv, Done
  <2>5. irq => idequeue # <<>>
    BY DEF Core, FlagInv
  <2>6. irq /\ dirty'[Head(idequeue)] =>
          data[Head(idequeue)] = disk[blockno'[Head(idequeue)]]
    BY <1>5, <1>6, <1>11, <2>5, ZenonT(30) DEF Core, FlagInv
  <2> QED  BY <1>2, <2>3, <2>4, <2>5, <2>6, ZenonT(30) DEF FlagInv, Done
<1>14. ReadErrors \/ ValidMatchesDisk'
  BY <1>2, <1>5, <1>6, ZenonT(30) DEF Core, ValidMatchesDisk
<1> QED
  BY <1>8, <1>9, <1>10, <1>12, <1>13, <1>14 DEF Core

(* The user of a buffer is its only holder and it waits for no disk. *)
LEMMA UserAlone ==
  ASSUME Core, NEW p \in Procs, pc[p] = "use"
  PROVE  /\ buf[p] \in Bufs /\ busy[buf[p]] /\ valid[buf[p]] /\ Holds(p)
         /\ blockno[buf[p]] = want[p] /\ want[p] \in Blocks
         /\ \A q \in Procs : q # p /\ Holds(q) => buf[q] # buf[p]
         /\ \A i \in DOMAIN idequeue : idequeue[i] # buf[p] /\ idequeue[i] \in Bufs
         /\ idequeue # <<>> => Head(idequeue) # buf[p] /\ Head(idequeue) \in Bufs
<1>1. Holds(p) /\ pc[p] # "idle"
  BY DEF Holds
<1>2. /\ buf[p] \in Bufs /\ busy[buf[p]] /\ valid[buf[p]]
      /\ blockno[buf[p]] = want[p] /\ want[p] \in Blocks
  BY <1>1, ZenonT(30) DEF Core, HolderInv, OneHolder
<1>3. \A q \in Procs : q # p /\ Holds(q) => buf[q] # buf[p]
  BY <1>1, ZenonT(30) DEF Core, OneHolder
<1>4. \A q \in Procs : buf[q] = buf[p] => pc[q] \notin {"rw_asleep", "rw_woken"}
  BY <1>3 DEF Holds
<1>5. /\ \A i \in DOMAIN idequeue : idequeue[i] # buf[p]
      /\ idequeue # <<>> => Head(idequeue) # buf[p] /\ Head(idequeue) \in Bufs
  BY <1>2, <1>4, NotQueued, ZenonT(30)
<1>6. \A i \in DOMAIN idequeue : idequeue[i] \in Bufs
  BY DEF Core, TypeOK
<1> QED
  BY <1>1, <1>2, <1>3, <1>5, <1>6, ZenonT(30)

(* The user of a buffer changes it and marks it dirty. *)
LEMMA Changed ==
  ASSUME Core, NEW p \in Procs, NEW v \in Values, NEW x \in {"use", "rw"},
         pc[p] = "use", pc' = [pc EXCEPT ![p] = x],
         data' = [data EXCEPT ![buf[p]] = v], dirty' = [dirty EXCEPT ![buf[p]] = TRUE],
         UNCHANGED <<lru, blockno, busy, valid, idequeue, irq, disk, buf, want>>
  PROVE  Core'
<1>1. UNCHANGED <<lru, blockno, busy, valid, idequeue, irq, disk, buf, want>>
  OBVIOUS
<1>2. PICK b \in Bufs : b = buf[p]
  BY UserAlone
<1>3. /\ busy[b] /\ valid[b] /\ Holds(p) /\ want[p] \in Blocks
      /\ \A q \in Procs : q # p /\ Holds(q) => buf[q] # b
      /\ \A i \in DOMAIN idequeue : idequeue[i] # b /\ idequeue[i] \in Bufs
      /\ idequeue # <<>> => Head(idequeue) # b /\ Head(idequeue) \in Bufs
  BY <1>2, UserAlone
<1>4. /\ dirty' \in [Bufs -> BOOLEAN] /\ dirty'[b]
      /\ \A c \in Bufs : c # b => (dirty'[c] <=> dirty[c])
  BY <1>2, ZenonT(30) DEF Core, TypeOK
<1>5. data' \in [Bufs -> Values] /\ \A c \in Bufs : c # b => data'[c] = data[c]
  BY <1>2 DEF Core, TypeOK
<1>6. /\ pc' \in [Procs -> {"idle", "bget", "bget_asleep", "panic", "use", "rw", "rw_asleep", "rw_woken"}]
      /\ pc'[p] \in {"use", "rw"} /\ Holds(p)'
      /\ \A q \in Procs : (Holds(q)' <=> Holds(q)) /\ (q # p => pc'[q] = pc[q])
  BY DEF Core, TypeOK, Holds
<1>7. TypeOK'
  <2>1. /\ (lru \in [1 .. NBUF -> Bufs] /\ \A c \in Bufs : \E j \in 1 .. NBUF : lru[j] = c)'
        /\ (blockno \in [Bufs -> Blocks \cup {NoBlock}] /\ busy \in [Bufs -> BOOLEAN]
            /\ valid \in [Bufs -> BOOLEAN] /\ idequeue \in Seq(Bufs) /\ irq \in BOOLEAN
            /\ disk \in [Blocks -> Values] /\ want \in [Procs -> Blocks \cup {NoBlock}]
            /\ buf \in [Procs -> Bufs \cup {NoBuf}])'
    BY <1>1 DEF Core, TypeOK
  <2> QED  BY <1>4, <1>5, <1>6, <2>1 DEF TypeOK
<1>8. OneHolder'
  BY <1>1, <1>6, SMTT(30) DEF Core, OneHolder
<1>9. QueueSound'
  <2>1. \A q \in Procs : pc[q] \in {"rw_asleep", "rw_woken"} => pc'[q] = pc[q]
    BY <1>6
  <2> QED  BY <1>1, <2>1 DEF Core, QueueSound
<1>10. HolderInv'
  <2>1. \A q \in Procs : pc'[q] # "idle" => want'[q] \in Blocks
    BY <1>1, <1>3, <1>6 DEF Core, HolderInv
  <2>2. \A q \in Procs : Holds(q)' => buf'[q] \in Bufs /\ blockno'[buf'[q]] = want'[q]
    BY <1>1, <1>6 DEF Core, HolderInv
  <2>3. \A q \in Procs : pc'[q] = "use" => valid'[buf'[q]]
    BY <1>1, <1>2, <1>3, <1>6 DEF Core, HolderInv
  <2>4. \A q \in Procs : pc'[q] = "rw" => ~(valid[buf[q]] /\ ~dirty'[buf[q]])
    <3>1. \A q \in Procs : q # p /\ pc'[q] = "rw" =>
                             ~Done(buf[q]) /\ buf[q] \in Bufs /\ buf[q] # b
      BY <1>3, <1>6 DEF Core, HolderInv, Holds
    <3> QED  BY <1>2, <1>4, <3>1, ZenonT(30) DEF Done
  <2> QED  BY <1>1, <2>1, <2>2, <2>3, <2>4, ZenonT(30) DEF HolderInv, Done
<1>11. FlagInv'
  <2>1. \A c \in Bufs : (dirty'[c] => valid[c]) /\ (valid[c] => blockno[c] \in Blocks)
    BY <1>3, <1>4, ZenonT(30) DEF Core, FlagInv
  <2>2. \A j \in DOMAIN idequeue : ~(valid[idequeue[j]] /\ ~dirty'[idequeue[j]])
    BY <1>3, <1>4, ZenonT(30) DEF Core, FlagInv, Done
  <2>3. irq => idequeue # <<>>
    BY DEF Core, FlagInv
  <2>4. irq /\ dirty'[Head(idequeue)] =>
          data'[Head(idequeue)] = disk[blockno[Head(idequeue)]]
    BY <1>3, <1>4, <1>5, <2>3, ZenonT(30) DEF Core, FlagInv
  <2> QED  BY <1>1, <2>1, <2>2, <2>3, <2>4 DEF FlagInv, Done
<1>12. ReadErrors \/ ValidMatchesDisk'
  <2>1. \A c \in Bufs : valid[c] /\ ~dirty'[c] => valid[c] /\ ~dirty[c] /\ data'[c] = data[c]
    BY <1>4, <1>5, ZenonT(30)
  <2> QED  BY <1>1, <2>1, ZenonT(30) DEF Core, ValidMatchesDisk
<1> QED
  BY <1>7, <1>8, <1>9, <1>10, <1>11, <1>12 DEF Core

(* bwrite(): dirty until the disk has it. *)
LEMMA bwrite_core ==
  ASSUME Core, NEW p \in Procs, NEW v \in Values, bwrite(p, v)
  PROVE  Core'
<1>1. /\ pc[p] = "use" /\ pc' = [pc EXCEPT ![p] = "rw"]
      /\ data' = [data EXCEPT ![buf[p]] = v] /\ dirty' = [dirty EXCEPT ![buf[p]] = TRUE]
      /\ UNCHANGED <<lru, blockno, busy, valid, idequeue, irq, disk, buf, want>>
  BY ZenonT(30) DEF bwrite
<1> QED
  BY <1>1, Changed, ZenonT(30)

(* log_write(): dirty until some process commits. *)
LEMMA log_write_core ==
  ASSUME Core, NEW p \in Procs, NEW v \in Values, log_write(p, v)
  PROVE  Core'
<1>1. /\ pc[p] = "use" /\ pc' = pc
      /\ data' = [data EXCEPT ![buf[p]] = v] /\ dirty' = [dirty EXCEPT ![buf[p]] = TRUE]
      /\ UNCHANGED <<lru, blockno, busy, valid, idequeue, irq, disk, buf, want>>
  BY ZenonT(30) DEF log_write, procVars
<1>2. pc' = [pc EXCEPT ![p] = "use"]
  BY <1>1, SMTT(30) DEF Core, TypeOK
<1> QED
  BY <1>1, <1>2, Changed, ZenonT(30)

(* brelse() keeps every buffer on the list. *)
LEMMA ToFrontKeeps ==
  ASSUME NEW list \in [1 .. NBUF -> Bufs], \A c \in Bufs : \E i \in 1 .. NBUF : list[i] = c,
         NEW b \in Bufs
  PROVE  /\ ToFront(list, b) \in [1 .. NBUF -> Bufs]
         /\ \A c \in Bufs : \E i \in 1 .. NBUF : ToFront(list, b)[i] = c
<1> DEFINE at == CHOOSE i \in DOMAIN list : list[i] = b
           new == [i \in DOMAIN list |->
                     IF i = 1 THEN b ELSE IF i <= at THEN list[i - 1] ELSE list[i]]
<1>1. at \in 1 .. NBUF /\ list[at] = b
  <2>1. DOMAIN list = 1 .. NBUF
    OBVIOUS
  <2>2. \E i \in DOMAIN list : list[i] = b
    BY <2>1
  <2> QED  BY <2>1, <2>2
<1>2. ToFront(list, b) = new
  BY DEF ToFront
<1> HIDE DEF at
<1>3. \A i \in 1 .. NBUF : i # 1 /\ i <= at => i - 1 \in 1 .. NBUF
  BY BcacheConstants, <1>1
<1>4. new \in [1 .. NBUF -> Bufs]
  BY BcacheConstants, <1>1, <1>3
<1>5. ASSUME NEW c \in Bufs PROVE \E i \in 1 .. NBUF : new[i] = c
  <2>1. PICK j \in 1 .. NBUF : list[j] = c
    OBVIOUS
  <2>2. CASE j = at
    <3>1. 1 \in 1 .. NBUF /\ new[1] = b
      BY BcacheConstants, <1>1
    <3> QED  BY <1>1, <2>1, <2>2, <3>1
  <2>3. CASE j < at
    <3>1. j + 1 \in 1 .. NBUF /\ new[j + 1] = c
      BY BcacheConstants, <1>1, <2>1, <2>3
    <3> QED  BY <3>1
  <2>4. CASE j > at
    <3>1. new[j] = c
      BY BcacheConstants, <1>1, <2>1, <2>4
    <3> QED  BY <3>1
  <2>5. j = at \/ j < at \/ j > at
    BY BcacheConstants, <1>1
  <2> QED  BY <2>2, <2>3, <2>4, <2>5, ZenonT(30)
<1> QED
  BY <1>2, <1>4, <1>5

(* brelse() gives the buffer up and wakes those who wait for it. *)
LEMMA brelse_core ==
  ASSUME Core, NEW p \in Procs, brelse(p)
  PROVE  Core'
<1>1. /\ pc[p] = "use" /\ pc' = [Wakeup(buf[p]) EXCEPT ![p] = "idle"]
      /\ lru' = ToFront(lru, buf[p]) /\ busy' = [busy EXCEPT ![buf[p]] = FALSE]
      /\ buf' = [buf EXCEPT ![p] = NoBuf] /\ want' = [want EXCEPT ![p] = NoBlock]
      /\ UNCHANGED <<blockno, valid, dirty, data, idequeue, irq, disk>>
  BY ZenonT(30) DEF brelse, Released
<1>2. PICK b \in Bufs : b = buf[p]
  BY <1>1, UserAlone
<1>3. /\ Holds(p) /\ \A q \in Procs : q # p /\ Holds(q) => buf[q] # b
      /\ \A i \in DOMAIN idequeue : idequeue[i] # b /\ idequeue[i] \in Bufs
  BY <1>1, <1>2, UserAlone
<1>4. /\ busy' \in [Bufs -> BOOLEAN] /\ ~busy'[b]
      /\ \A c \in Bufs : c # b => (busy'[c] <=> busy[c])
  BY <1>1, <1>2, ZenonT(30) DEF Core, TypeOK
<1>5. /\ lru' \in [1 .. NBUF -> Bufs] /\ \A c \in Bufs : \E i \in 1 .. NBUF : lru'[i] = c
  <2>1. lru \in [1 .. NBUF -> Bufs] /\ \A c \in Bufs : \E i \in 1 .. NBUF : lru[i] = c
    BY DEF Core, TypeOK
  <2>2. lru' = ToFront(lru, b)
    BY <1>1, <1>2
  <2> QED  BY <2>1, <2>2, ToFrontKeeps, ZenonT(30)
<1>6. /\ buf' \in [Procs -> Bufs \cup {NoBuf}] /\ want' \in [Procs -> Blocks \cup {NoBlock}]
      /\ buf'[p] = NoBuf /\ \A q \in Procs : q # p => buf'[q] = buf[q] /\ want'[q] = want[q]
  BY <1>1 DEF Core, TypeOK
<1>7. /\ pc' \in [Procs -> {"idle", "bget", "bget_asleep", "panic", "use", "rw", "rw_asleep", "rw_woken"}]
      /\ pc'[p] = "idle"
      /\ \A q \in Procs : q # p => \/ pc'[q] = pc[q]
                                   \/ buf[q] = b /\ pc[q] = "bget_asleep" /\ pc'[q] = "bget"
                                   \/ buf[q] = b /\ pc[q] = "rw_asleep"
  BY <1>1, <1>2 DEF Core, TypeOK, Wakeup
<1>8. /\ ~Holds(p)'
      /\ \A q \in Procs : q # p => \/ pc'[q] = pc[q]
                                   \/ pc[q] = "bget_asleep" /\ pc'[q] = "bget"
  BY <1>3, <1>7 DEF Holds
<1>9. \A q \in Procs : q # p => (Holds(q)' <=> Holds(q))
  BY <1>8, SMTT(30) DEF Holds
<1>10. TypeOK'
  <2>1. /\ (blockno \in [Bufs -> Blocks \cup {NoBlock}] /\ valid \in [Bufs -> BOOLEAN]
            /\ dirty \in [Bufs -> BOOLEAN] /\ data \in [Bufs -> Values]
            /\ idequeue \in Seq(Bufs) /\ irq \in BOOLEAN /\ disk \in [Blocks -> Values])'
    BY <1>1 DEF Core, TypeOK
  <2> QED  BY <1>4, <1>5, <1>6, <1>7, <2>1 DEF TypeOK
<1>11. OneHolder'
  <2>1. \A c \in Bufs : busy'[c] <=> \E q \in Procs : Holds(q)' /\ buf'[q] = c
    BY <1>2, <1>3, <1>4, <1>6, <1>8, <1>9, SMTT(30) DEF Core, OneHolder
  <2>2. \A q, r \in Procs : Holds(q)' /\ Holds(r)' /\ buf'[q] = buf'[r] => q = r
    BY <1>6, <1>8, <1>9, SMTT(30) DEF Core, OneHolder
  <2>3. \A c, d \in Bufs : blockno'[c] = blockno'[d] /\ blockno'[c] # NoBlock => c = d
    BY <1>1 DEF Core, OneHolder
  <2> QED  BY <2>1, <2>2, <2>3, ZenonT(30) DEF OneHolder
<1>12. QueueSound'
  <2>1. \A q \in Procs : pc[q] \in {"rw_asleep", "rw_woken"} => pc'[q] = pc[q] /\ buf'[q] = buf[q]
    BY <1>1, <1>6, <1>8
  <2> QED  BY <1>1, <2>1 DEF Core, QueueSound
<1>13. HolderInv'
  <2>1. \A q \in Procs : pc'[q] # "idle" => want'[q] \in Blocks
    BY <1>6, <1>7, <1>8, SMTT(30) DEF Core, HolderInv
  <2>2. \A q \in Procs : Holds(q)' => buf'[q] \in Bufs /\ blockno'[buf'[q]] = want'[q]
    BY <1>1, <1>6, <1>8, <1>9, SMTT(30) DEF Core, HolderInv
  <2>3. \A q \in Procs : pc'[q] = "use" => valid'[buf'[q]]
    BY <1>1, <1>6, <1>7, <1>8, SMTT(30) DEF Core, HolderInv
  <2>4. \A q \in Procs : pc'[q] = "rw" => ~Done(buf[q])'
    BY <1>1, <1>6, <1>7, <1>8, SMTT(30) DEF Core, HolderInv, Done
  <2> QED  BY <2>1, <2>2, <2>3, <2>4, ZenonT(30) DEF HolderInv, Done
<1>14. FlagInv'
  BY <1>1 DEF Core, FlagInv, Done
<1>15. ReadErrors \/ ValidMatchesDisk'
  BY <1>1, ZenonT(30) DEF Core, ValidMatchesDisk
<1> QED
  BY <1>10, <1>11, <1>12, <1>13, <1>14, <1>15 DEF Core

-----------------------------------------------------------------------------
(* The driver. *)

(* iderw() queues the buffer. *)
LEMMA iderw_core ==
  ASSUME Core, NEW p \in Procs, iderw(p)
  PROVE  Core'
<1>1. /\ pc[p] = "rw" /\ pc' = [pc EXCEPT ![p] = "rw_asleep"]
      /\ idequeue' = Append(idequeue, buf[p])
      /\ UNCHANGED <<lru, blockno, busy, valid, dirty, data, irq, disk, buf, want>>
  BY ZenonT(30) DEF iderw, bufVars
<1>2. Holds(p) /\ Holds(p)' /\ pc'[p] = "rw_asleep" /\ \A q \in Procs : q # p => pc'[q] = pc[q]
  BY <1>1 DEF Holds, Core, TypeOK
<1>3. PICK b \in Bufs : b = buf[p] /\ ~Done(b)
  BY <1>1, <1>2, ZenonT(30) DEF Core, HolderInv
<1>4. \A i \in DOMAIN idequeue : idequeue[i] # b
  <2>1. \A q \in Procs : buf[q] = b => pc[q] \notin {"rw_asleep", "rw_woken"}
    <3>1. \A q \in Procs : buf[q] = b /\ Holds(q) => q = p
      BY <1>2, <1>3, ZenonT(30) DEF Core, OneHolder
    <3> QED  BY <1>1, <3>1 DEF Holds
  <2> QED  BY <2>1, NotQueued, ZenonT(30)
<1>5. \A q \in Procs : /\ Holds(q)' <=> Holds(q)
                       /\ pc'[q] = "use" => pc[q] = "use"
                       /\ pc'[q] = "rw" => pc[q] = "rw"
                       /\ pc'[q] # "idle" => pc[q] # "idle"
  BY <1>1, <1>2 DEF Holds
<1>6. /\ idequeue \in Seq(Bufs) /\ idequeue' \in Seq(Bufs) /\ Len(idequeue') = Len(idequeue) + 1
      /\ \A i \in 1 .. Len(idequeue) : idequeue'[i] = idequeue[i]
      /\ idequeue'[Len(idequeue) + 1] = b
      /\ idequeue # <<>> => Head(idequeue') = Head(idequeue)
  BY <1>1, <1>3 DEF Core, TypeOK
<1>7. TypeOK'
  <2>1. pc' \in [Procs -> {"idle", "bget", "bget_asleep", "panic", "use", "rw", "rw_asleep", "rw_woken"}]
    BY <1>1 DEF Core, TypeOK
  <2>2. /\ (lru \in [1 .. NBUF -> Bufs] /\ \A c \in Bufs : \E j \in 1 .. NBUF : lru[j] = c)'
        /\ (blockno \in [Bufs -> Blocks \cup {NoBlock}] /\ busy \in [Bufs -> BOOLEAN]
            /\ valid \in [Bufs -> BOOLEAN] /\ dirty \in [Bufs -> BOOLEAN] /\ data \in [Bufs -> Values]
            /\ irq \in BOOLEAN /\ disk \in [Blocks -> Values]
            /\ want \in [Procs -> Blocks \cup {NoBlock}] /\ buf \in [Procs -> Bufs \cup {NoBuf}])'
    BY <1>1 DEF Core, TypeOK
  <2> QED  BY <1>6, <2>1, <2>2 DEF TypeOK
<1>8. OneHolder'
  BY <1>1, <1>5, SMTT(30) DEF Core, OneHolder
<1>9. QueueSound'
  <2>1. \A i, j \in DOMAIN idequeue' : idequeue'[i] = idequeue'[j] => i = j
    BY <1>4, <1>6, SMTT(30) DEF Core, QueueSound
  <2>2. ASSUME NEW i \in DOMAIN idequeue'
        PROVE  \E q \in Procs : buf[q] = idequeue'[i] /\ pc'[q] \in {"rw_asleep", "rw_woken"}
    <3>1. CASE i = Len(idequeue) + 1
      BY <1>2, <1>3, <1>6, <3>1
    <3>2. CASE i # Len(idequeue) + 1
      <4>1. i \in DOMAIN idequeue /\ idequeue'[i] = idequeue[i]
        BY <1>6, <3>2
      <4>2. PICK q \in Procs : buf[q] = idequeue[i] /\ pc[q] \in {"rw_asleep", "rw_woken"}
        BY <4>1 DEF Core, QueueSound
      <4>3. pc'[q] \in {"rw_asleep", "rw_woken"}
        BY <1>1, <1>2, <4>2, SMTT(30)
      <4> QED  BY <4>1, <4>2, <4>3
    <3> QED  BY <3>1, <3>2
  <2> QED  BY <1>1, <2>1, <2>2 DEF QueueSound
<1>10. HolderInv'
  BY <1>1, <1>5, SMTT(30) DEF Core, HolderInv, Done
<1>11. FlagInv'
  <2>3. \A i \in DOMAIN idequeue' : ~Done(idequeue'[i])
    <3>1. \A i \in DOMAIN idequeue' : idequeue'[i] = b \/ \E j \in DOMAIN idequeue : idequeue'[i] = idequeue[j]
      BY <1>6
    <3> QED  BY <1>3, <3>1, ZenonT(30) DEF Core, FlagInv
  <2>4. irq => idequeue # <<>> /\ Head(idequeue') = Head(idequeue) /\ idequeue' # <<>>
    BY <1>6 DEF Core, FlagInv
  <2>5. irq /\ dirty[Head(idequeue')] =>
          data[Head(idequeue')] = disk[blockno[Head(idequeue')]]
    BY <2>4 DEF Core, FlagInv
  <2>6. \A c \in Bufs : (dirty[c] => valid[c]) /\ (valid[c] => blockno[c] \in Blocks)
    BY DEF Core, FlagInv
  <2> QED  BY <1>1, <2>3, <2>4, <2>5, <2>6 DEF FlagInv, Done
<1>12. ReadErrors \/ ValidMatchesDisk'
  BY <1>1, ZenonT(30) DEF Core, ValidMatchesDisk
<1> QED
  BY <1>7, <1>8, <1>9, <1>10, <1>11, <1>12 DEF Core

(* A process that was woken in iderw(). *)
LEMMA iderw_woken_core ==
  ASSUME Core, NEW p \in Procs, iderw_woken(p)
  PROVE  Core'
<1>1. /\ pc[p] = "rw_woken" /\ pc' = [pc EXCEPT ![p] = IF Done(buf[p]) THEN "use" ELSE "rw_asleep"]
      /\ UNCHANGED <<lru, blockno, busy, valid, dirty, data, idequeue, irq, disk, buf, want>>
  BY ZenonT(30) DEF iderw_woken, bufVars
<1>2. /\ pc'[p] = (IF Done(buf[p]) THEN "use" ELSE "rw_asleep")
      /\ \A q \in Procs : q # p => pc'[q] = pc[q]
      /\ pc' \in [Procs -> {"idle", "bget", "bget_asleep", "panic", "use", "rw", "rw_asleep", "rw_woken"}]
  BY <1>1 DEF Core, TypeOK
<1>3. \A q \in Procs : /\ Holds(q)' <=> Holds(q)
                       /\ pc'[q] # "idle" => pc[q] # "idle"
                       /\ pc'[q] = "rw" => pc[q] = "rw"
  BY <1>1, <1>2, SMTT(30) DEF Holds
<1>4. TypeOK'
  <2>1. /\ (lru \in [1 .. NBUF -> Bufs] /\ \A c \in Bufs : \E j \in 1 .. NBUF : lru[j] = c)'
        /\ (blockno \in [Bufs -> Blocks \cup {NoBlock}] /\ busy \in [Bufs -> BOOLEAN]
            /\ valid \in [Bufs -> BOOLEAN] /\ dirty \in [Bufs -> BOOLEAN] /\ data \in [Bufs -> Values]
            /\ idequeue \in Seq(Bufs) /\ irq \in BOOLEAN /\ disk \in [Blocks -> Values]
            /\ want \in [Procs -> Blocks \cup {NoBlock}] /\ buf \in [Procs -> Bufs \cup {NoBuf}])'
    BY <1>1 DEF Core, TypeOK
  <2> QED  BY <1>2, <2>1 DEF TypeOK
<1>5. OneHolder'
  BY <1>1, <1>3, SMTT(30) DEF Core, OneHolder
<1>6. QueueSound'
  <2>1. ASSUME NEW i \in DOMAIN idequeue
        PROVE  \E q \in Procs : buf[q] = idequeue[i] /\ pc'[q] \in {"rw_asleep", "rw_woken"}
    <3>1. PICK q \in Procs : buf[q] = idequeue[i] /\ pc[q] \in {"rw_asleep", "rw_woken"}
      BY DEF Core, QueueSound
    <3>2. ~Done(buf[q])
      BY <3>1 DEF Core, FlagInv
    <3> QED  BY <1>2, <3>1, <3>2, SMTT(30)
  <2> QED  BY <1>1, <2>1 DEF Core, QueueSound
<1>7. HolderInv'
  <2>1. \A q \in Procs : pc'[q] = "use" => valid[buf[q]]
    BY <1>2, SMTT(30) DEF Core, HolderInv, Done
  <2> QED  BY <1>1, <1>3, <2>1, SMTT(30) DEF Core, HolderInv, Done
<1>8. FlagInv'
  BY <1>1, ZenonT(30) DEF Core, FlagInv, Done
<1>9. ReadErrors \/ ValidMatchesDisk'
  BY <1>1, ZenonT(30) DEF Core, ValidMatchesDisk
<1> QED
  BY <1>4, <1>5, <1>6, <1>7, <1>8, <1>9 DEF Core

(* The active buffer: its holder is in iderw() and knows its block. *)
LEMMA HeadHeld ==
  ASSUME Core, idequeue # <<>>
  PROVE  /\ Head(idequeue) \in Bufs /\ blockno[Head(idequeue)] \in Blocks
         /\ ~Done(Head(idequeue))
         /\ \A q \in Procs : buf[q] = Head(idequeue) => pc[q] \notin {"use", "rw"}
<1>1. 1 \in DOMAIN idequeue /\ Head(idequeue) = idequeue[1] /\ Head(idequeue) \in Bufs
  BY DEF Core, TypeOK
<1>2. PICK p \in Procs : buf[p] = idequeue[1] /\ pc[p] \in {"rw_asleep", "rw_woken"}
  BY <1>1 DEF Core, QueueSound
<1>3. Holds(p) /\ pc[p] # "idle"
  BY <1>2 DEF Holds
<1>4. blockno[Head(idequeue)] \in Blocks
  BY <1>1, <1>2, <1>3 DEF Core, HolderInv
<1>5. \A q \in Procs : buf[q] = Head(idequeue) /\ Holds(q) => q = p
  BY <1>1, <1>2, <1>3, ZenonT(30) DEF Core, OneHolder
<1>6. \A q \in Procs : buf[q] = Head(idequeue) => pc[q] \notin {"use", "rw"}
  BY <1>2, <1>5 DEF Holds
<1>7. ~Done(Head(idequeue))
  BY <1>1 DEF Core, FlagInv
<1> QED
  BY <1>1, <1>4, <1>6, <1>7

(* The disk has served the active buffer. *)
LEMMA disk_done_core ==
  ASSUME Core, disk_done
  PROVE  Core'
<1>1. /\ idequeue # <<>> /\ irq' = TRUE
      /\ disk' = IF dirty[Head(idequeue)]
                 THEN [disk EXCEPT ![blockno[Head(idequeue)]] = data[Head(idequeue)]]
                 ELSE disk
      /\ UNCHANGED <<lru, blockno, busy, valid, dirty, data, idequeue, pc, buf, want>>
  BY ZenonT(30) DEF disk_done, bufVars, procVars
<1>2. PICK h \in Bufs : h = Head(idequeue) /\ blockno[h] \in Blocks
  BY <1>1, HeadHeld
<1>3. /\ disk' \in [Blocks -> Values]
      /\ dirty[h] => disk'[blockno[h]] = data[h]
      /\ dirty[h] => \A k \in Blocks : k # blockno[h] => disk'[k] = disk[k]
      /\ ~dirty[h] => disk' = disk
  BY <1>1, <1>2 DEF Core, TypeOK
<1>4. \A q \in Procs : Holds(q)' <=> Holds(q)
  BY <1>1 DEF Holds
<1>5. TypeOK'
  <2>1. /\ (lru \in [1 .. NBUF -> Bufs] /\ \A c \in Bufs : \E j \in 1 .. NBUF : lru[j] = c)'
        /\ (blockno \in [Bufs -> Blocks \cup {NoBlock}] /\ busy \in [Bufs -> BOOLEAN]
            /\ valid \in [Bufs -> BOOLEAN] /\ dirty \in [Bufs -> BOOLEAN] /\ data \in [Bufs -> Values]
            /\ idequeue \in Seq(Bufs)
            /\ pc \in [Procs -> {"idle", "bget", "bget_asleep", "panic", "use", "rw", "rw_asleep", "rw_woken"}]
            /\ want \in [Procs -> Blocks \cup {NoBlock}] /\ buf \in [Procs -> Bufs \cup {NoBuf}])'
    BY <1>1 DEF Core, TypeOK
  <2>2. irq' \in BOOLEAN
    BY <1>1
  <2> QED  BY <1>3, <2>1, <2>2 DEF TypeOK
<1>6. OneHolder'
  BY <1>1, <1>4, SMTT(30) DEF Core, OneHolder
<1>7. QueueSound'
  BY <1>1, SMTT(30) DEF Core, QueueSound
<1>8. HolderInv'
  BY <1>1, <1>4, SMTT(30) DEF Core, HolderInv, Done
<1>9. FlagInv'
  BY <1>1, <1>2, <1>3, SMTT(30) DEF Core, FlagInv, Done
<1>10. ReadErrors \/ ValidMatchesDisk'
  <2>1. ASSUME NEW c \in Bufs, valid[c], ~dirty[c]
        PROVE  disk'[blockno[c]] = disk[blockno[c]]
    <3>1. blockno[c] \in Blocks
      BY <2>1 DEF Core, FlagInv
    <3>2. CASE dirty[h]
      <4>1. blockno[c] # blockno[h]
        <5>1. blockno[h] # NoBlock
          BY BcacheConstants, <1>2
        <5> QED  BY <1>2, <2>1, <3>2, <5>1, ZenonT(30) DEF Core, OneHolder
      <4> QED  BY <1>3, <3>1, <3>2, <4>1
    <3> QED  BY <1>3, <3>2
  <2> QED  BY <1>1, <2>1 DEF Core, ValidMatchesDisk
<1> QED
  BY <1>5, <1>6, <1>7, <1>8, <1>9, <1>10 DEF Core

(* The interrupt handler completes the request. *)
LEMMA ideintr_core ==
  ASSUME Core, ideintr
  PROVE  Core'
<1>1. /\ irq /\ idequeue # <<>>
      /\ \/ ~dirty[Head(idequeue)]
            /\ data' = [data EXCEPT ![Head(idequeue)] = disk[blockno[Head(idequeue)]]]
         \/ (dirty[Head(idequeue)] \/ ReadErrors) /\ data' = data
      /\ valid' = [valid EXCEPT ![Head(idequeue)] = TRUE]
      /\ dirty' = [dirty EXCEPT ![Head(idequeue)] = FALSE]
      /\ pc' = Wakeup(Head(idequeue))
      /\ idequeue' = Tail(idequeue) /\ irq' = FALSE
      /\ UNCHANGED <<lru, blockno, busy, disk, buf, want>>
  BY ZenonT(30) DEF ideintr, Unqueued
<1>2. PICK h \in Bufs : h = Head(idequeue)
  BY <1>1, HeadHeld
<1>3. /\ blockno[h] \in Blocks /\ \A q \in Procs : buf[q] = h => pc[q] \notin {"use", "rw"}
  BY <1>1, <1>2, HeadHeld
<1>4. /\ valid' \in [Bufs -> BOOLEAN] /\ dirty' \in [Bufs -> BOOLEAN]
      /\ valid'[h] /\ ~dirty'[h]
      /\ \A c \in Bufs : c # h => (valid'[c] <=> valid[c]) /\ (dirty'[c] <=> dirty[c])
  BY <1>1, <1>2, ZenonT(30) DEF Core, TypeOK
<1>5. /\ data' \in [Bufs -> Values]
      /\ \A c \in Bufs : c # h => data'[c] = data[c]
      /\ data'[h] = disk[blockno[h]] \/ ((dirty[h] \/ ReadErrors) /\ data'[h] = data[h])
  <2>0. data \in [Bufs -> Values] /\ disk[blockno[h]] \in Values
    BY <1>3 DEF Core, TypeOK
  <2>1. CASE data' = [data EXCEPT ![h] = disk[blockno[h]]]
    BY <2>0, <2>1
  <2>2. CASE (dirty[h] \/ ReadErrors) /\ data' = data
    BY <2>0, <2>2
  <2> QED  BY <1>1, <1>2, <2>1, <2>2, ZenonT(30)
<1>6. /\ pc' \in [Procs -> {"idle", "bget", "bget_asleep", "panic", "use", "rw", "rw_asleep", "rw_woken"}]
      /\ \A q \in Procs : \/ pc'[q] = pc[q]
                          \/ buf[q] = h /\ pc[q] = "bget_asleep" /\ pc'[q] = "bget"
                          \/ buf[q] = h /\ pc[q] = "rw_asleep" /\ pc'[q] = "rw_woken"
  BY <1>1, <1>2 DEF Core, TypeOK, Wakeup
<1>7. \A q \in Procs : /\ Holds(q)' <=> Holds(q)
                       /\ pc'[q] # "idle" => pc[q] # "idle"
                       /\ pc'[q] = "use" => pc[q] = "use"
                       /\ pc'[q] = "rw" => pc[q] = "rw" /\ buf[q] # h
                       /\ pc[q] \in {"rw_asleep", "rw_woken"} => pc'[q] \in {"rw_asleep", "rw_woken"}
                       /\ buf[q] # h => pc'[q] = pc[q]
  BY <1>3, <1>6, SMTT(30) DEF Holds
<1>8. /\ idequeue' \in Seq(Bufs)
      /\ \A i \in DOMAIN idequeue' : /\ i + 1 \in DOMAIN idequeue
                                     /\ idequeue'[i] = idequeue[i + 1] /\ idequeue'[i] \in Bufs
                                     /\ i \in Nat
      /\ 1 \in DOMAIN idequeue /\ idequeue[1] = h
  BY <1>1, <1>2, SMTT(30) DEF Core, TypeOK
<1>9. \A i \in DOMAIN idequeue' : idequeue'[i] # h
  <2>1. \A i \in DOMAIN idequeue' : i + 1 # 1
    BY <1>8
  <2>2. \A i \in DOMAIN idequeue : idequeue[i] = idequeue[1] => i = 1
    BY <1>8 DEF Core, QueueSound
  <2> QED  BY <1>8, <2>1, <2>2, ZenonT(30)
<1>10. TypeOK'
  <2>1. /\ (lru \in [1 .. NBUF -> Bufs] /\ \A c \in Bufs : \E j \in 1 .. NBUF : lru[j] = c)'
        /\ (blockno \in [Bufs -> Blocks \cup {NoBlock}] /\ busy \in [Bufs -> BOOLEAN]
            /\ disk \in [Blocks -> Values]
            /\ want \in [Procs -> Blocks \cup {NoBlock}] /\ buf \in [Procs -> Bufs \cup {NoBuf}])'
    BY <1>1 DEF Core, TypeOK
  <2>2. irq' \in BOOLEAN
    BY <1>1
  <2> QED  BY <1>4, <1>5, <1>6, <1>8, <2>1, <2>2 DEF TypeOK
<1>11. OneHolder'
  BY <1>1, <1>7 DEF Core, OneHolder
<1>12. QueueSound'
  <2>1. ASSUME NEW i \in DOMAIN idequeue', NEW j \in DOMAIN idequeue', idequeue'[i] = idequeue'[j]
        PROVE  i = j
    <3>1. i + 1 \in DOMAIN idequeue /\ j + 1 \in DOMAIN idequeue /\ idequeue[i + 1] = idequeue[j + 1]
      BY <1>8, <2>1, ZenonT(30)
    <3>2. i + 1 = j + 1
      BY <3>1, ZenonT(30) DEF Core, QueueSound
    <3> QED  BY <1>8, <3>2
  <2>2. ASSUME NEW i \in DOMAIN idequeue'
        PROVE  \E q \in Procs : buf[q] = idequeue'[i] /\ pc'[q] \in {"rw_asleep", "rw_woken"}
    <3>0. i + 1 \in DOMAIN idequeue
      BY <1>8
    <3>1. PICK q \in Procs : buf[q] = idequeue[i + 1] /\ pc[q] \in {"rw_asleep", "rw_woken"}
      BY <3>0 DEF Core, QueueSound
    <3> QED  BY <1>7, <1>8, <3>1, ZenonT(30)
  <2> QED  BY <1>1, <2>1, <2>2 DEF QueueSound
<1>13. HolderInv'
  <2>1. \A q \in Procs : pc'[q] # "idle" => want'[q] \in Blocks
    BY <1>1, <1>7, SMTT(30) DEF Core, HolderInv
  <2>2. \A q \in Procs : Holds(q)' => buf'[q] \in Bufs /\ blockno'[buf'[q]] = want'[q]
    BY <1>1, <1>7 DEF Core, HolderInv
  <2>3. \A q \in Procs : (pc'[q] = "use" \/ pc'[q] = "rw") => buf[q] \in Bufs
    <3>1. \A q \in Procs : (pc'[q] = "use" \/ pc'[q] = "rw") => Holds(q)
      BY <1>7 DEF Holds
    <3> QED  BY <3>1, ZenonT(30) DEF Core, HolderInv
  <2>4. \A q \in Procs : pc'[q] = "use" => valid'[buf[q]]
    BY <1>4, <1>7, <2>3, ZenonT(30) DEF Core, HolderInv
  <2>5. \A q \in Procs : pc'[q] = "rw" => ~(valid'[buf[q]] /\ ~dirty'[buf[q]])
    BY <1>4, <1>7, <2>3, ZenonT(30) DEF Core, HolderInv, Done
  <2> QED  BY <1>1, <2>1, <2>2, <2>4, <2>5, SMTT(30) DEF HolderInv, Done
<1>14. FlagInv'
  <2>3. \A c \in Bufs : (dirty'[c] => valid'[c]) /\ (valid'[c] => blockno[c] \in Blocks)
    BY <1>3, <1>4, ZenonT(30) DEF Core, FlagInv
  <2>4. \A i \in DOMAIN idequeue' : ~(valid'[idequeue'[i]] /\ ~dirty'[idequeue'[i]])
    <3>1. \A i \in DOMAIN idequeue' : ~Done(idequeue'[i])
      BY <1>8, ZenonT(30) DEF Core, FlagInv
    <3> QED  BY <1>4, <1>8, <1>9, <3>1, ZenonT(30) DEF Done
  <2> QED  BY <1>1, <2>3, <2>4 DEF FlagInv, Done
<1>15. ReadErrors \/ ValidMatchesDisk'
  <2> SUFFICES ASSUME ~ReadErrors, NEW c \in Bufs, valid'[c], ~dirty'[c]
               PROVE  data'[c] = disk[blockno[c]]
    BY <1>1, ZenonT(30) DEF ValidMatchesDisk
  <2>1. CASE c = h
    <3>1. dirty[h] => data[h] = disk[blockno[h]]
      BY <1>1, <1>2 DEF Core, FlagInv
    <3> QED  BY <1>5, <2>1, <3>1
  <2>2. CASE c # h
    BY <1>4, <1>5, <2>2, ZenonT(30) DEF Core, ValidMatchesDisk
  <2> QED  BY <2>1, <2>2
<1> QED
  BY <1>10, <1>11, <1>12, <1>13, <1>14, <1>15 DEF Core

-----------------------------------------------------------------------------
(* Refinement: what the abstract store shows, state by state and step by     *)
(* step.                                                                     *)

(* The current content of a block is that of its valid copy, if it has one. *)
ContentFact ==
  \A k \in Blocks :
    /\ \A b \in Bufs : blockno[b] = k /\ valid[b] => Content(k) = data[b]
    /\ (\A b \in Bufs : ~(blockno[b] = k /\ valid[b])) => Content(k) = disk[k]

(* A block is owned by the process that bread() has returned it to. *)
OwnerFact ==
  /\ \A p \in Procs : InUse(p) => /\ want[p] \in Blocks /\ buf[p] \in Bufs
                                  /\ blockno[buf[p]] = want[p] /\ valid[buf[p]]
  /\ \A k \in Blocks, p \in Procs : InUse(p) /\ want[p] = k => Owner(k) = p
  /\ \A k \in Blocks : (\A p \in Procs : ~(InUse(p) /\ want[p] = k)) => Owner(k) = NoProc

(* OneHolder makes the copy of a block unique. *)
LEMMA ContentIs == Core => ContentFact
<1> SUFFICES ASSUME Core, NEW k \in Blocks
             PROVE  /\ \A b \in Bufs : blockno[b] = k /\ valid[b] => Content(k) = data[b]
                    /\ (\A b \in Bufs : ~(blockno[b] = k /\ valid[b])) => Content(k) = disk[k]
  BY DEF ContentFact
<1>1. ASSUME NEW b \in Bufs, blockno[b] = k, valid[b] PROVE Content(k) = data[b]
  <2>1. k # NoBlock
    BY BcacheConstants
  <2>2. Cached(k) = {b}
    BY <1>1, <2>1, ZenonT(30) DEF Core, OneHolder, Cached
  <2>3. (CHOOSE c \in Cached(k) : TRUE) = b
    BY <2>2
  <2> QED  BY <1>1, <2>2, <2>3, ZenonT(30) DEF Content
<1>2. ASSUME \A b \in Bufs : ~(blockno[b] = k /\ valid[b]) PROVE Content(k) = disk[k]
  <2>1. \A b \in Cached(k) : ~(valid[b] \/ dirty[b])
    BY <1>2, ZenonT(30) DEF Cached, Core, FlagInv
  <2> QED  BY <2>1, ZenonT(30) DEF Content
<1> QED
  BY <1>1, <1>2

(* And so its user. *)
LEMMA OwnerIs == Core => OwnerFact
<1> SUFFICES ASSUME Core PROVE OwnerFact
  OBVIOUS
<1>1. ASSUME NEW p \in Procs, InUse(p)
      PROVE  buf[p] \in Bufs /\ blockno[buf[p]] = want[p] /\ want[p] \in Blocks /\ Holds(p) /\ valid[buf[p]]
  <2>1. Holds(p) /\ pc[p] # "idle" /\ valid[buf[p]]
    BY <1>1 DEF InUse, Holds
  <2> QED  BY <2>1 DEF Core, HolderInv
<1>2. ASSUME NEW p \in Procs, InUse(p), NEW q \in Procs, InUse(q), want[p] = want[q]
      PROVE  p = q
  <2>1. /\ buf[p] \in Bufs /\ blockno[buf[p]] = want[p] /\ want[p] \in Blocks /\ Holds(p)
        /\ buf[q] \in Bufs /\ blockno[buf[q]] = want[q] /\ Holds(q)
    BY <1>1, <1>2
  <2>2. want[p] # NoBlock
    BY BcacheConstants, <2>1
  <2>3. buf[p] = buf[q]
    <3>1. blockno[buf[p]] = blockno[buf[q]] /\ blockno[buf[p]] # NoBlock
      BY <1>2, <2>1, <2>2
    <3> QED  BY <2>1, <3>1, ZenonT(30) DEF Core, OneHolder
  <2> QED  BY <2>1, <2>3, ZenonT(30) DEF Core, OneHolder
<1>3. ASSUME NEW p \in Procs, InUse(p) PROVE Owner(want[p]) = p
  <2>1. \A q \in Procs : InUse(q) /\ blockno[buf[q]] = want[p] <=> q = p
    BY <1>1, <1>2, <1>3, ZenonT(30)
  <2> QED  BY <2>1, ZenonT(30) DEF Owner
<1>4. ASSUME NEW k \in Blocks, \A p \in Procs : ~(InUse(p) /\ want[p] = k) PROVE Owner(k) = NoProc
  <2>1. \A q \in Procs : ~(InUse(q) /\ blockno[buf[q]] = k)
    BY <1>1, <1>4, ZenonT(30)
  <2> QED  BY <2>1, ZenonT(30) DEF Owner
<1> QED
  BY <1>1, <1>3, <1>4 DEF OwnerFact

(* The same of the next state. *)
LEMMA NextIs == Core' => ContentFact' /\ OwnerFact'
BY ContentIs, OwnerIs, PTL

(* Steps that change no content: a copy stays as it is, or is lost when it   *)
(* equals the disk, or is read from the disk; and the disk only changes      *)
(* under a valid copy.                                                       *)
LEMMA SameContent ==
  ASSUME Core, Core',
         \A b \in Bufs : valid'[b] /\ valid[b] => blockno'[b] = blockno[b] /\ data'[b] = data[b],
         \A b \in Bufs : valid'[b] /\ ~valid[b] =>
                           blockno'[b] = blockno[b] /\ data'[b] = disk[blockno[b]],
         \A b \in Bufs : valid[b] /\ ~valid'[b] => data[b] = disk'[blockno[b]],
         \A k \in Blocks : (\A b \in Bufs : ~(blockno[b] = k /\ valid[b])) => disk'[k] = disk[k]
  PROVE  \A k \in Blocks : Content(k)' = Content(k)
<1> SUFFICES ASSUME NEW k \in Blocks PROVE Content(k)' = Content(k)
  OBVIOUS
<1>1. ContentFact /\ ContentFact' /\ k # NoBlock
  BY ContentIs, NextIs, BcacheConstants
<1>2. CASE \E b \in Bufs : blockno'[b] = k /\ valid'[b]
  <2>1. PICK b \in Bufs : blockno'[b] = k /\ valid'[b]
    BY <1>2
  <2>2. Content(k)' = data'[b]
    BY <1>1, <2>1 DEF ContentFact
  <2>3. CASE valid[b]
    <3>1. Content(k) = data[b]
      BY <1>1, <2>1, <2>3 DEF ContentFact
    <3> QED  BY <2>1, <2>2, <2>3, <3>1
  <2>4. CASE ~valid[b]
    <3>1. blockno[b] = k /\ data'[b] = disk[k]
      BY <2>1, <2>4
    <3>2. \A c \in Bufs : blockno[c] = k => c = b
      BY <1>1, <3>1, ZenonT(30) DEF Core, OneHolder
    <3>3. \A c \in Bufs : ~(blockno[c] = k /\ valid[c])
      BY <2>4, <3>2
    <3>4. Content(k) = disk[k]
      BY <1>1, <3>3 DEF ContentFact
    <3> QED  BY <2>2, <3>1, <3>4
  <2> QED  BY <2>3, <2>4
<1>3. CASE \A b \in Bufs : ~(blockno'[b] = k /\ valid'[b])
  <2>1. Content(k)' = disk'[k]
    BY <1>1, <1>3 DEF ContentFact
  <2>2. CASE \E b \in Bufs : blockno[b] = k /\ valid[b]
    <3>1. PICK b \in Bufs : blockno[b] = k /\ valid[b]
      BY <2>2
    <3>2. Content(k) = data[b]
      BY <1>1, <3>1 DEF ContentFact
    <3> QED  BY <1>3, <2>1, <3>1, <3>2
  <2>3. CASE \A b \in Bufs : ~(blockno[b] = k /\ valid[b])
    <3>1. Content(k) = disk[k]
      BY <1>1, <2>3 DEF ContentFact
    <3> QED  BY <2>1, <2>3, <3>1
  <2> QED  BY <2>2, <2>3
<1> QED
  BY <1>2, <1>3

(* A block keeps its owner. *)
LEMMA SameOwner ==
  ASSUME Core, Core', NEW k \in Blocks,
         \A q \in Procs : InUse(q)' /\ want'[q] = k <=> InUse(q) /\ want[q] = k
  PROVE  Owner(k)' = Owner(k)
<1>1. OwnerFact /\ OwnerFact'
  BY OwnerIs, NextIs
<1>2. CASE \E q \in Procs : InUse(q) /\ want[q] = k
  <2>1. PICK q \in Procs : InUse(q) /\ want[q] = k
    BY <1>2
  <2>2. Owner(k) = q
    BY <1>1, <2>1, ZenonT(30) DEF OwnerFact
  <2>3. Owner(k)' = q
    BY <1>1, <2>1, ZenonT(30) DEF OwnerFact
  <2> QED  BY <2>2, <2>3
<1>3. CASE \A q \in Procs : ~(InUse(q) /\ want[q] = k)
  <2>1. Owner(k) = NoProc
    BY <1>1, <1>3, ZenonT(30) DEF OwnerFact
  <2>2. Owner(k)' = NoProc
    BY <1>1, <1>3, ZenonT(30) DEF OwnerFact
  <2> QED  BY <2>1, <2>2
<1> QED
  BY <1>2, <1>3

(* A process other than p uses a block after a step as before it. *)
StillUses(q) ==
  /\ InUse(q)' <=> InUse(q)
  /\ InUse(q) => want'[q] = want[q] /\ data'[buf'[q]] = data[buf[q]]

(* Steps that the store does not show. *)
LEMMA StoreStutters ==
  ASSUME Core, Core', \A k \in Blocks : Content(k)' = Content(k), \A q \in Procs : StillUses(q)
  PROVE  UNCHANGED Store!svars
<1>2. ASSUME NEW k \in Blocks PROVE Owner(k)' = Owner(k)
  <2>1. \A q \in Procs : InUse(q)' /\ want'[q] = k <=> InUse(q) /\ want[q] = k
    BY ZenonT(30) DEF StillUses
  <2> QED  BY <2>1, SameOwner
<1>3. [k \in Blocks |-> Content(k)'] = [k \in Blocks |-> Content(k)]
  BY ZenonT(30)
<1>4. [k \in Blocks |-> Owner(k)'] = [k \in Blocks |-> Owner(k)]
  BY <1>2, ZenonT(30)
<1>5. [p \in Procs |-> IF InUse(p)' THEN data'[buf'[p]] ELSE NoValue]
        = [p \in Procs |-> IF InUse(p) THEN data[buf[p]] ELSE NoValue]
  BY ZenonT(30) DEF StillUses
<1> QED
  BY <1>3, <1>4, <1>5 DEF Store!svars

(* Process p gets a block. *)
LEMMA StoreBread ==
  ASSUME Core, Core', \A k \in Blocks : Content(k)' = Content(k),
         NEW p \in Procs, ~InUse(p), InUse(p)', \A q \in Procs \ {p} : StillUses(q)
  PROVE  Store!Next
<1>1. OwnerFact /\ OwnerFact' /\ ContentFact'
  BY OwnerIs, NextIs
<1>2. PICK k \in Blocks : k = want'[p] /\ data'[buf'[p]] = Content(k)
  <2>1. want'[p] \in Blocks /\ buf'[p] \in Bufs /\ blockno'[buf'[p]] = want'[p] /\ valid'[buf'[p]]
    BY <1>1 DEF OwnerFact
  <2> QED  BY <1>1, <2>1, ZenonT(30) DEF ContentFact
<1>3. Owner(k)' = p
  BY <1>1, <1>2, ZenonT(30) DEF OwnerFact
<1>4. Owner(k) = NoProc
  <2>1. ASSUME NEW q \in Procs, InUse(q), want[q] = k PROVE FALSE
    <3>1. q # p /\ InUse(q)' /\ want'[q] = k
      BY <2>1, ZenonT(30) DEF StillUses
    <3>2. Owner(k)' = q
      BY <1>1, <3>1, ZenonT(30) DEF OwnerFact
    <3> QED  BY <1>3, <3>1, <3>2
  <2> QED  BY <1>1, <2>1, ZenonT(30) DEF OwnerFact
<1>5. ASSUME NEW j \in Blocks, j # k PROVE Owner(j)' = Owner(j)
  <2>1. \A q \in Procs : InUse(q)' /\ want'[q] = j <=> InUse(q) /\ want[q] = j
    BY <1>2, <1>5, ZenonT(30) DEF StillUses
  <2> QED  BY <2>1, SameOwner
<1> DEFINE own == [j \in Blocks |-> Owner(j)]
           view == [q \in Procs |-> IF InUse(q) THEN data[buf[q]] ELSE NoValue]
           con == [j \in Blocks |-> Content(j)]
<1>6. own[k] = NoProc /\ view[p] = NoValue /\ con[k] = Content(k)
  BY <1>4
<1>7. [j \in Blocks |-> Owner(j)'] = [own EXCEPT ![k] = p]
  BY <1>3, <1>5, ZenonT(30)
<1>8. [q \in Procs |-> IF InUse(q)' THEN data'[buf'[q]] ELSE NoValue] = [view EXCEPT ![p] = con[k]]
  BY <1>2, <1>6, ZenonT(30) DEF StillUses
<1>9. [j \in Blocks |-> Content(j)'] = con
  BY ZenonT(30)
<1>10. Store!Bread(p, k)
  BY <1>6, <1>7, <1>8, <1>9 DEF Store!Bread
<1> QED
  BY <1>10 DEF Store!Next

(* Process p gives its block up. *)
LEMMA StoreBrelse ==
  ASSUME Core, Core', \A k \in Blocks : Content(k)' = Content(k),
         NEW p \in Procs, InUse(p), ~InUse(p)', \A q \in Procs \ {p} : StillUses(q)
  PROVE  Store!Next
<1>1. OwnerFact /\ OwnerFact'
  BY OwnerIs, NextIs
<1>2. PICK k \in Blocks : k = want[p]
  BY <1>1 DEF OwnerFact
<1>3. Owner(k) = p
  BY <1>1, <1>2, ZenonT(30) DEF OwnerFact
<1>4. Owner(k)' = NoProc
  <2>1. ASSUME NEW q \in Procs, InUse(q)', want'[q] = k PROVE FALSE
    <3>1. q # p /\ InUse(q) /\ want[q] = k
      BY <2>1, ZenonT(30) DEF StillUses
    <3>2. Owner(k) = q
      BY <1>1, <3>1, ZenonT(30) DEF OwnerFact
    <3> QED  BY <1>3, <3>1, <3>2
  <2> QED  BY <1>1, <2>1, ZenonT(30) DEF OwnerFact
<1>5. ASSUME NEW j \in Blocks, j # k PROVE Owner(j)' = Owner(j)
  <2>1. \A q \in Procs : InUse(q)' /\ want'[q] = j <=> InUse(q) /\ want[q] = j
    BY <1>2, <1>5, ZenonT(30) DEF StillUses
  <2> QED  BY <2>1, SameOwner
<1> DEFINE own == [j \in Blocks |-> Owner(j)]
           view == [q \in Procs |-> IF InUse(q) THEN data[buf[q]] ELSE NoValue]
           con == [j \in Blocks |-> Content(j)]
<1>6. own[k] = p
  BY <1>3
<1>7. [j \in Blocks |-> Owner(j)'] = [own EXCEPT ![k] = NoProc]
  BY <1>4, <1>5, ZenonT(30)
<1>8. [q \in Procs |-> IF InUse(q)' THEN data'[buf'[q]] ELSE NoValue] = [view EXCEPT ![p] = NoValue]
  BY ZenonT(30) DEF StillUses
<1>9. [j \in Blocks |-> Content(j)'] = con
  BY ZenonT(30)
<1>10. Store!Brelse(p, k)
  BY <1>6, <1>7, <1>8, <1>9 DEF Store!Brelse
<1> QED
  BY <1>10 DEF Store!Next

(* The user of a block changes it. *)
LEMMA StoreWrite ==
  ASSUME Core, Core', NEW p \in Procs, NEW v \in Values, pc[p] = "use", Holds(p)',
         data' = [data EXCEPT ![buf[p]] = v],
         UNCHANGED <<blockno, valid, disk, buf, want>>,
         \A q \in Procs : Holds(q)' <=> Holds(q)
  PROVE  Store!Next
<1>1. OwnerFact /\ ContentFact /\ ContentFact'
  BY OwnerIs, ContentIs, NextIs
<1>2. PICK b \in Bufs : b = buf[p] /\ valid[b] /\ blockno[b] = want[p] /\ want[p] \in Blocks
  BY UserAlone
<1>3. PICK k \in Blocks : k = want[p]
  BY <1>2
<1>4. /\ Holds(p) /\ InUse(p) /\ \A q \in Procs : InUse(q)' <=> InUse(q)
      /\ \A q \in Procs \ {p} : InUse(q) => buf[q] # b /\ buf[q] \in Bufs
  <2>1. Holds(p) /\ InUse(p)
    BY <1>2, UserAlone DEF InUse
  <2>2. \A q \in Procs : InUse(q)' <=> InUse(q)
    BY ZenonT(30) DEF InUse
  <2>3. \A q \in Procs \ {p} : InUse(q) => buf[q] # b /\ buf[q] \in Bufs
    BY <1>1, <1>2, UserAlone, ZenonT(30) DEF InUse, OwnerFact
  <2> QED  BY <2>1, <2>2, <2>3
<1>5. data'[b] = v /\ \A c \in Bufs : c # b => data'[c] = data[c]
  BY <1>2 DEF Core, TypeOK
<1>6. Owner(k) = p
  BY <1>1, <1>3, <1>4, ZenonT(30) DEF OwnerFact
<1>7. ASSUME NEW j \in Blocks PROVE Owner(j)' = Owner(j)
  <2>1. \A q \in Procs : InUse(q)' /\ want'[q] = j <=> InUse(q) /\ want[q] = j
    BY <1>4, ZenonT(30)
  <2> QED  BY <2>1, SameOwner
<1>8. Content(k)' = v
  <2>1. blockno'[b] = k /\ valid'[b]
    BY <1>2, <1>3
  <2> QED  BY <1>1, <1>5, <2>1 DEF ContentFact
<1>9. ASSUME NEW j \in Blocks, j # k PROVE Content(j)' = Content(j)
  <2>1. CASE \E c \in Bufs : blockno[c] = j /\ valid[c]
    <3>1. PICK c \in Bufs : blockno[c] = j /\ valid[c]
      BY <2>1
    <3>2. c # b
      BY <1>2, <1>3, <1>9, <3>1
    <3>3. Content(j) = data[c]
      BY <1>1, <3>1 DEF ContentFact
    <3>4. Content(j)' = data'[c]
      BY <1>1, <3>1 DEF ContentFact
    <3> QED  BY <1>5, <3>2, <3>3, <3>4
  <2>2. CASE \A c \in Bufs : ~(blockno[c] = j /\ valid[c])
    <3>1. Content(j) = disk[j]
      BY <1>1, <2>2 DEF ContentFact
    <3>2. Content(j)' = disk'[j]
      BY <1>1, <2>2 DEF ContentFact
    <3> QED  BY <3>1, <3>2
  <2> QED  BY <2>1, <2>2
<1> DEFINE own == [j \in Blocks |-> Owner(j)]
           view == [q \in Procs |-> IF InUse(q) THEN data[buf[q]] ELSE NoValue]
           con == [j \in Blocks |-> Content(j)]
<1>10. own[k] = p
  BY <1>6
<1>11. [j \in Blocks |-> Owner(j)'] = own
  BY <1>7, ZenonT(30)
<1>12. [q \in Procs |-> IF InUse(q)' THEN data'[buf'[q]] ELSE NoValue] = [view EXCEPT ![p] = v]
  <2>1. ASSUME NEW q \in Procs
        PROVE  (IF InUse(q)' THEN data'[buf'[q]] ELSE NoValue)
                 = IF q = p THEN v ELSE IF InUse(q) THEN data[buf[q]] ELSE NoValue
    BY <1>2, <1>4, <1>5, ZenonT(30)
  <2> QED  BY <2>1, ZenonT(30)
<1>13. [j \in Blocks |-> Content(j)'] = [con EXCEPT ![k] = v]
  BY <1>8, <1>9, ZenonT(30)
<1>14. Store!Write(p, k)
  BY <1>10, <1>11, <1>12, <1>13 DEF Store!Write
<1> QED
  BY <1>14 DEF Store!Next

(* bread() and the sleeps of bget() and iderw(): buffers and disk stay. *)
LEMMA QuietStep ==
  ASSUME Core, Core', NEW p \in Procs,
         UNCHANGED <<blockno, valid, data, disk>>,
         Holds(p)' <=> Holds(p),
         Holds(p) => buf'[p] = buf[p] /\ want'[p] = want[p],
         \A q \in Procs \ {p} : pc'[q] = pc[q] /\ buf'[q] = buf[q] /\ want'[q] = want[q]
  PROVE  UNCHANGED Store!svars
<1>1. \A k \in Blocks : Content(k)' = Content(k)
  BY SameContent, ZenonT(30)
<1>2. \A q \in Procs : StillUses(q)
  <2>1. \A q \in Procs \ {p} : Holds(q)' <=> Holds(q)
    BY DEF Holds
  <2> QED  BY <2>1, ZenonT(30) DEF StillUses, InUse
<1> QED
  BY <1>1, <1>2, StoreStutters

(* A call of bread() shows nothing yet. *)
LEMMA bread_sim ==
  ASSUME Core, Core', NEW p \in Procs, NEW k \in Blocks, bread(p, k)
  PROVE  UNCHANGED Store!svars
<1>1. /\ pc[p] = "idle" /\ pc' = [pc EXCEPT ![p] = "bget"] /\ want' = [want EXCEPT ![p] = k]
      /\ UNCHANGED <<blockno, valid, data, disk, buf>>
  BY ZenonT(30) DEF bread, bufVars
<1>2. /\ ~Holds(p)' /\ ~Holds(p)
      /\ \A q \in Procs \ {p} : pc'[q] = pc[q] /\ want'[q] = want[q]
  BY <1>1 DEF Core, TypeOK, Holds
<1> QED
  BY <1>1, <1>2, QuietStep, ZenonT(30)

(* Nor does waiting for a buffer. *)
LEMMA bget_sleep_sim ==
  ASSUME Core, Core', NEW p \in Procs, bget_sleep(p)
  PROVE  UNCHANGED Store!svars
<1>1. PICK b \in Cached(want[p]) :
        buf' = [buf EXCEPT ![p] = b] /\ pc' = [pc EXCEPT ![p] = "bget_asleep"]
  BY ZenonT(30) DEF bget_sleep
<1>2. pc[p] = "bget" /\ UNCHANGED <<blockno, valid, data, disk, want>>
  BY ZenonT(30) DEF bget_sleep, bufVars
<1>3. /\ ~Holds(p)' /\ ~Holds(p)
      /\ \A q \in Procs \ {p} : pc'[q] = pc[q] /\ buf'[q] = buf[q]
  BY <1>1, <1>2 DEF Core, TypeOK, Holds
<1> QED
  BY <1>2, <1>3, QuietStep, ZenonT(30)

(* Nor does a panic. *)
LEMMA bget_panic_sim ==
  ASSUME Core, Core', NEW p \in Procs, bget_panic(p)
  PROVE  UNCHANGED Store!svars
<1>1. /\ pc[p] = "bget" /\ pc' = [pc EXCEPT ![p] = "panic"]
      /\ UNCHANGED <<blockno, valid, data, disk, buf, want>>
  BY ZenonT(30) DEF bget_panic, bufVars
<1>2. ~Holds(p)' /\ ~Holds(p) /\ \A q \in Procs \ {p} : pc'[q] = pc[q]
  BY <1>1 DEF Core, TypeOK, Holds
<1> QED
  BY <1>1, <1>2, QuietStep, ZenonT(30)

(* Nor does iderw(), before and after its sleep. *)
LEMMA iderw_sim ==
  ASSUME Core, Core', NEW p \in Procs, RwStep(p)
  PROVE  UNCHANGED Store!svars
<1>1. PICK x \in {"rw_asleep", "use"} :
        pc[p] \in {"rw", "rw_woken"} /\ pc' = [pc EXCEPT ![p] = x]
  BY DEF RwStep, iderw, iderw_woken
<1>2. UNCHANGED <<blockno, valid, data, disk, buf, want>>
  BY ZenonT(30) DEF RwStep, iderw, iderw_woken, bufVars
<1>3. Holds(p)' /\ Holds(p) /\ \A q \in Procs \ {p} : pc'[q] = pc[q]
  BY <1>1 DEF Core, TypeOK, Holds
<1> QED
  BY <1>2, <1>3, QuietStep, ZenonT(30)

(* bget() finds the block: bread() returns it if it is valid. *)
LEMMA bget_hit_sim ==
  ASSUME Core, Core', NEW p \in Procs, bget_hit(p)
  PROVE  Store!Next \/ UNCHANGED Store!svars
<1>1. PICK b \in Cached(want[p]) :
        buf' = [buf EXCEPT ![p] = b] /\ pc' = [pc EXCEPT ![p] = AfterBget(b)]
  BY ZenonT(30) DEF bget_hit
<1>2. pc[p] = "bget" /\ UNCHANGED <<blockno, valid, data, disk, want>>
  BY ZenonT(30) DEF bget_hit
<1>3. /\ Holds(p)' /\ ~Holds(p) /\ buf'[p] = b
      /\ \A q \in Procs \ {p} : pc'[q] = pc[q] /\ buf'[q] = buf[q]
  BY <1>1, <1>2 DEF Core, TypeOK, Holds, AfterBget
<1>4. \A q \in Procs \ {p} : StillUses(q)
  <2>1. \A q \in Procs \ {p} : Holds(q)' <=> Holds(q)
    BY <1>3 DEF Holds
  <2> QED  BY <1>2, <1>3, <2>1, ZenonT(30) DEF StillUses, InUse
<1>5. \A k \in Blocks : Content(k)' = Content(k)
  BY <1>2, SameContent, ZenonT(30)
<1>6. CASE valid[b]
  <2>1. InUse(p)' /\ ~InUse(p)
    BY <1>2, <1>3, <1>6, ZenonT(30) DEF InUse
  <2> QED  BY <1>4, <1>5, <2>1, StoreBread
<1>7. CASE ~valid[b]
  <2>1. StillUses(p)
    BY <1>2, <1>3, <1>7, ZenonT(30) DEF InUse, StillUses
  <2>2. \A q \in Procs : StillUses(q)
    BY <1>4, <2>1
  <2> QED  BY <1>5, <2>2, StoreStutters
<1> QED
  BY <1>6, <1>7

(* A recycled buffer was clean: the disk has the content of its block. *)
LEMMA bget_recycle_sim ==
  ASSUME Core, Core', ~ReadErrors, NEW p \in Procs, bget_recycle(p)
  PROVE  UNCHANGED Store!svars
<1>1. PICK i \in 1 .. NBUF :
        /\ Recyclable(lru[i])
        /\ blockno' = [blockno EXCEPT ![lru[i]] = want[p]]
        /\ valid' = [valid EXCEPT ![lru[i]] = FALSE]
        /\ buf' = [buf EXCEPT ![p] = lru[i]]
  BY ZenonT(30) DEF bget_recycle, FlagWhenRecycled
<1>2. /\ pc[p] = "bget" /\ pc' = [pc EXCEPT ![p] = "rw"]
      /\ UNCHANGED <<data, disk, want>>
  BY ZenonT(30) DEF bget_recycle
<1>3. PICK b \in Bufs : b = lru[i]
  BY ZenonT(30) DEF Core, TypeOK
<1>4. ~busy[b] /\ ~dirty[b] /\ \A q \in Procs : Holds(q) => buf[q] # b /\ buf[q] \in Bufs
  BY <1>1, <1>3, ZenonT(30) DEF Core, OneHolder, HolderInv, Recyclable
<1>5. ~valid'[b] /\ \A c \in Bufs : c # b => (valid'[c] <=> valid[c])
  BY <1>1, <1>3, ZenonT(30) DEF Core, TypeOK
<1>6. \A c \in Bufs : c # b => blockno'[c] = blockno[c]
  BY <1>1, <1>3, SMTT(30) DEF Core, TypeOK
<1>7. /\ ~Holds(p) /\ buf'[p] = b
      /\ \A q \in Procs \ {p} : (Holds(q)' <=> Holds(q)) /\ buf'[q] = buf[q]
  BY <1>1, <1>2, <1>3 DEF Core, TypeOK, Holds
<1>8. \A k \in Blocks : Content(k)' = Content(k)
  <2>1. \A c \in Bufs : valid'[c] => valid[c] /\ blockno'[c] = blockno[c]
    BY <1>5, <1>6, ZenonT(30)
  <2>2. \A c \in Bufs : valid[c] /\ ~valid'[c] => data[c] = disk[blockno[c]]
    BY <1>4, <1>5, ZenonT(30) DEF Core, ValidMatchesDisk
  <2> QED  BY <1>2, <2>1, <2>2, SameContent, ZenonT(30)
<1>9. \A q \in Procs : StillUses(q)
  <2>1. StillUses(p)
    BY <1>5, <1>7, ZenonT(30) DEF StillUses, InUse
  <2>2. ASSUME NEW q \in Procs \ {p} PROVE StillUses(q)
    BY <1>2, <1>4, <1>5, <1>7, ZenonT(30) DEF StillUses, InUse
  <2> QED  BY <2>1, <2>2
<1> QED
  BY <1>8, <1>9, StoreStutters

(* bwrite() and log_write() change the content at once. *)
LEMMA write_sim ==
  ASSUME Core, Core', NEW p \in Procs, NEW v \in Values, bwrite(p, v) \/ log_write(p, v)
  PROVE  Store!Next
<1>1. /\ pc[p] = "use" /\ data' = [data EXCEPT ![buf[p]] = v]
      /\ UNCHANGED <<blockno, valid, disk, buf, want>>
      /\ pc' = pc \/ pc' = [pc EXCEPT ![p] = "rw"]
  BY ZenonT(30) DEF bwrite, log_write, procVars
<1>2. Holds(p)' /\ \A q \in Procs : Holds(q)' <=> Holds(q)
  BY <1>1 DEF Core, TypeOK, Holds
<1> QED
  BY <1>1, <1>2, StoreWrite, ZenonT(30)

(* brelse() gives the block up. *)
LEMMA brelse_sim ==
  ASSUME Core, Core', NEW p \in Procs, brelse(p)
  PROVE  Store!Next
<1>1. /\ pc[p] = "use" /\ pc' = [Wakeup(buf[p]) EXCEPT ![p] = "idle"]
      /\ buf' = [buf EXCEPT ![p] = NoBuf] /\ want' = [want EXCEPT ![p] = NoBlock]
      /\ UNCHANGED <<blockno, valid, data, disk>>
  BY ZenonT(30) DEF brelse, Released
<1>2. /\ ~Holds(p)'
      /\ \A q \in Procs \ {p} : (Holds(q)' <=> Holds(q)) /\ buf'[q] = buf[q] /\ want'[q] = want[q]
  BY <1>1, SMTT(30) DEF Core, TypeOK, Holds, Wakeup
<1>3. InUse(p) /\ ~InUse(p)'
  BY <1>1, <1>2, UserAlone DEF InUse
<1>4. \A q \in Procs \ {p} : StillUses(q)
  BY <1>1, <1>2, ZenonT(30) DEF StillUses, InUse
<1>5. \A k \in Blocks : Content(k)' = Content(k)
  BY <1>1, SameContent, ZenonT(30)
<1> QED
  BY <1>3, <1>4, <1>5, StoreBrelse

(* The disk changes only under a valid copy. *)
LEMMA disk_done_sim ==
  ASSUME Core, Core', disk_done
  PROVE  UNCHANGED Store!svars
<1>1. /\ idequeue # <<>>
      /\ disk' = IF dirty[Head(idequeue)]
                 THEN [disk EXCEPT ![blockno[Head(idequeue)]] = data[Head(idequeue)]]
                 ELSE disk
      /\ UNCHANGED <<blockno, valid, data, pc, buf, want>>
  BY ZenonT(30) DEF disk_done, bufVars, procVars
<1>2. PICK h \in Bufs : h = Head(idequeue) /\ blockno[h] \in Blocks
  BY <1>1, HeadHeld
<1>3. \A k \in Blocks : (\A b \in Bufs : ~(blockno[b] = k /\ valid[b])) => disk'[k] = disk[k]
  <2>1. CASE dirty[h]
    <3>1. valid[h]
      BY <2>1 DEF Core, FlagInv
    <3>2. \A k \in Blocks : k # blockno[h] => disk'[k] = disk[k]
      BY <1>1, <1>2, <2>1 DEF Core, TypeOK
    <3> QED  BY <3>1, <3>2
  <2>2. CASE ~dirty[h]
    BY <1>1, <1>2, <2>2
  <2> QED  BY <2>1, <2>2
<1>4. \A k \in Blocks : Content(k)' = Content(k)
  BY <1>1, <1>3, SameContent, ZenonT(30)
<1>5. \A q \in Procs : StillUses(q)
  BY <1>1, ZenonT(30) DEF StillUses, InUse, Holds
<1> QED
  BY <1>4, <1>5, StoreStutters

(* The interrupt after a read returns the block to the process that waits    *)
(* for it; the one after a write changes nothing.                            *)
LEMMA ideintr_sim ==
  ASSUME Core, Core', ~ReadErrors, ideintr
  PROVE  Store!Next \/ UNCHANGED Store!svars
<1>1. /\ idequeue # <<>>
      /\ \/ ~dirty[Head(idequeue)]
            /\ data' = [data EXCEPT ![Head(idequeue)] = disk[blockno[Head(idequeue)]]]
         \/ dirty[Head(idequeue)] /\ data' = data
      /\ valid' = [valid EXCEPT ![Head(idequeue)] = TRUE]
      /\ pc' = Wakeup(Head(idequeue))
      /\ UNCHANGED <<blockno, disk, buf, want>>
  BY ZenonT(30) DEF ideintr
<1>2. PICK h \in Bufs : h = Head(idequeue) /\ ~Done(h)
  BY <1>1, HeadHeld
<1>3. valid'[h] /\ \A c \in Bufs : c # h => (valid'[c] <=> valid[c])
  BY <1>1, <1>2, ZenonT(30) DEF Core, TypeOK
<1>4. \A q \in Procs : Holds(q)' <=> Holds(q)
  BY <1>1 DEF Holds, Wakeup
<1>5. \A q \in Procs : Holds(q) => buf[q] \in Bufs
  BY ZenonT(30) DEF Core, HolderInv
<1>6. CASE dirty[h]
  <2>1. valid[h]
    BY <1>6 DEF Core, FlagInv
  <2>2. data' = data /\ \A c \in Bufs : valid'[c] <=> valid[c]
    BY <1>1, <1>2, <1>3, <1>6, <2>1, ZenonT(30)
  <2>3. \A k \in Blocks : Content(k)' = Content(k)
    BY <1>1, <2>2, SameContent, ZenonT(30)
  <2>4. \A q \in Procs : StillUses(q)
    BY <1>1, <1>4, <1>5, <2>2, ZenonT(30) DEF StillUses, InUse
  <2> QED  BY <2>3, <2>4, StoreStutters
<1>7. CASE ~dirty[h]
  <2>1. ~valid[h] /\ data' = [data EXCEPT ![h] = disk[blockno[h]]]
    BY <1>1, <1>2, <1>7, ZenonT(30) DEF Done
  <2>2. data'[h] = disk[blockno[h]] /\ \A c \in Bufs : c # h => data'[c] = data[c]
    BY <2>1 DEF Core, TypeOK
  <2>3. \A k \in Blocks : Content(k)' = Content(k)
    <3>1. \A b \in Bufs : valid'[b] /\ valid[b] => data'[b] = data[b]
      BY <2>1, <2>2, ZenonT(30)
    <3>2. \A b \in Bufs : valid'[b] /\ ~valid[b] => data'[b] = disk[blockno[b]]
      BY <1>3, <2>2, ZenonT(30)
    <3>3. \A b \in Bufs : valid[b] => valid'[b]
      BY <1>3, ZenonT(30)
    <3> QED  BY <1>1, <3>1, <3>2, <3>3, SameContent, ZenonT(30)
  <2>4. PICK p \in Procs : buf[p] = h /\ Holds(p)
    <3>1. 1 \in DOMAIN idequeue /\ Head(idequeue) = idequeue[1]
      BY <1>1, SMTT(30) DEF Core, TypeOK
    <3>2. PICK p \in Procs : buf[p] = h /\ pc[p] \in {"rw_asleep", "rw_woken"}
      BY <1>2, <3>1 DEF Core, QueueSound
    <3>3. Holds(p)
      BY <3>2 DEF Holds
    <3> QED  BY <3>2, <3>3
  <2>5. InUse(p)' /\ ~InUse(p)
    BY <1>1, <1>3, <1>4, <2>1, <2>4, ZenonT(30) DEF InUse
  <2>6. ASSUME NEW q \in Procs \ {p} PROVE StillUses(q)
    <3>1. Holds(q) => buf[q] # h /\ buf[q] \in Bufs
      BY <1>5, <2>4, ZenonT(30) DEF Core, OneHolder
    <3> QED  BY <1>1, <1>3, <1>4, <2>2, <3>1, ZenonT(30) DEF StillUses, InUse
  <2> QED  BY <2>3, <2>5, <2>6, StoreBread
<1> QED
  BY <1>6, <1>7

-----------------------------------------------------------------------------
(* binit() leaves a state of the invariant. *)
LEMMA InitCore == Init => Core
<1> SUFFICES ASSUME Init PROVE Core
  OBVIOUS
<1>1. (CHOOSE v \in Values : TRUE) \in Values
  BY BcacheConstants
<1>2. TypeOK
  <2>1. /\ lru \in [1 .. NBUF -> Bufs]
        /\ \A b \in Bufs : \E i \in 1 .. NBUF : lru[i] = b
    <3>1. lru \in [1 .. NBUF -> Bufs]
      BY BcacheConstants DEF Init, Bufs
    <3>2. ASSUME NEW b \in Bufs PROVE \E i \in 1 .. NBUF : lru[i] = b
      <4>1. NBUF + 1 - b \in 1 .. NBUF /\ lru[NBUF + 1 - b] = b
        BY BcacheConstants, SMTT(30) DEF Init, Bufs
      <4> QED  BY <4>1
    <3> QED  BY <3>1, <3>2
  <2>2. idequeue \in Seq(Bufs)
    BY DEF Init
  <2> QED  BY <1>1, <2>1, <2>2, ZenonT(30) DEF Init, TypeOK
<1>3. OneHolder
  BY ZenonT(30) DEF Init, OneHolder, Holds
<1>4. QueueSound
  BY DEF Init, QueueSound
<1>5. HolderInv
  BY ZenonT(30) DEF Init, HolderInv, Holds
<1>6. FlagInv
  BY DEF Init, FlagInv
<1>7. ValidMatchesDisk
  BY ZenonT(30) DEF Init, ValidMatchesDisk
<1> QED
  BY <1>2, <1>3, <1>4, <1>5, <1>6, <1>7 DEF Core

(* Every step keeps the invariant. *)
LEMMA NextCore ==
  ASSUME Core, [Next]_vars
  PROVE  Core'
<1>1. CASE UNCHANGED vars
  <2>1. UNCHANGED <<lru, blockno, busy, valid, dirty, data, idequeue, irq, disk, pc, buf, want>>
    BY <1>1 DEF vars
  <2>2. TypeOK'
    BY <2>1, SMTT(30) DEF Core, TypeOK
  <2>3. OneHolder' /\ HolderInv'
    BY <2>1, SMTT(30) DEF Core, OneHolder, HolderInv, Holds, Done
  <2>4. QueueSound'
    BY <2>1, SMTT(30) DEF Core, QueueSound
  <2>5. FlagInv'
    BY <2>1, ZenonT(30) DEF Core, FlagInv, Done
  <2>6. ReadErrors \/ ValidMatchesDisk'
    BY <2>1, ZenonT(30) DEF Core, ValidMatchesDisk
  <2> QED  BY <2>2, <2>3, <2>4, <2>5, <2>6 DEF Core
<1>2. CASE disk_done
  BY <1>2, disk_done_core
<1>3. CASE ideintr
  BY <1>3, ideintr_core
<1>4. ASSUME NEW p \in Procs, \E k \in Blocks : bread(p, k) PROVE Core'
  BY <1>4, bread_core
<1>5. ASSUME NEW p \in Procs, GetStep(p) PROVE Core'
  BY <1>5, bget_hit_core, bget_sleep_core, bget_recycle_core, bget_panic_core DEF GetStep
<1>6. ASSUME NEW p \in Procs, UseStep(p) PROVE Core'
  BY <1>6, brelse_core, bwrite_core, log_write_core DEF UseStep
<1>7. ASSUME NEW p \in Procs, RwStep(p) PROVE Core'
  BY <1>7, iderw_core, iderw_woken_core DEF RwStep
<1> QED
  BY <1>1, <1>2, <1>3, <1>4, <1>5, <1>6, <1>7 DEF Next

(* At first the content is on the disk and nobody uses it. *)
LEMMA InitStore == Init => Store!Init
<1> SUFFICES ASSUME Init PROVE Store!Init
  OBVIOUS
<1>1. Core
  BY InitCore
<1>2. \A p \in Procs : ~InUse(p)
  BY DEF Init, InUse, Holds
<1>3. \A k \in Blocks : Owner(k) = NoProc
  BY <1>1, <1>2, OwnerIs, ZenonT(30) DEF OwnerFact
<1>4. \A b \in Bufs : ~valid[b]
  BY ZenonT(30) DEF Init
<1>5. \A k \in Blocks : Content(k) = disk[k]
  BY <1>1, <1>4, ContentIs, ZenonT(30) DEF ContentFact
<1>6. [k \in Blocks |-> Content(k)] \in [Blocks -> Values]
  <2>1. disk \in [Blocks -> Values]
    BY DEF Init
  <2> QED  BY <1>5, <2>1, SMTT(30)
<1>7. [k \in Blocks |-> Owner(k)] = [k \in Blocks |-> NoProc]
  BY <1>3, ZenonT(30)
<1>8. [p \in Procs |-> IF InUse(p) THEN data[buf[p]] ELSE NoValue] = [p \in Procs |-> NoValue]
  BY <1>2, ZenonT(30)
<1> QED
  BY <1>6, <1>7, <1>8 DEF Store!Init

(* The cache is transparent: whoever gets a block sees its last content and  *)
(* uses it alone, whatever is recycled, queued, read or written meanwhile.   *)
(* It needs a disk that reports no errors: see ideintr().                    *)
THEOREM CacheRefinesStore == ~ReadErrors => (SafetySpec => CacheIsStore)
<1> SUFFICES ASSUME ~ReadErrors PROVE SafetySpec => CacheIsStore
  OBVIOUS
<1>1. Core /\ [Next]_vars => Core'
  BY NextCore
<1>2. Core /\ Core' /\ [Next]_vars => [Store!Next]_(Store!svars)
  <2> SUFFICES ASSUME Core, Core', [Next]_vars PROVE Store!Next \/ UNCHANGED Store!svars
    BY DEF Store!svars
  <2>1. ASSUME NEW p \in Procs, NEW k \in Blocks, bread(p, k) PROVE UNCHANGED Store!svars
    BY <2>1, bread_sim
  <2>2. ASSUME NEW p \in Procs, GetStep(p) PROVE Store!Next \/ UNCHANGED Store!svars
    BY <2>2, bget_hit_sim, bget_sleep_sim, bget_recycle_sim, bget_panic_sim DEF GetStep
  <2>3. ASSUME NEW p \in Procs, UseStep(p) PROVE Store!Next
    BY <2>3, brelse_sim, write_sim DEF UseStep
  <2>4. ASSUME NEW p \in Procs, RwStep(p) PROVE UNCHANGED Store!svars
    BY <2>4, iderw_sim
  <2>5. disk_done => UNCHANGED Store!svars
    BY disk_done_sim
  <2>6. ideintr => Store!Next \/ UNCHANGED Store!svars
    BY ideintr_sim
  <2>7. CASE UNCHANGED vars
    <3>1. UNCHANGED <<blockno, valid, data, disk, pc, buf, want>>
      BY <2>7 DEF vars
    <3>2. \A k \in Blocks : Content(k)' = Content(k)
      BY <3>1, SameContent, ZenonT(30)
    <3>3. \A q \in Procs : StillUses(q)
      BY <3>1, ZenonT(30) DEF StillUses, InUse, Holds
    <3> QED  BY <3>2, <3>3, StoreStutters
  <2> QED  BY <2>1, <2>2, <2>3, <2>4, <2>5, <2>6, <2>7, ZenonT(30) DEF Next
<1> QED
  BY <1>1, <1>2, InitCore, InitStore, PTL DEF SafetySpec, CacheIsStore, Store!Spec
-----------------------------------------------------------------------------
(* When bget() panics. *)

(* After a panic every buffer is in use or dirty, and stays so. *)
NoneLeft ==
  (\E q \in Procs : pc[q] = "panic") => \A b \in Bufs : busy[b] \/ dirty[b]

(* Wakeup and the steps of one process put nobody else into panic(). *)
LEMMA NextNoneLeft ==
  ASSUME Core, NoneLeft, [Next]_vars
  PROVE  NoneLeft'
<1>1. ASSUME \A q \in Procs : pc'[q] = "panic" => pc[q] = "panic", busy' = busy, dirty' = dirty
      PROVE  NoneLeft'
  BY <1>1, ZenonT(30) DEF NoneLeft
<1>2. ASSUME LockFree, \A q \in Procs : pc'[q] = "panic" => pc[q] = "panic"
      PROVE  NoneLeft'
  BY <1>2, ZenonT(30) DEF NoneLeft, LockFree
<1>3. ASSUME NEW b \in Bufs, \A q \in Procs : pc'[q] = "panic" => pc[q] = "panic", busy' = busy,
             busy[b] \/ dirty'[b], \A c \in Bufs : c # b => (dirty'[c] <=> dirty[c])
      PROVE  NoneLeft'
  BY <1>3, ZenonT(30) DEF NoneLeft
<1>4. CASE UNCHANGED vars
  BY <1>1, <1>4, ZenonT(30) DEF vars
<1>5. CASE disk_done
  BY <1>1, <1>5, ZenonT(30) DEF disk_done, bufVars, procVars
<1>6. CASE ideintr
  <2>1. /\ idequeue # <<>> /\ dirty' = [dirty EXCEPT ![Head(idequeue)] = FALSE]
        /\ pc' = Wakeup(Head(idequeue)) /\ busy' = busy
    BY <1>6, ZenonT(30) DEF ideintr
  <2>2. PICK h \in Bufs : h = Head(idequeue) /\ h = idequeue[1] /\ 1 \in DOMAIN idequeue
    BY <2>1 DEF Core, TypeOK
  <2>3. busy[h]
    <3>1. PICK p \in Procs : buf[p] = h /\ pc[p] \in {"rw_asleep", "rw_woken"}
      BY <2>2 DEF Core, QueueSound
    <3>2. Holds(p)
      BY <3>1 DEF Holds
    <3> QED  BY <3>1, <3>2, ZenonT(30) DEF Core, OneHolder
  <2>4. \A c \in Bufs : c # h => (dirty'[c] <=> dirty[c])
    BY <2>1, <2>2, ZenonT(30) DEF Core, TypeOK
  <2>5. \A q \in Procs : pc'[q] = "panic" => pc[q] = "panic"
    BY <2>1 DEF Wakeup
  <2> QED  BY <1>3, <2>1, <2>3, <2>4, <2>5
<1>7. ASSUME NEW p \in Procs, NEW k \in Blocks, bread(p, k) PROVE NoneLeft'
  <2>1. pc' = [pc EXCEPT ![p] = "bget"] /\ busy' = busy /\ dirty' = dirty
    BY <1>7, ZenonT(30) DEF bread, bufVars
  <2>2. \A q \in Procs : pc'[q] = "panic" => pc[q] = "panic"
    BY <2>1 DEF Core, TypeOK
  <2> QED  BY <1>1, <2>1, <2>2
<1>8. ASSUME NEW p \in Procs, GetStep(p) PROVE NoneLeft'
  <2>1. CASE bget_panic(p)
    <3>1. \A b \in Bufs : ~Recyclable(b) /\ busy' = busy /\ dirty' = dirty
      BY <2>1, ZenonT(30) DEF bget_panic, bufVars
    <3> QED  BY <3>1, ZenonT(30) DEF NoneLeft, Recyclable
  <2>2. CASE bget_hit(p) \/ bget_sleep(p) \/ bget_recycle(p)
    <3>1. LockFree
      BY <2>2, ZenonT(30) DEF bget_hit, bget_sleep, bget_recycle
    <3>2. PICK x : x # "panic" /\ pc' = [pc EXCEPT ![p] = x]
      <4>1. CASE bget_hit(p)
        <5>1. PICK b : pc' = [pc EXCEPT ![p] = AfterBget(b)]
          BY <4>1, ZenonT(30) DEF bget_hit
        <5>2. AfterBget(b) # "panic"
          BY ONLY SMTT(30) DEF AfterBget
        <5> QED  BY ONLY <5>1, <5>2, ZenonT(30)
      <4>2. CASE bget_sleep(p)
        <5>1. pc' = [pc EXCEPT ![p] = "bget_asleep"]
          BY <4>2, ZenonT(30) DEF bget_sleep
        <5> QED  BY ONLY <5>1, ZenonT(30)
      <4>3. CASE bget_recycle(p)
        <5>1. pc' = [pc EXCEPT ![p] = "rw"]
          BY <4>3, ZenonT(30) DEF bget_recycle
        <5> QED  BY ONLY <5>1, ZenonT(30)
      <4> QED  BY <2>2, <4>1, <4>2, <4>3, ZenonT(30)
    <3>3. \A q \in Procs : pc'[q] = "panic" => pc[q] = "panic"
      BY <3>2 DEF Core, TypeOK
    <3> QED  BY <1>2, <3>1, <3>3
  <2> QED  BY <1>8, <2>1, <2>2, ZenonT(30) DEF GetStep
<1>9. ASSUME NEW p \in Procs, UseStep(p) PROVE NoneLeft'
  <2>1. CASE brelse(p)
    <3>1. LockFree /\ pc' = [Wakeup(buf[p]) EXCEPT ![p] = "idle"]
      BY <2>1, ZenonT(30) DEF brelse, Released
    <3>2. \A q \in Procs : pc'[q] = "panic" => pc[q] = "panic"
      BY <3>1 DEF Wakeup
    <3> QED  BY <1>2, <3>1, <3>2
  <2>2. ASSUME NEW v \in Values, bwrite(p, v) \/ log_write(p, v) PROVE NoneLeft'
    <3>1. /\ pc[p] = "use" /\ dirty' = [dirty EXCEPT ![buf[p]] = TRUE] /\ busy' = busy
          /\ pc' = pc \/ pc' = [pc EXCEPT ![p] = "rw"]
      BY <2>2, ZenonT(30) DEF bwrite, log_write, procVars
    <3>2. PICK b \in Bufs : b = buf[p] /\ busy[b]
      BY <3>1, UserAlone
    <3>3. \A q \in Procs : pc'[q] = "panic" => pc[q] = "panic"
      BY <3>1 DEF Core, TypeOK
    <3>4. \A c \in Bufs : c # b => (dirty'[c] <=> dirty[c])
      BY <3>1, <3>2, ZenonT(30) DEF Core, TypeOK
    <3> QED  BY <1>3, <3>1, <3>2, <3>3, <3>4
  <2> QED  BY <1>9, <2>1, <2>2, ZenonT(30) DEF UseStep
<1>10. ASSUME NEW p \in Procs, RwStep(p) PROVE NoneLeft'
  <2>1. PICK x \in {"rw_asleep", "use"} : pc' = [pc EXCEPT ![p] = x]
    BY <1>10, SMTT(30) DEF RwStep, iderw, iderw_woken
  <2>2. busy' = busy /\ dirty' = dirty
    BY <1>10, ZenonT(30) DEF RwStep, iderw, iderw_woken, bufVars
  <2>3. \A q \in Procs : pc'[q] = "panic" => pc[q] = "panic"
    BY <2>1 DEF Core, TypeOK
  <2> QED  BY <1>1, <2>2, <2>3
<1> QED
  BY <1>4, <1>5, <1>6, <1>7, <1>8, <1>9, <1>10, ZenonT(30) DEF Next

-----------------------------------------------------------------------------
(* What rests on the theorems about finite sets. *)
INSTANCE FiniteSetTheorems

(* Users and busy buffers are equally many, and a buffer that bget() may not *)
(* recycle is busy or dirty, so a panic means that all are one or the other. *)
LEMMA FullWhenPanic ==
  ASSUME Core, NoneLeft
  PROVE  PanicOnlyWhenFull
<1> SUFFICES ASSUME \E q \in Procs : pc[q] = "panic"
             PROVE  Cardinality({q \in Procs : Holds(q)})
                      + Cardinality({b \in Bufs : dirty[b] /\ ~busy[b]}) = NBUF
  BY ZenonT(30) DEF PanicOnlyWhenFull
<1> DEFINE users == {q \in Procs : Holds(q)}
           held == {b \in Bufs : busy[b]}
           pinned == {b \in Bufs : dirty[b] /\ ~busy[b]}
<1>1. IsFiniteSet(Bufs) /\ Cardinality(Bufs) = NBUF
  <2>1. 1 \in Int /\ NBUF \in Int /\ NBUF - 1 + 1 = NBUF /\ ~ 1 > NBUF + 1
    BY BcacheConstants, SMTT(30)
  <2>2. IsFiniteSet(1 .. NBUF) /\ Cardinality(1 .. NBUF) = NBUF
    BY BcacheConstants, FS_Interval
  <2> QED  BY <2>2 DEF Bufs
<1>2. held \cup pinned = Bufs /\ held \cap pinned = {}
  BY ZenonT(30) DEF NoneLeft
<1>3. IsFiniteSet(held) /\ IsFiniteSet(pinned)
  <2>1. held \subseteq Bufs /\ pinned \subseteq Bufs
    OBVIOUS
  <2> HIDE DEF held, pinned
  <2> QED  BY <1>1, <2>1, FS_Subset, ZenonT(30)
<1>4. IsFiniteSet(users)
  <2>1. users \subseteq Procs /\ IsFiniteSet(Procs)
    BY BcacheConstants
  <2> HIDE DEF users
  <2> QED  BY <2>1, FS_Subset, ZenonT(30)
<1>5. Cardinality(users) = Cardinality(held)
  <2> DEFINE f == [q \in users |-> buf[q]]
  <2>1. \A q \in users : f[q] \in held
    BY ZenonT(30) DEF Core, OneHolder, HolderInv
  <2>2. \A q, r \in users : f[q] = f[r] => q = r
    BY ZenonT(30) DEF Core, OneHolder
  <2>3. \A b \in held : \E q \in users : f[q] = b
    BY ZenonT(30) DEF Core, OneHolder
  <2>4. f \in [users -> held]
    BY <2>1, ZenonT(30)
  <2> HIDE DEF f, users, held
  <2>5. f \in Bijection(users, held)
    BY <2>2, <2>3, <2>4, ZenonT(30) DEF Bijection, Injection, Surjection, IsInjective
  <2> QED  BY <1>4, <2>5, FS_Bijection, ZenonT(30) DEF ExistsBijection
<1>6. /\ Cardinality(held) \in Nat /\ Cardinality(pinned) \in Nat
      /\ Cardinality(held \cup pinned) = Cardinality(held) + Cardinality(pinned) - Cardinality(held \cap pinned)
      /\ Cardinality({}) = 0
  <2> HIDE DEF held, pinned
  <2> QED  BY <1>3, FS_Union, FS_CardinalityType, FS_EmptySet, ZenonT(30)
<1> HIDE DEF users, held, pinned
<1>7. Cardinality(users) + Cardinality(pinned) = NBUF
  <2>1. Cardinality(users) + Cardinality(pinned) - 0 = NBUF /\ Cardinality(users) \in Nat
    BY <1>1, <1>2, <1>5, <1>6, ZenonT(30)
  <2> QED  BY ONLY <1>6, <2>1
<1> QED
  BY <1>7 DEF users, pinned

(* Whatever order processes, sleeps and disk interrupts come in: one holder  *)
(* per busy buffer and one buffer per block, a sound disk queue, flags that  *)
(* say what they mean, and no panic in bget() before every buffer has a user *)
(* or a change to be committed.                                              *)
THEOREM BuffersInvariance == SafetySpec => []BuffersSound
<1>1. Core /\ NoneLeft => BuffersSound
  BY FullWhenPanic DEF Core, BuffersSound
<1>2. Init => Core /\ NoneLeft
  <2>1. Init => NoneLeft
    BY ZenonT(30) DEF Init, NoneLeft
  <2> QED  BY <2>1, InitCore
<1>3. Core /\ NoneLeft /\ [Next]_vars => Core' /\ NoneLeft'
  BY NextCore, NextNoneLeft
<1> QED
  BY <1>1, <1>2, <1>3, PTL DEF SafetySpec
=============================================================================
