------------------------------- MODULE FileData -------------------------------
(***************************************************************************)
(* The bytes of files: block allocation, bmap(), itrunc(), readi() and     *)
(* writei() of fs.c, and the loops of file.c around them.  Several         *)
(* processes read, write and delete files; a step is what a process does   *)
(* between two moments at which another can see the bitmap or an inode.    *)
(* A block is a row of cells, and a cell holds a byte or a block number.   *)
(***************************************************************************)
EXTENDS Integers, Sequences, FiniteSets, FiniteSetsExt

CONSTANTS
  Procs,    \* positive numbers: the byte a process writes is its number
  Files,    \* struct files
  Inums,    \* inodes
  NBLOCKS,  \* data blocks 1 .. NBLOCKS of the disk
  NDIRECT, BSIZE, BPB, LOGSIZE,
  Programs  \* who shares which file, and the calls each process makes

NINDIRECT == BSIZE
MAXFILE == NDIRECT + NINDIRECT
Blocks == 1 .. NBLOCKS
Cells == 0 .. BSIZE - 1
Zeroes == [c \in Cells |-> 0]

VARIABLES
  bitmap,   \* the blocks in use
  block,    \* what the blocks hold
  inode,    \* the inodes in memory: size and addrs
  dinode,   \* and on disk, as of the last iupdate()
  holder,   \* the process that has the inode locked, or 0
  off,      \* f->off
  test,     \* the program that runs
  proc,     \* the processes: locals of their calls
  contents, \* history: the bytes of each file, after each whole write
  panicked

vars == <<bitmap, block, inode, dinode, holder, off, test, proc, contents, panicked>>

Empty == [size |-> 0, addrs |-> [b \in 0 .. NDIRECT |-> 0]]
Idle == [pc |-> "idle", n |-> 0, i |-> 0, n1 |-> 0, tot |-> 0, j |-> 0,
         got |-> <<>>, logged |-> {}, done |-> 0]

Init ==
  /\ bitmap = {} /\ block = [b \in Blocks |-> Zeroes]
  /\ inode = [i \in Inums |-> Empty] /\ dinode = inode
  /\ holder = [i \in Inums |-> 0] /\ off = [f \in Files |-> 0]
  /\ test \in Programs
  /\ proc = [p \in Procs |-> Idle]
  /\ contents = [i \in Inums |-> <<>>]
  /\ panicked = "no"

F(p) == test.fd[p]
I(p) == test.ino[F(p)]

At(p, step) == panicked = "no" /\ proc[p].pc = step
Goto(p, k) == proc' = [proc EXCEPT ![p] = k]
Return(k) == [Idle EXCEPT !.done = k.done + 1]
Smaller(a, b) == IF a < b THEN a ELSE b

-----------------------------------------------------------------------------
(* Faulty variant: the slop for unaligned writes is forgotten. *)
MaxWrite_no_slop == ((LOGSIZE - 1 - 1) \div 2) * BSIZE

(* The cells that filewrite() writes in one transaction. *)
MaxWrite == ((LOGSIZE - 1 - 1 - 2) \div 2) * BSIZE

(* The block of the bitmap that has the bit of b, and the block of inodes. *)
BBLOCK(b) == <<"bitmap", b \div BPB>>
IBLOCK == <<"inode", 0>>

(* log_write() enters a block unless it has an entry: "log absorption". *)
log_write(k, entries) == [k EXCEPT !.logged = @ \cup entries]

(* Faulty variant: the block keeps what it held. *)
bzero_not(bl, b) == bl

bzero(bl, b) == [bl EXCEPT ![b] = Zeroes]

(* The pointer of bmap() that is still 0 when block bn of the file is wanted. *)
Unmapped(ip, bn) ==
  IF bn < NDIRECT THEN IF ip.addrs[bn] = 0 THEN "direct" ELSE "none"
  ELSE IF ip.addrs[NDIRECT] = 0 THEN "indirect"
  ELSE IF block[ip.addrs[NDIRECT]][bn - NDIRECT] = 0 THEN "entry" ELSE "none"

bmap(ip, bn) ==
  IF bn < NDIRECT THEN ip.addrs[bn] ELSE block[ip.addrs[NDIRECT]][bn - NDIRECT]

(* balloc() for bmap() in writei(): the first free block, zeroed. *)
balloc(p) ==
  LET k == proc[p]
      ip == inode[I(p)]
      bn == (off[F(p)] + k.tot) \div BSIZE
      lacks == Unmapped(ip, bn)
      free == Blocks \ bitmap
      b == Min(free)
      slot == IF lacks = "indirect" THEN NDIRECT ELSE bn
      ind == ip.addrs[NDIRECT]
  IN
  /\ At(p, "writei") /\ k.tot < k.n1 /\ lacks # "none"
  /\ \/ /\ free = {}
        /\ panicked' = "balloc: out of blocks"
        /\ UNCHANGED <<bitmap, block, inode, proc>>
     \/ /\ free # {}
        /\ bitmap' = bitmap \cup {b}
        /\ IF lacks = "entry"
           THEN /\ block' = [bzero(block, b) EXCEPT ![ind][bn - NDIRECT] = b]
                /\ Goto(p, log_write(k, {BBLOCK(b), <<"data", b>>, <<"data", ind>>}))
                /\ UNCHANGED inode
           ELSE /\ block' = bzero(block, b)
                /\ inode' = [inode EXCEPT ![I(p)].addrs[slot] = b]
                /\ Goto(p, log_write(k, {BBLOCK(b), <<"data", b>>}))
        /\ UNCHANGED panicked
  /\ UNCHANGED <<dinode, holder, off, test, contents>>

-----------------------------------------------------------------------------
(* filewrite(): the next transaction, or the end of the loop; writei() makes *)
(* its tests before it writes.                                               *)
filewrite(p) ==
  LET k == proc[p]
      n1 == Smaller(k.n - k.i, MaxWrite)
      o == off[F(p)]
  IN
  /\ At(p, "filewrite")
  /\ \/ k.i = k.n /\ Goto(p, Return(k)) /\ UNCHANGED holder
     \/ /\ k.i < k.n /\ holder[I(p)] = 0
        /\ IF o > inode[I(p)].size \/ o + n1 > MAXFILE * BSIZE
           THEN Goto(p, Return(k)) /\ UNCHANGED holder
           ELSE /\ holder' = [holder EXCEPT ![I(p)] = p]
                /\ Goto(p, [k EXCEPT !.pc = "writei", !.n1 = n1, !.tot = 0, !.logged = {}])
  /\ UNCHANGED <<bitmap, block, inode, dinode, off, test, contents, panicked>>

(* One round of the loop of writei(), its blocks mapped. *)
writei(p) ==
  LET k == proc[p]
      at == off[F(p)] + k.tot
      b == bmap(inode[I(p)], at \div BSIZE)
      m == Smaller(k.n1 - k.tot, BSIZE - (at % BSIZE))
  IN
  /\ At(p, "writei") /\ k.tot < k.n1
  /\ Unmapped(inode[I(p)], at \div BSIZE) = "none"
  /\ block' = [block EXCEPT ![b] = [c \in Cells |->
                 IF c \in (at % BSIZE) .. (at % BSIZE) + m - 1 THEN p ELSE @[c]]]
  /\ Goto(p, log_write([k EXCEPT !.tot = @ + m], {<<"data", b>>}))
  /\ UNCHANGED <<bitmap, inode, dinode, holder, off, test, contents, panicked>>

(* The cells o + 1 .. o + n of s become p. *)
Spliced(s, o, n, p) ==
  [c \in 1 .. (IF o + n > Len(s) THEN o + n ELSE Len(s)) |->
     IF c \in o + 1 .. o + n THEN p ELSE s[c]]

(* Faulty variant: the addresses are not copied. *)
iupdate_size(i, ip) == [dinode EXCEPT ![i].size = ip.size]

iupdate(i, ip) == [dinode EXCEPT ![i] = ip]

Grows(ip, o) == o > ip.size

(* Faulty variant: the offset is the one read before the inode was locked. *)
Advanced_stale(o, k) == k.i + k.n1

Advanced(o, k) == o + k.n1

(* The end of writei(), with iupdate(), and of the transaction. *)
writei_end(p) ==
  LET k == proc[p]
      o == off[F(p)]
      ip == inode[I(p)]
      new == IF Grows(ip, o + k.n1) THEN [ip EXCEPT !.size = o + k.n1] ELSE ip
  IN
  /\ At(p, "writei") /\ k.tot = k.n1
  /\ inode' = [inode EXCEPT ![I(p)] = new]
  /\ dinode' = IF Grows(ip, o + k.n1) THEN iupdate(I(p), new) ELSE dinode
  /\ holder' = [holder EXCEPT ![I(p)] = 0]
  /\ off' = [off EXCEPT ![F(p)] = Advanced(o, k)]
  /\ contents' = [contents EXCEPT ![I(p)] = Spliced(@, o, k.n1, p)]
  /\ Goto(p, log_write([k EXCEPT !.pc = "filewrite", !.i = @ + k.n1],
                       IF Grows(ip, o + k.n1) THEN {IBLOCK} ELSE {}))
  /\ UNCHANGED <<bitmap, block, test, panicked>>

(* fileread(): readi() cuts the count at the end of the file. *)
fileread(p) ==
  LET k == proc[p]
      left == inode[I(p)].size - off[F(p)]
  IN
  /\ At(p, "fileread") /\ holder[I(p)] = 0
  /\ IF left < 0 THEN Goto(p, Return(k)) /\ UNCHANGED holder
     ELSE /\ holder' = [holder EXCEPT ![I(p)] = p]
          /\ Goto(p, [k EXCEPT !.pc = "readi", !.n1 = Smaller(k.n, left), !.tot = 0])
  /\ UNCHANGED <<bitmap, block, inode, dinode, off, test, contents, panicked>>

ReadLen(k, at) == Smaller(k.n1 - k.tot, BSIZE - (at % BSIZE))

readi(p) ==
  LET k == proc[p]
      at == off[F(p)] + k.tot
      b == bmap(inode[I(p)], at \div BSIZE)
      m == ReadLen(k, at)
  IN
  /\ At(p, "readi") /\ k.tot < k.n1
  /\ Goto(p, [k EXCEPT !.tot = @ + m,
                       !.got = @ \o [c \in 1 .. m |-> block[b][(at % BSIZE) + c - 1]]])
  /\ UNCHANGED <<bitmap, block, inode, dinode, holder, off, test, contents, panicked>>

readi_end(p) ==
  LET k == proc[p] IN
  /\ At(p, "readi") /\ k.tot >= k.n1
  /\ holder' = [holder EXCEPT ![I(p)] = 0]
  /\ off' = [off EXCEPT ![F(p)] = @ + k.n1]
  /\ Goto(p, Return(k))
  /\ UNCHANGED <<bitmap, block, inode, dinode, test, contents, panicked>>

-----------------------------------------------------------------------------
(* The entries of the indirect block that itrunc() still has to free. *)
Listed(k, ind) == {j \in k.j .. NINDIRECT - 1 : block[ind][j] # 0}

bfree(b) ==
  IF b \in bitmap THEN bitmap' = bitmap \ {b} /\ UNCHANGED panicked
  ELSE panicked' = "freeing free block" /\ UNCHANGED bitmap

(* itrunc() frees the direct blocks, the blocks of the indirect block, and   *)
(* the indirect block.                                                       *)
itrunc(p) ==
  LET k == proc[p]
      addrs == inode[I(p)].addrs
      direct == {n \in 0 .. NDIRECT - 1 : addrs[n] # 0}
      ind == addrs[NDIRECT]
      Cleared(n) == inode' = [inode EXCEPT ![I(p)].addrs[n] = 0]
  IN
  /\ At(p, "itrunc")
  /\ \/ direct # {} /\ bfree(addrs[Min(direct)]) /\ Cleared(Min(direct)) /\ UNCHANGED proc
     \/ /\ direct = {} /\ ind # 0
        /\ \/ /\ Listed(k, ind) # {}
              /\ bfree(block[ind][Min(Listed(k, ind))])
              /\ Goto(p, [k EXCEPT !.j = Min(Listed(k, ind)) + 1])
              /\ UNCHANGED inode
           \/ Listed(k, ind) = {} /\ bfree(ind) /\ Cleared(NDIRECT) /\ UNCHANGED proc
  /\ UNCHANGED <<block, dinode, holder, off, test, contents>>

(* The end of itrunc(), with iupdate().  The inode is then given to a file   *)
(* of the same name.                                                         *)
itrunc_end(p) ==
  /\ At(p, "itrunc") /\ inode[I(p)].addrs = Empty.addrs
  /\ inode' = [inode EXCEPT ![I(p)] = Empty]
  /\ dinode' = iupdate(I(p), Empty)
  /\ holder' = [holder EXCEPT ![I(p)] = 0]
  /\ off' = [off EXCEPT ![F(p)] = 0]
  /\ contents' = [contents EXCEPT ![I(p)] = <<>>]
  /\ Goto(p, Return(proc[p]))
  /\ UNCHANGED <<bitmap, block, test, panicked>>

(* The next call: a write or a read, opening the file anew, or deleting it,  *)
(* which reaches itrunc() when no other process has it open.                 *)
syscall(p) ==
  LET k == proc[p] IN
  /\ At(p, "idle") /\ k.done < Len(test.prog[p])
  /\ \E call \in test.prog[p][k.done + 1] :
       \/ /\ call.op \in {"filewrite", "fileread"}
          /\ Goto(p, [k EXCEPT !.pc = call.op, !.n = call.n])
          /\ UNCHANGED <<holder, off>>
       \/ /\ call.op = "open"
          /\ off' = [off EXCEPT ![F(p)] = 0]
          /\ Goto(p, Return(k))
          /\ UNCHANGED holder
       \/ /\ call.op = "unlink" /\ \A q \in Procs \ {p} : I(q) # I(p)
          /\ holder' = [holder EXCEPT ![I(p)] = p]
          /\ Goto(p, [k EXCEPT !.pc = "itrunc"])
          /\ UNCHANGED off
  /\ UNCHANGED <<bitmap, block, inode, dinode, test, contents, panicked>>

Next ==
  \E p \in Procs :
    \/ syscall(p) \/ filewrite(p) \/ balloc(p) \/ writei(p) \/ writei_end(p)
    \/ fileread(p) \/ readi(p) \/ readi_end(p) \/ itrunc(p) \/ itrunc_end(p)

Spec == Init /\ [][Next]_vars

-----------------------------------------------------------------------------
(* The pointers to blocks, but for the entries of an indirect block that     *)
(* itrunc() has gone past.                                                   *)
Freed(i) == IF holder[i] # 0 /\ proc[holder[i]].pc = "itrunc" THEN proc[holder[i]].j ELSE 0
Pointers ==
  {<<i, "addrs", n>> : i \in Inums, n \in 0 .. NDIRECT} \cup
  {<<i, "entry", n>> : i \in {x \in Inums : inode[x].addrs[NDIRECT] # 0},
                       n \in 0 .. NINDIRECT - 1}
Target(x) ==
  IF x[2] = "addrs" THEN inode[x[1]].addrs[x[3]]
  ELSE IF x[3] < Freed(x[1]) THEN 0 ELSE block[inode[x[1]].addrs[NDIRECT]][x[3]]

(* No block is part of two files, or of one twice, however the processes     *)
(* allocate and free at the same time.                                       *)
NoSharedBlock ==
  \A x, y \in Pointers : Target(x) # 0 /\ x # y => Target(x) # Target(y)

(* The bitmap marks exactly the blocks that some file uses: none leaks, none *)
(* in use is given away.                                                     *)
BitmapExact == bitmap = {Target(x) : x \in Pointers} \ {0}

(* balloc(), bfree(), bmap() and itrunc() keep the blocks of files apart and *)
(* the bitmap exact.                                                         *)
BlocksOwned == NoSharedBlock /\ BitmapExact

(* What the inode on disk, and the blocks it names, say the file is. *)
FileCells(i) ==
  [c \in 1 .. dinode[i].size |->
     block[bmap(dinode[i], (c - 1) \div BSIZE)][(c - 1) % BSIZE]]

(* Whenever no call works on an inode its copy on disk is up to date, which  *)
(* bmap() leaves to writei(), and names blocks that hold what was written;   *)
(* a read returns that part of it which follows the offset.                  *)
ContentsKept ==
  /\ \A i \in Inums : holder[i] = 0 => dinode[i] = inode[i] /\ FileCells(i) = contents[i]
  /\ \A p \in Procs : proc[p].pc = "readi" /\ proc[p].tot >= proc[p].n1 =>
       proc[p].got = SubSeq(contents[I(p)], off[F(p)] + 1, off[F(p)] + proc[p].n1)

(* One transaction of filewrite(), alone in the log, never meets the panic   *)
(* "too big a transaction": the log has LOGSIZE blocks with its header, and  *)
(* log_write() wants a free entry even for a block that has one, so there    *)
(* must be one as long as writei() goes on.  The comment in filewrite()      *)
(* counts the blocks.                                                        *)
WriteFitsLog ==
  \A p \in Procs : /\ Cardinality(proc[p].logged) <= LOGSIZE - 1
                   /\ proc[p].pc = "writei" => Cardinality(proc[p].logged) < LOGSIZE - 1

(* sharedfd() and fourfiles() of usertests.c: when processes append to one   *)
(* open file, or to a file each, every byte of theirs is in it in the end.   *)
NothingOverwritten ==
  test.appends /\ (\A p \in Procs : proc[p].done = Len(test.prog[p])) =>
    \A p \in Procs :
      Cardinality({c \in DOMAIN contents[I(p)] : contents[I(p)][c] = p}) = test.total[p]

==============================================================================
