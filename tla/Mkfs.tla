--------------------------------- MODULE Mkfs ---------------------------------
(***************************************************************************)
(* The builder of the file system image (mkfs.c): the layout of the disk,  *)
(* the root directory, one file per argument, and the bitmap.  The byte at *)
(* offset o of inode i is modelled as the pair <<i, o>>.                   *)
(***************************************************************************)
EXTENDS Integers, Sequences

CONSTANTS
  FSSIZE, BlockSize, DirentSize, NDIRECTS, NINDIRECT, IPB, NLOG,
  Images     \* the sizes of the files given to mkfs

NINODES == 2 * IPB
nbitmap == FSSIZE \div (BlockSize * 8) + 1
ninodeblocks == NINODES \div IPB + 1
nmeta == 2 + NLOG + ninodeblocks + nbitmap
MAXFILE == NDIRECTS + NINDIRECT
ROOTINO == 1

VARIABLES
  todo,       \* the calls that main() has still to make
  img,        \* the inodes and the data blocks on the image
  freeinode, freeblock,
  bitmap,     \* the blocks marked in use
  failed      \* the assertion that failed, or "no"

mkVars == <<todo, img, freeinode, freeblock, bitmap, failed>>

NoInode == [type |-> "none", nlink |-> 0, size |-> 0, addrs |-> [k \in 0 .. NDIRECTS |-> 0]]
Blank == [o \in 0 .. BlockSize - 1 |-> <<0, 0>>]

(* The calls for one file: its inode, its name, and its bytes, a block at a  *)
(* time.                                                                     *)
FileCalls(size) ==
  <<[call |-> "ialloc", type |-> "file"], [call |-> "name", n |-> DirentSize]>>
    \o [k \in 1 .. size \div BlockSize |-> [call |-> "data", n |-> BlockSize]]
    \o (IF size % BlockSize > 0 THEN <<[call |-> "data", n |-> size % BlockSize]>> ELSE <<>>)

Calls(sizes) ==
  LET upto[k \in 0 .. Len(sizes)] == IF k = 0 THEN <<>> ELSE upto[k - 1] \o FileCalls(sizes[k])
  IN  <<[call |-> "ialloc", type |-> "dir"], [call |-> "name", n |-> DirentSize],
        [call |-> "name", n |-> DirentSize]>>
        \o upto[Len(sizes)] \o <<[call |-> "fix"], [call |-> "balloc"]>>

MkInit ==
  /\ \E sizes \in Images : todo = Calls(sizes)
  /\ img = [inode |-> [i \in 1 .. NINODES |-> NoInode],
            ind |-> [b \in nmeta .. FSSIZE - 1 |-> [k \in 0 .. NINDIRECT - 1 |-> 0]],
            data |-> [b \in nmeta .. FSSIZE - 1 |-> Blank]]
  /\ freeinode = 1 /\ freeblock = nmeta /\ bitmap = {} /\ failed = "no"

(* The next call of main() is c. *)
Making(c) == failed = "no" /\ todo # <<>> /\ Head(todo).call = c

mk_ialloc ==
  /\ Making("ialloc")
  /\ img' = [img EXCEPT !.inode[freeinode].type = Head(todo).type, !.inode[freeinode].nlink = 1]
  /\ freeinode' = freeinode + 1
  /\ todo' = Tail(todo)
  /\ UNCHANGED <<freeblock, bitmap, failed>>

(* Faulty variant: the last pointer is taken for a direct one. *)
Direct_all(fbn) == fbn <= NDIRECTS

Direct(fbn) == fbn < NDIRECTS

(* Block fbn of inode i, allocated if need be. *)
Mapped(m, i, fbn, free) ==
  LET slot == IF Direct(fbn) THEN fbn ELSE NDIRECTS
      has == m.inode[i].addrs[slot] # 0
      b == IF has THEN m.inode[i].addrs[slot] ELSE free
      f == IF has THEN free ELSE free + 1
      m1 == [m EXCEPT !.inode[i].addrs[slot] = b]
      x == m.ind[b][fbn - NDIRECTS]
  IN  IF Direct(fbn) THEN [m |-> m1, x |-> b, free |-> f]
      ELSE IF x # 0 THEN [m |-> m1, x |-> x, free |-> f]
      ELSE [m |-> [m1 EXCEPT !.ind[b][fbn - NDIRECTS] = f], x |-> f, free |-> f + 1]

(* n1: what one turn of the loop of iappend() copies. *)
Copied(n, off) ==
  LET room == (off \div BlockSize + 1) * BlockSize - off
  IN  IF n < room THEN n ELSE room

(* One turn of iappend() for n bytes to inode i. *)
Appended(i, n) ==
  LET off == img.inode[i].size
      n1 == Copied(n, off)
      got == Mapped(img, i, off \div BlockSize, freeblock)
      at == off % BlockSize
  IN  IF off \div BlockSize >= MAXFILE
      THEN failed' = "fbn < MAXFILE" /\ UNCHANGED <<todo, img, freeinode, freeblock, bitmap>>
      ELSE /\ img' = [got.m EXCEPT
                        !.inode[i].size = off + n1,
                        !.data[got.x] = [o \in 0 .. BlockSize - 1 |->
                           IF o \in at .. at + n1 - 1 THEN <<i, off + o - at>> ELSE @[o]]]
           /\ freeblock' = got.free
           /\ todo' = IF n1 < n THEN [todo EXCEPT ![1].n = n - n1] ELSE Tail(todo)
           /\ UNCHANGED <<freeinode, bitmap, failed>>

mk_name == Making("name") /\ Appended(ROOTINO, Head(todo).n)

mk_data == Making("data") /\ Appended(freeinode - 1, Head(todo).n)

(* "fix size of root inode dir": up to the next multiple of BSIZE. *)
mk_fix ==
  /\ Making("fix")
  /\ img' = [img EXCEPT !.inode[ROOTINO].size = (@ \div BlockSize + 1) * BlockSize]
  /\ todo' = Tail(todo)
  /\ UNCHANGED <<freeinode, freeblock, bitmap, failed>>

Marked(n) == 0 .. n - 1

mk_balloc ==
  /\ Making("balloc")
  /\ IF freeblock < BlockSize * 8
     THEN bitmap' = Marked(freeblock) /\ UNCHANGED failed
     ELSE failed' = "used < BSIZE*8" /\ UNCHANGED bitmap
  /\ todo' = Tail(todo)
  /\ UNCHANGED <<img, freeinode, freeblock>>

MkNext == mk_ialloc \/ mk_name \/ mk_data \/ mk_fix \/ mk_balloc

MkSpec == MkInit /\ [][MkNext]_mkVars

-----------------------------------------------------------------------------
(* The blocks of an inode, by block number in the file. *)
BlockOf(i, fbn) ==
  IF fbn < NDIRECTS THEN img.inode[i].addrs[fbn]
  ELSE IF img.inode[i].addrs[NDIRECTS] = 0 THEN 0
  ELSE img.ind[img.inode[i].addrs[NDIRECTS]][fbn - NDIRECTS]

OwnBlocks(i) ==
  ({BlockOf(i, k) : k \in 0 .. MAXFILE - 1} \cup {img.inode[i].addrs[NDIRECTS]}) \ {0}

(* Every byte appended to a file can be read back from where the kernel's    *)
(* bmap() will look for it.  Only the root directory, once its size has been *)
(* rounded up, has blank bytes at its end, or a last block that is missing.  *)
BytesInPlace ==
  \A i \in 1 .. freeinode - 1, o \in 0 .. MAXFILE * BlockSize - 1 : o < img.inode[i].size =>
    LET b == BlockOf(i, o \div BlockSize)
    IN  IF b # 0 /\ img.data[b][o % BlockSize] # <<0, 0>> THEN img.data[b][o % BlockSize] = <<i, o>>
        ELSE i = ROOTINO /\ Len(todo) <= 1

(* When mkfs is done the bitmap marks exactly the blocks before the data     *)
(* area and those of files, and no block belongs to two inodes: the image    *)
(* starts the kernel in a state where balloc() is right.                     *)
ImageConsistent ==
  todo = <<>> /\ failed = "no" =>
    /\ bitmap = (0 .. nmeta - 1) \cup UNION {OwnBlocks(i) : i \in 1 .. NINODES}
    /\ \A i, j \in 1 .. NINODES : i # j => OwnBlocks(i) \cap OwnBlocks(j) = {}
    /\ \A i \in 1 .. NINODES : OwnBlocks(i) \cap 0 .. nmeta - 1 = {}

(* The image that mkfs writes is a sound file system with every file in it. *)
ImageSound == BytesInPlace /\ ImageConsistent
==============================================================================
