------------------------------- MODULE Umalloc -------------------------------
(***************************************************************************)
(* The user memory allocator (umalloc.c).  Memory is a row of units of the *)
(* size of a header; the static header base lies below the heap, which     *)
(* starts at unit 1 and grows with sbrk().  A block starts with its header *)
(* and its size counts the header.                                         *)
(***************************************************************************)
EXTENDS Integers, FiniteSets, FiniteSetsExt

CONSTANTS
  HeapUnits,   \* how far sbrk() lets the heap grow
  NALLOC,      \* the least that morecore() asks for (4096)
  Requests     \* the arguments of malloc()

HeaderSize == 2    \* sizeof(Header), in bytes (8)
base == 0
Null == HeapUnits + 1

VARIABLES
  header,   \* s.ptr and s.size of the unit at each address
  freep,
  brk,      \* the first unit beyond the heap
  used      \* the blocks that the program has, and what it asked for

malVars == <<header, freep, brk, used>>

NoHeader == [ptr |-> base, size |-> 0]

MalInit ==
  /\ header = [a \in base .. HeapUnits |-> NoHeader]
  /\ freep = Null /\ brk = 1 /\ used = {}

(* The headers from f on, along ptr. *)
Chain(h, f) ==
  LET nth[k \in 0 .. HeapUnits] == IF k = 0 THEN f ELSE h[nth[k - 1]].ptr
  IN  nth

(* Only the headers of blocks are kept, without the ptr of those in use: the *)
(* rest is the program's memory, which nobody reads as a header.             *)
Headers(h, f, u) ==
  LET list == {Chain(h, f)[k] : k \in 0 .. HeapUnits}
  IN  [a \in base .. HeapUnits |->
         IF a \in list THEN h[a]
         ELSE IF \E b \in u : b.at = a THEN [h[a] EXCEPT !.ptr = base] ELSE NoHeader]

JoinsNext(h, bp, p) == bp + h[bp].size = h[p].ptr

(* The loop of free() stops at p. *)
Between(h, bp, p) ==
  \/ bp > p /\ bp < h[p].ptr
  \/ p >= h[p].ptr /\ (bp > p \/ bp < h[p].ptr)

(* free() of the block at bp: the headers, and freep. *)
Released(h, f, bp) ==
  LET chain == Chain(h, f)
      p == chain[Min({k \in 0 .. HeapUnits : Between(h, bp, chain[k])})]
      next == h[p].ptr
      h1 == IF JoinsNext(h, bp, p)
            THEN [h EXCEPT ![bp] = [ptr |-> h[next].ptr, size |-> @.size + h[next].size]]
            ELSE [h EXCEPT ![bp].ptr = next]
      h2 == IF p + h1[p].size = bp
            THEN [h1 EXCEPT ![p] = [ptr |-> h1[bp].ptr, size |-> @.size + h1[bp].size]]
            ELSE [h1 EXCEPT ![p].ptr = bp]
  IN  [header |-> h2, freep |-> p]

free(b) ==
  LET res == Released(header, freep, b.at)
  IN  /\ b \in used
      /\ used' = used \ {b}
      /\ header' = Headers(res.header, res.freep, used') /\ freep' = res.freep
      /\ UNCHANGED brk

(* How many steps from f lead to the first block that is large enough, going *)
(* round the list once; none if there is no such block.                      *)
Fits(h, f, nunits) ==
  LET chain == Chain(h, f)
  IN  {k \in 1 .. HeapUnits : /\ h[chain[k]].size >= nunits
                              /\ \A j \in 1 .. k - 1 : chain[j] # f}

Units(nbytes) == (nbytes + HeaderSize - 1) \div HeaderSize + 1

(* Faulty variant: the rest keeps its old size. *)
Split_whole(h, p, nunits) == [h EXCEPT ![p + h[p].size - nunits].size = nunits]

(* The tail of a larger block becomes a block. *)
Split(h, p, nunits) ==
  [h EXCEPT ![p].size = @ - nunits, ![p + h[p].size - nunits].size = nunits]

(* The end of malloc(): take the block, or its tail. *)
Take(h, f, nbytes) ==
  LET nunits == Units(nbytes)
      chain == Chain(h, f)
      k == Min(Fits(h, f, nunits))
      p == chain[k]
      exact == h[p].size = nunits
      h1 == IF exact THEN [h EXCEPT ![chain[k - 1]].ptr = h[p].ptr] ELSE Split(h, p, nunits)
  IN  /\ used' = used \cup {[at |-> IF exact THEN p ELSE p + h[p].size - nunits,
                             size |-> nunits, asked |-> nbytes]}
      /\ freep' = chain[k - 1]
      /\ header' = Headers(h1, freep', used')

(* The block that morecore() gets from sbrk(). *)
Core(h, nu) == [h EXCEPT ![brk].size = nu]

malloc(nbytes) ==
  LET f == IF freep = Null THEN base ELSE freep
      nu == IF Units(nbytes) < NALLOC THEN NALLOC ELSE Units(nbytes)
  IN  IF Fits(header, f, Units(nbytes)) # {} THEN Take(header, f, nbytes) /\ UNCHANGED brk
      ELSE IF brk + nu > HeapUnits + 1
      THEN freep' = f /\ UNCHANGED <<header, brk, used>>       \* returns 0
      ELSE LET more == Released(Core(header, nu), f, brk)
           IN  Take(more.header, more.freep, nbytes) /\ brk' = brk + nu

MalNext == (\E n \in Requests : malloc(n)) \/ (\E b \in used : free(b))

MalSpec == MalInit /\ [][MalNext]_malVars

-----------------------------------------------------------------------------
FreeBlocks == IF freep = Null THEN {} ELSE {Chain(header, freep)[k] : k \in 0 .. HeapUnits}

Extent(at, size) == at .. at + size - 1

(* Every unit of the heap belongs to exactly one block, free or in use: no   *)
(* two blocks overlap and no memory is lost.                                 *)
HeapTiled ==
  \A a \in 1 .. brk - 1 :
    Cardinality({b \in used : a \in Extent(b.at, b.size)})
      + Cardinality({p \in FreeBlocks : a \in Extent(p, header[p].size)}) = 1

(* The free list is circular and in address order, and free neighbours have  *)
(* been joined, so that a later malloc() can use them as one block.          *)
FreeListOrdered ==
  \A p \in FreeBlocks :
    /\ base \in FreeBlocks
    /\ header[p].ptr > p \/ (header[p].ptr = base /\ p = Max(FreeBlocks))
    /\ header[p].size > 0 => p + header[p].size \notin FreeBlocks

(* A block holds what was asked for after its header, and the size in the    *)
(* header, on which free() relies, is still right.                           *)
BlockFits ==
  \A b \in used : header[b.at].size = b.size /\ (b.size - 1) * HeaderSize >= b.asked

(* Through any sequence of malloc() and free() the heap is made of blocks in *)
(* use, as large as asked, and free ones on a list that loses none.          *)
HeapSound == HeapTiled /\ FreeListOrdered /\ BlockFits
==============================================================================
