-------------------------------- MODULE Memory --------------------------------
(***************************************************************************)
(* The physical pages (kalloc.c) and the address spaces built from them    *)
(* (vm.c) by fork(), growproc(), exec() and wait(), with several processes *)
(* that run out of memory together.  A step is one turn of the loop of     *)
(* allocuvm() or copyuvm(): the free list is shared, the page table being  *)
(* built is not.  Addresses count units, PGSIZE of them to a page.         *)
(***************************************************************************)
EXTENDS Integers, Sequences, FiniteSets, FiniteSetsExt

CONSTANTS
  Procs,       \* the slots of the process table, numbers from 1
  NPAGES,      \* pages that kinit1() and kinit2() put on the free list
  KTABS,       \* page table pages of the kernel's part of an address space
  NPTENTRIES,  \* pages to a page table
  NPDE,        \* page tables below KERNBASE
  Programs,    \* executables: the sequences of their program headers
  Amounts,     \* the arguments of sbrk()
  MaxCalls     \* bound: calls made in a behaviour

PGSIZE == 2
VPages == 0 .. NPDE * NPTENTRIES - 1
KERNBASE == NPDE * NPTENTRIES * PGSIZE
PGROUNDUP(a) == ((a + PGSIZE - 1) \div PGSIZE) * PGSIZE
PDX(v) == v \div NPTENTRIES

(* A program header; only ELF_PROG_LOAD ones have load.  The linker lays     *)
(* segments out from page boundaries (the Makefile gives -N -Ttext 0), and   *)
(* exec() relies on it: it passes vaddr to loaduvm() as it is.               *)
Header == [load : BOOLEAN, vaddr : Nat, filesz : Nat, memsz : Nat]
ASSUME LinkedPrograms ==
  \A prog \in Programs :
    /\ prog \in Seq(Header)
    /\ \A i \in 1 .. Len(prog) : prog[i].load => prog[i].vaddr % PGSIZE = 0

VARIABLES
  freelist,  \* kmem.freelist, as a set
  vm,        \* the processes
  mapfail,   \* history: has mappages() failed for want of a page table page?
  vmpanic    \* the argument of panic(), or "no"

memVars == <<freelist, vm, mapfail, vmpanic>>

(* A page directory: its page, the kernel's tables, and for the user part    *)
(* the tables, the pages mapped, and those with PTE_U.                       *)
NoPgdir ==
  [dir |-> 0, kern |-> {}, tab |-> [x \in 0 .. NPDE - 1 |-> 0],
   pte |-> [v \in VPages |-> 0], user |-> {}]
Unused ==
  [state |-> "unused", kstack |-> 0, pgdir |-> NoPgdir, sz |-> 0, calls |-> 0,
   pc |-> "", new |-> NoPgdir, a |-> 0, from |-> 0, to |-> 0, prog |-> <<>>, child |-> 0,
   args |-> 0, before |-> NoPgdir]

-----------------------------------------------------------------------------
(* The free list is a set: NoPageTwice says that a page that is freed is not *)
(* on it.                                                                    *)
kalloc(list) == Min(list)
kfree(list, pages) == list \cup pages

(* setupkvm() on a list with enough pages. *)
setupkvm(list) ==
  LET dir == kalloc(list)
      kern == CHOOSE K \in kSubset(KTABS, list \ {dir}) : TRUE
  IN  [NoPgdir EXCEPT !.dir = dir, !.kern = kern]
KvmPages == 1 + KTABS

(* mappages() of one page, when the table is there or a page is left for it. *)
CanMap(pd, list, v) == pd.tab[PDX(v)] # 0 \/ list # {}
mappages(pd, list, v, page) ==
  LET t == IF pd.tab[PDX(v)] # 0 THEN pd.tab[PDX(v)] ELSE kalloc(list)
  IN  [pd EXCEPT !.tab[PDX(v)] = t, !.pte[v] = page, !.user = @ \cup {v}]
TablePage(pd, list, v) == IF pd.tab[PDX(v)] # 0 THEN {} ELSE {kalloc(list)}

FirstFreed(newsz) == PGROUNDUP(newsz) \div PGSIZE

(* The pages deallocuvm() visits from v on: where there is no page table it  *)
(* goes on NPTENTRIES pages further.                                         *)
Visited(pd, oldsz, newsz) ==
  LET from[v \in 0 .. KERNBASE + NPTENTRIES] ==
        IF v * PGSIZE >= oldsz THEN {}
        ELSE IF pd.tab[PDX(v)] = 0 THEN from[v + NPTENTRIES]
        ELSE {v} \cup from[v + 1]
  IN  IF newsz >= oldsz THEN {} ELSE from[FirstFreed(newsz)]

deallocuvm(pd, oldsz, newsz) ==
  LET gone == Visited(pd, oldsz, newsz)
  IN  [pd EXCEPT !.pte = [v \in VPages |-> IF v \in gone THEN 0 ELSE @[v]],
                 !.user = @ \ {v \in gone : pd.pte[v] # 0}]
Freed(pd, oldsz, newsz) == {pd.pte[v] : v \in Visited(pd, oldsz, newsz)} \ {0}

(* Faulty variant: the page tables stay behind. *)
freevm_tables(pd) == Freed(pd, KERNBASE, 0) \cup {pd.dir} \cup pd.kern

(* What freevm() gives back. *)
freevm(pd) ==
  Freed(pd, KERNBASE, 0) \cup {pd.dir} \cup pd.kern
  \cup ({pd.tab[x] : x \in 0 .. NPDE - 1} \ {0})

(* userinit(): the first process has one page. *)
MemInit ==
  LET all == 1 .. NPAGES
      kvm == setupkvm(all)
      rest == all \ ({kvm.dir} \cup kvm.kern)
      page == kalloc(rest)
      pd == mappages(kvm, rest \ {page}, 0, page)
      left == rest \ ({page} \cup TablePage(kvm, rest \ {page}, 0))
  IN
  /\ vm = [q \in Procs |-> IF q = Min(Procs)
             THEN [Unused EXCEPT !.state = "run", !.kstack = kalloc(left), !.pgdir = pd,
                                 !.sz = PGSIZE, !.pc = "user"]
             ELSE Unused]
  /\ freelist = left \ {kalloc(left)}
  /\ mapfail = FALSE /\ vmpanic = "no"

-----------------------------------------------------------------------------
At(p, pc) == vmpanic = "no" /\ vm[p].pc = pc
Goto(p, k) == vm' = [vm EXCEPT ![p] = k]

(* Back to user space; the locals of the call are gone. *)
Back(k) == [k EXCEPT !.pc = "user", !.new = NoPgdir, !.a = 0, !.from = 0, !.to = 0,
                     !.prog = <<>>, !.child = 0, !.args = 0, !.before = NoPgdir]
Failed(k) == [k EXCEPT !.pc = "failed", !.new = NoPgdir, !.child = 0]
Panic(msg) == vmpanic' = msg /\ UNCHANGED <<freelist, vm, mapfail>>

(* A process without its first page faults instead of making a call. *)
MayCall(p) ==
  /\ At(p, "user") /\ vm[p].pgdir.pte[0] # 0
  /\ MapThenSumSet(LAMBDA q : vm[q].calls, Procs) < MaxCalls
Calling(p) == [vm[p] EXCEPT !.calls = @ + 1, !.before = vm[p].pgdir]

(* sys_sbrk() and growproc().  A negative amount beyond sz wraps around and  *)
(* changes nothing; one that leaves nothing frees the pages, and is then     *)
(* taken for a failure: proc->sz stays.                                      *)
growproc(p) ==
  \E n \in Amounts :
    LET k == Calling(p)
        to == k.sz + n
    IN
    /\ MayCall(p)
    /\ \/ /\ n > 0
          /\ Goto(p, IF to >= KERNBASE THEN Failed(k)
                     ELSE [k EXCEPT !.pc = "grow", !.a = PGROUNDUP(k.sz), !.from = k.sz, !.to = to])
          /\ UNCHANGED freelist
       \/ /\ n < 0
          /\ IF to < 0 THEN Goto(p, Back(k)) /\ UNCHANGED freelist
             ELSE /\ freelist' = kfree(freelist, Freed(k.pgdir, k.sz, to))
                  /\ LET pd == deallocuvm(k.pgdir, k.sz, to)
                     IN  Goto(p, IF to = 0 THEN [Failed(k) EXCEPT !.pc = "emptied", !.pgdir = pd]
                                 ELSE [Back(k) EXCEPT !.pgdir = pd, !.sz = to])
    /\ UNCHANGED <<mapfail, vmpanic>>

(* A turn of the loop of allocuvm() for the page directory pd, at address    *)
(* list.a.  mappages() may fail unnoticed; its page is lost then.            *)
AllocTurn(pd, list) ==
  LET v == list.a \div PGSIZE
      mem == kalloc(list.free)
      rest == list.free \ {mem}
  IN  IF CanMap(pd, rest, v)
      THEN [pd |-> mappages(pd, rest, v, mem), free |-> rest \ TablePage(pd, rest, v), lost |-> FALSE]
      ELSE [pd |-> pd, free |-> rest, lost |-> TRUE]

(* mappages() asserts that the page is not mapped yet. *)
Remap(pd, a, to) ==
  vmpanic' = IF a < to /\ pd.pte[a \div PGSIZE] # 0 THEN "remap" ELSE vmpanic

(* Faulty variant: a failed allocation keeps the pages it got. *)
Undo_none(pd, to, from) == [pd |-> pd, freed |-> {}]

Undo(pd, to, from) == [pd |-> deallocuvm(pd, to, from), freed |-> Freed(pd, to, from)]

(* allocuvm() in growproc(). *)
allocuvm_grow(p) ==
  LET k == vm[p]
      r == AllocTurn(k.pgdir, [a |-> k.a, free |-> freelist])
      u == Undo(k.pgdir, k.to, k.from)
  IN
  /\ At(p, "grow")
  /\ \/ /\ k.a >= k.to
        /\ Goto(p, [Back(k) EXCEPT !.sz = k.to])
        /\ UNCHANGED <<freelist, mapfail>>
     \/ /\ k.a < k.to /\ freelist = {}
        /\ freelist' = kfree(freelist, u.freed)
        /\ Goto(p, [Failed(k) EXCEPT !.pgdir = u.pd])
        /\ UNCHANGED mapfail
     \/ /\ k.a < k.to /\ freelist # {}
        /\ freelist' = r.free
        /\ mapfail' = (mapfail \/ r.lost)
        /\ Goto(p, [k EXCEPT !.pgdir = r.pd, !.a = @ + PGSIZE])
  /\ Remap(k.pgdir, k.a, k.to)

(* The failure is reported. *)
return_fail(p) ==
  /\ At(p, "failed") \/ At(p, "emptied")
  /\ Goto(p, Back(vm[p]))
  /\ UNCHANGED <<freelist, mapfail, vmpanic>>

-----------------------------------------------------------------------------
(* fork(): allocproc() takes a page for the stack and copyuvm() starts with  *)
(* setupkvm(), which keeps the pages it got when it fails.                   *)
fork(p) ==
  LET k == Calling(p)
      slots == {q \in Procs : vm[q].state = "unused"}
      q == Min(slots)
      stack == kalloc(freelist)
      rest == freelist \ {stack}
      kvm == setupkvm(rest)
  IN
  /\ MayCall(p)
  /\ \/ /\ slots = {} \/ freelist = {}
        /\ Goto(p, Failed(k))
        /\ UNCHANGED <<freelist, mapfail>>
     \/ /\ slots # {} /\ freelist # {} /\ Cardinality(rest) < KvmPages
        /\ freelist' = {stack}
        /\ mapfail' = (mapfail \/ rest # {})
        /\ Goto(p, Failed(k))
     \/ /\ slots # {} /\ freelist # {} /\ Cardinality(rest) >= KvmPages
        /\ freelist' = rest \ ({kvm.dir} \cup kvm.kern)
        /\ vm' = [vm EXCEPT ![p] = [k EXCEPT !.pc = "copyuvm", !.new = kvm, !.child = q, !.a = 0],
                            ![q] = [Unused EXCEPT !.state = "embryo", !.kstack = stack]]
        /\ UNCHANGED mapfail
  /\ UNCHANGED vmpanic

(* A turn of the loop of copyuvm(), or the end of fork(). *)
copyuvm(p) ==
  LET k == vm[p]
      v == k.a \div PGSIZE
      mem == kalloc(freelist)
      rest == freelist \ {mem}
      bad(list) == /\ freelist' = kfree(list, freevm(k.new) \cup {vm[k.child].kstack})
                   /\ vm' = [vm EXCEPT ![p] = Failed(k), ![k.child] = Unused]
  IN
  /\ At(p, "copyuvm")
  /\ \/ /\ k.a >= k.sz
        /\ vm' = [vm EXCEPT ![p] = Back(k),
                            ![k.child] = [@ EXCEPT !.state = "run", !.pgdir = k.new, !.sz = k.sz,
                                                   !.pc = "user"]]
        /\ UNCHANGED <<freelist, mapfail, vmpanic>>
     \/ k.a < k.sz /\ k.pgdir.tab[PDX(v)] = 0 /\ Panic("copyuvm: pte should exist")
     \/ k.a < k.sz /\ k.pgdir.tab[PDX(v)] # 0 /\ k.pgdir.pte[v] = 0 /\ Panic("copyuvm: page not present")
     \/ /\ k.a < k.sz /\ k.pgdir.pte[v] # 0 /\ freelist = {}
        /\ bad({})
        /\ UNCHANGED <<mapfail, vmpanic>>
     \/ /\ k.a < k.sz /\ k.pgdir.pte[v] # 0 /\ freelist # {} /\ ~CanMap(k.new, rest, v)
        /\ bad(rest)
        /\ mapfail' = TRUE
        /\ UNCHANGED vmpanic
     \/ /\ k.a < k.sz /\ k.pgdir.pte[v] # 0 /\ freelist # {} /\ CanMap(k.new, rest, v)
        /\ freelist' = rest \ TablePage(k.new, rest, v)
        /\ LET pd == mappages(k.new, rest, v, mem)
               user == IF v \in k.pgdir.user THEN pd.user ELSE pd.user \ {v}
           IN  Goto(p, [k EXCEPT !.new = [pd EXCEPT !.user = user], !.a = @ + PGSIZE])
        /\ UNCHANGED <<mapfail, vmpanic>>

-----------------------------------------------------------------------------
(* exec(): the new address space.  The file may be missing or no program.    *)
exec(p) ==
  \E prog \in Programs :
    LET k == Calling(p)
        kvm == setupkvm(freelist)
    IN
    /\ MayCall(p)
    /\ \/ Goto(p, Failed(k)) /\ UNCHANGED <<freelist, mapfail>>
       \/ /\ Cardinality(freelist) < KvmPages
          /\ freelist' = {}
          /\ mapfail' = (mapfail \/ freelist # {})
          /\ Goto(p, Failed(k))
       \/ /\ Cardinality(freelist) >= KvmPages
          /\ freelist' = freelist \ ({kvm.dir} \cup kvm.kern)
          /\ Goto(p, [k EXCEPT !.pc = "exec_header", !.new = kvm, !.prog = prog])
          /\ UNCHANGED mapfail
    /\ UNCHANGED vmpanic

exec_bad(p, k) ==
  /\ freelist' = kfree(freelist, freevm(k.new))
  /\ Goto(p, Failed(k))

(* allocuvm(pgdir, sz, newsz) up to its loop.  In exec() k.from is sz, and   *)
(* a size of 0 reads as a failure.                                           *)
allocuvm_start(p, k, newsz, pc) ==
  IF newsz >= KERNBASE \/ (newsz = 0 /\ k.from = 0) THEN exec_bad(p, k)
  ELSE /\ Goto(p, [k EXCEPT !.pc = pc, !.a = PGROUNDUP(k.from),
                            !.to = IF newsz < k.from THEN k.from ELSE newsz])
       /\ UNCHANGED freelist

(* A turn of the loop over the program headers, up to allocuvm(), or the     *)
(* two pages of stack after the last one.  readi() may come up short, and a  *)
(* header with more bytes in the file than in memory ends the same way.      *)
exec_header(p) ==
  LET k == vm[p]
      h == Head(k.prog)
      top == PGROUNDUP(k.from)
  IN
  /\ At(p, "exec_header")
  /\ \/ /\ k.prog = <<>>
        /\ allocuvm_start(p, [k EXCEPT !.from = top], top + 2 * PGSIZE, "exec_stack")
     \/ k.prog # <<>> /\ exec_bad(p, k)
     \/ /\ k.prog # <<>> /\ ~h.load
        /\ Goto(p, [k EXCEPT !.prog = Tail(@)])
        /\ UNCHANGED freelist
     \/ /\ k.prog # <<>> /\ h.load /\ h.memsz >= h.filesz
        /\ allocuvm_start(p, k, h.vaddr + h.memsz, "exec_seg")
  /\ UNCHANGED <<mapfail, vmpanic>>

(* The loop of allocuvm() in exec(), for a segment and for the stack.  A     *)
(* failure frees the pages of this call, then exec() the address space.  The *)
(* size of the arguments matters only once the stack is there.               *)
allocuvm_exec(p, pc) ==
  LET k == vm[p]
      r == AllocTurn(k.new, [a |-> k.a, free |-> freelist])
      u == Undo(k.new, k.to, k.from)
  IN
  /\ At(p, pc)
  /\ \/ /\ k.a < k.to /\ freelist # {}
        /\ freelist' = r.free
        /\ mapfail' = (mapfail \/ r.lost)
        /\ Goto(p, [k EXCEPT !.new = r.pd, !.a = @ + PGSIZE])
     \/ /\ k.a < k.to /\ freelist = {}
        /\ freelist' = kfree(freelist, u.freed \cup freevm(u.pd))
        /\ Goto(p, Failed(k))
        /\ UNCHANGED mapfail
     \/ /\ k.a >= k.to /\ pc = "exec_seg"
        /\ Goto(p, [k EXCEPT !.pc = "loaduvm", !.from = k.to])
        /\ UNCHANGED <<freelist, mapfail>>
     \/ /\ k.a >= k.to /\ pc = "exec_stack"
        /\ \E args \in 1 .. 2 * PGSIZE : Goto(p, [k EXCEPT !.pc = "exec_commit", !.args = args])
        /\ UNCHANGED <<freelist, mapfail>>
  /\ Remap(k.new, k.a, k.to)

(* loaduvm() of the segment.  The file may end before the segment does, at a *)
(* page the loop reached.                                                    *)
loaduvm(p) ==
  LET k == vm[p]
      h == Head(k.prog)
      table(i) == k.new.tab[PDX((h.vaddr + i) \div PGSIZE)] # 0
      pages == {i \in 0 .. h.filesz - 1 : i % PGSIZE = 0}
  IN
  /\ At(p, "loaduvm")
  /\ IF h.vaddr % PGSIZE # 0 THEN Panic("loaduvm: addr must be page aligned")
     ELSE \/ /\ \E i \in pages : ~table(i)
             /\ Panic("loaduvm: address should exist")
          \/ /\ pages # {} /\ table(0)
             /\ exec_bad(p, k)
             /\ UNCHANGED <<mapfail, vmpanic>>
          \/ /\ \A i \in pages : table(i)
             /\ Goto(p, [k EXCEPT !.pc = "exec_header", !.prog = Tail(@)])
             /\ UNCHANGED <<freelist, mapfail, vmpanic>>

(* copyout() of the last n units below sz: uva2ka() must find PTE_U.  It     *)
(* relies on the page table being there.                                     *)
copyout(pd, sz, n) == \A v \in (sz - n) \div PGSIZE .. sz \div PGSIZE - 1 : v \in pd.user

(* Faulty variant: the page below the stack stays accessible. *)
clearpteu_not(pd, v) == pd

clearpteu(pd, v) == [pd EXCEPT !.user = @ \ {v}]

(* clearpteu() on the page below the stack, the arguments, the commitment.   *)
exec_commit(p) ==
  LET k == vm[p]
      sz == k.to
      pd == clearpteu(k.new, sz \div PGSIZE - 2)
  IN
  /\ At(p, "exec_commit")
  /\ \/ /\ pd.tab[PDX(sz \div PGSIZE - 2)] = 0
        /\ Panic("clearpteu")
     \/ /\ pd.tab[PDX(sz \div PGSIZE - 2)] # 0 /\ pd.tab[PDX(sz \div PGSIZE - 1)] = 0
        /\ Panic("uva2ka: null pointer")
     \/ /\ \A v \in {1, 2} : pd.tab[PDX(sz \div PGSIZE - v)] # 0
        /\ IF copyout(pd, sz, k.args)
           THEN /\ freelist' = kfree(freelist, freevm(k.pgdir))
                /\ Goto(p, [Back(k) EXCEPT !.pgdir = pd, !.sz = sz])
           ELSE exec_bad(p, k)
        /\ UNCHANGED <<mapfail, vmpanic>>

(* exit() of a process other than the first, and wait() in its parent. *)
wait(p) ==
  /\ At(p, "user") /\ p # Min(Procs)
  /\ freelist' = kfree(freelist, freevm(vm[p].pgdir) \cup {vm[p].kstack})
  /\ Goto(p, [Unused EXCEPT !.calls = vm[p].calls])
  /\ UNCHANGED <<mapfail, vmpanic>>

MemNext ==
  \E p \in Procs :
    \/ growproc(p) \/ allocuvm_grow(p) \/ return_fail(p) \/ fork(p) \/ copyuvm(p)
    \/ exec(p) \/ exec_header(p) \/ loaduvm(p)
    \/ allocuvm_exec(p, "exec_seg") \/ allocuvm_exec(p, "exec_stack")
    \/ exec_commit(p) \/ wait(p)

-----------------------------------------------------------------------------
(* The uses of pages: where a page table, or the kernel stack, names one.    *)
UsesOf(p, pd, whose) ==
  IF pd = NoPgdir THEN {}
  ELSE {[proc |-> p, of |-> whose, as |-> "dir", at |-> 0, page |-> pd.dir]}
       \cup {[proc |-> p, of |-> whose, as |-> "kern", at |-> x, page |-> x] : x \in pd.kern}
       \cup {[proc |-> p, of |-> whose, as |-> "tab", at |-> x, page |-> pd.tab[x]]
               : x \in {y \in 0 .. NPDE - 1 : pd.tab[y] # 0}}
       \cup {[proc |-> p, of |-> whose, as |-> "pte", at |-> v, page |-> pd.pte[v]]
               : v \in {w \in VPages : pd.pte[w] # 0}}
Stacks ==
  {[proc |-> p, of |-> "proc", as |-> "kstack", at |-> 0, page |-> vm[p].kstack]
     : p \in {q \in Procs : vm[q].kstack # 0}}
Uses ==
  Stacks \cup UNION {UsesOf(p, vm[p].pgdir, "pgdir") \cup UsesOf(p, vm[p].new, "new") : p \in Procs}

(* No page has two uses, and none in use is on the free list, however the    *)
(* calls that build and free address spaces interleave and fail.             *)
NoPageTwice ==
  LET pages == {u.page : u \in Uses}
  IN  Cardinality(pages) = Cardinality(Uses) /\ pages \cap freelist = {}

(* No page is lost, unless mappages() failed: sbrktest() asks whether a      *)
(* failed allocation is cleaned up.                                          *)
NoPageLost == ~mapfail => freelist \cup {u.page : u \in Uses} = 1 .. NPAGES

(* Every page is on the free list or in one place, so kalloc() never hands   *)
(* out a page in use and memory does not run down.                           *)
PagesAccounted == NoPageTwice /\ NoPageLost

(* A process that runs has exactly the pages below proc->sz.                 *)
SizeMapped ==
  ~mapfail => \A p \in Procs : vm[p].pc = "user" /\ vm[p].pgdir.pte[0] # 0 =>
    \A v \in VPages : (vm[p].pgdir.pte[v] # 0) = (v * PGSIZE < vm[p].sz)

(* A call that fails leaves the memory of its process as it was.  The one    *)
(* exception is sbrk() by -sz, whose -1 comes when every page is gone        *)
(* (proc.c:117): then none is left, so none is held beyond the size asked.   *)
FailureUndone ==
  \A p \in Procs :
    /\ vm[p].pc = "failed" =>
         vm[p].pgdir.pte = vm[p].before.pte /\ vm[p].pgdir.user = vm[p].before.user
    /\ vm[p].pc = "emptied" /\ ~mapfail => \A v \in VPages : vm[p].pgdir.pte[v] = 0

(* For programs as the linker lays them out (LinkedPrograms) no assertion of *)
(* copyuvm(), loaduvm(), mappages(), clearpteu() or uva2ka() fails, unless   *)
(* mappages() failed unnoticed.  exec() does not check the alignment that    *)
(* loaduvm() asserts, so nothing is said of other executables.               *)
NoVmPanic == ~mapfail => vmpanic = "no"

(* fork(), growproc() and exec(), done or failed at any point, leave every   *)
(* process the address space that its size promises.                         *)
SpacesSound == SizeMapped /\ FailureUndone /\ NoVmPanic

(* exec() succeeds only with arguments that fit the page of the stack:       *)
(* bigargtest() asks whether it writes below.                                *)
BigArgsFail ==
  [][\A p \in Procs : vm[p].pc = "exec_commit" /\ vm'[p].pc = "user" => vm[p].args <= PGSIZE]_memVars
==============================================================================
