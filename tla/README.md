# xv6 in TLA+

TLA+ modules for the xv6 kernel in `src/xv6-public` (with the added
`getpcount` system call), its shell, its user allocator and its image builder:
models, TLC runs on small instances, and proofs checked by TLAPS. Names in the
modules are the names in the C code; every definition that models code is
listed with its lines in `PROJECT.json` under `map`.

## The system

xv6 is a small Unix kernel for shared-memory multiprocessors. Processes run
system calls on their own kernel stacks, are preempted by a timer, and share
all kernel state under spin locks; they wait with `sleep(chan, lock)` and are
woken by `wakeup(chan)`.

| Part | Operations | What is hard | Module |
|---|---|---|---|
| Spin locks (`spinlock.c`) | `acquire`, `release`, `pushcli`, `popcli` | interrupt handlers that need a lock their CPU holds; `holding` reads without a lock | `Spinlock` |
| Processes (`proc.c`, `trap.c`) | `fork`, `exit`, `wait`, `kill`, `sleep`, `wakeup`, `yield`, `scheduler` | the lock is handed from process to scheduler to process; stacks freed by another CPU; reparenting | `Proc` |
| Memory (`kalloc.c`, `vm.c`, `exec.c`) | `kalloc`, `kfree`, `allocuvm`, `deallocuvm`, `copyuvm`, `freevm`, `exec` | failure half way | `Memory` |
| Clock (`trap.c`, `sysproc.c`) | `sys_sleep`, the timer | two locks around one sleep; wrapping ticks | `Clock` |
| Buffer cache and disk (`bio.c`, `ide.c`) | `bread`, `bwrite`, `brelse`, `iderw`, `ideintr` | a buffer recycled while somebody waits for it; one channel for two kinds of sleepers | `Bcache` |
| Log (`log.c`) | `begin_op`, `log_write`, `end_op`, `commit`, recovery | power failure between any two block writes; space shared by concurrent calls; commit without the lock | `Log` |
| Inodes, directories, files (`fs.c`, `file.c`, `sysfile.c`) | `iget`, `ilock`, `iput`, `namex`, `dirlink`, and the file system calls | the last `iput` against a new `iget`; link counts and locks of two inodes; error paths | `FileSys` |
| File contents (`fs.c`, `file.c`) | `balloc`, `bfree`, `bmap`, `itrunc`, `readi`, `writei`, `filewrite` | concurrent allocation; writes longer than a transaction | `FileData` |
| Pipes (`pipe.c`) | `pipewrite`, `piperead`, `pipeclose` | partial writes, several sleepers per channel, wrapping counters, kill | `Pipe` |
| Console input (`console.c`) | `consoleintr`, `consoleread` | three wrapping indices; several readers; end of file | `Console` |
| Shell (`sh.c`) | the parser, `runcmd` | descriptors of pipelines; who waits for whom | `ShellParser`, `Shell` |
| User allocator (`umalloc.c`) | `malloc`, `free`, `morecore` | joining and splitting blocks | `Umalloc` |
| Image builder (`mkfs.c`) | `main`, `ialloc`, `iappend`, `balloc` | the edge between direct and indirect blocks | `Mkfs` |

How they interact: file system calls run between `begin_op` and `end_op`; they
read and change blocks through the buffer cache; `log_write` pins a changed
buffer until `commit` writes it; the cache reads and writes through the IDE
queue; every wait goes through `sleep` and `wakeup` of the process table.
`Log` therefore contains the cached copy of each block and its recycling,
`Bcache` the pinning, `Clock`, `Pipe` and `Console` the exchange of locks in
`sleep`, and `FileData` the transactions of `filewrite`. `PROJECT.json` lists
all parts, also those that are not modelled, and the hazards of the code line
by line.

## Modules

`AtomicDisk`, `ByteQueue`, `BlockStore` and `LineQueue` are abstract
specifications that `Log`, `Pipe`, `Bcache` and `Console` are shown to
implement. `UserTests` and `DataTests` are the tests of `usertests.c` as
programs for `FileSys` and `FileData`. `LogCapacity` and `LogInv` carry the
conditions and the inductive invariants for the proofs about `Log`. The `MC`
modules hold the instances; `MCParts` is one state machine that runs one of
the seven smaller components, the others standing still.

Definitions whose comment begins with "Faulty variant" are not part of the
models. Each is a plausible mistake in the definition that follows it; with
it in place, TLC refutes the property named in `PROJECT.json` under `mutants`.

**Granularity.** A critical section under a spin lock is one step, up to its
`release` or the `sleep` that gives the lock up: no other holder of the lock
can see its intermediate states. Steps are split wherever the code reads or
writes shared state without the lock (`log_write`'s test of `lh.n`, `fork`
between `allocproc` and `RUNNABLE`, the test of `killed` before `sleep` in a
pipe), at every disk write, and at every `swtch`. `Spinlock` justifies this
at the level of single instructions.

### Log

Each process is outside a call, in `begin_op`, asleep there, inside a call,
inside `log_write`, or committing. `cache` is the newest copy of each home
block in memory; `dirty` the blocks pinned by `log_write`. The disk phases of
`commit` are `write_log` (a block per step), `write_head`, `install_trans` (a
block per step) and `erase`; recovery runs `read_head`, `install_trans`,
`erase`. `Crash` may come between any two steps and keeps only `disk`,
`loghead` and `logblk`. The write of one block is atomic. `OPMAX` is the most
distinct blocks a call writes.

* `CrashAtomic`: the log implements `AtomicDisk`. The refinement mapping reads
  the durable disk as the home blocks overlaid by the logged ones whenever the
  header on disk names them.
* `IndInv`: the inductive invariant of the proofs, the type invariant in it.
* `NoPanic`: neither panic of `log_write` nor that of `end_op` is reached,
  in runs whose calls satisfy `Capacity(OPMAX)`.
* `SleeperWakes`: whoever sleeps in `begin_op` is woken. (That it then finds
  room is not claimed: others may take it first, again and again.)
* `LogFits`, `WriteAhead`, `DurableOnReturn` are proved and have no run.

`Capacity(n)` in `LogCapacity` is what the sizes must satisfy for calls that
log `n` blocks. The obvious condition, `n <= MAXOPBLOCKS`, is not enough, as
`log_full` shows: `begin_op` admits calls up to `LOGSIZE` blocks, but
`mkfs.c:25` makes the log `LOGSIZE` blocks long *including* its header, and
`log_write` wants a free entry even to absorb a block it already has. With the
values of `param.h` the condition reads `n <= 9`. `filewrite` may log more
(`file.c:132`), so the repository as a whole does not meet it.

### Processes

`ctx[c]` says whose kernel stack CPU `c` runs on (`NoProc` is the stack of its
scheduler), `lock` which CPU holds `ptable.lock`, `next[c]` where the scan of
`scheduler` resumes. `kst[p]` is `run`, `sched` (state changed, lock held,
still on its stack), `off`, or `resume` (switched to, lock held by its CPU).
`exit`, `wait`, `sleep` and `yield` enter `sched` with the lock; `sched` is the
`swtch` to the scheduler; `scheduler_run` the one to the next process;
`resume` or the next round of `wait` releases it. `fork` is four steps, with
`allocproc` and the last part under the lock and the others not; `fork_fail`
stands for any failure of `kalloc` or `copyuvm`. A trap in user space that
kills the process is an `exit`. `sleep` is a wait for something other than a
child.

* `StacksOwned`: no kernel stack is used by two CPUs or freed while in use,
  and states agree with the CPUs outside the hand-over.
* `ProcessTree`: parents alive, no zombie missed by `wait`, pids unique.
  Both contain what makes them inductive.
* `PcountExact`: what `getpcount` returns, at any moment.
* `RunnableRuns`, `OrphanReaped`, `KilledExits`: liveness.

### Pipes

`p->lock` is explicit, so that `kill`, which takes only `ptable.lock`, can
come between the test of `killed` and the `sleep`. `left[p]` is what a blocked
writer has not written, or the `n` of a blocked reader. Counters live modulo
`WORD`. An end is closed when its last holder closes it. Calls with `n = 0`
are left out.

* `PipeIsQueue`: the pipe implements `ByteQueue`.
* `PipeSound`: types, `CallInv` (who is in a call, what is left of it, and
  what was tested before `sleep`), and `NoLostWakeup` unless a writer was
  killed: nobody sleeps on a condition that has changed. It is inductive.
  `CallReturns`: liveness.

`NoLostWakeup` fails when a writer may be killed (run `pipe_lost`): a writer
that sleeps on a full pipe is killed, the reader empties the pipe and goes to
sleep again, the writer runs, fills the pipe, finds it full with bytes left,
sees `killed` and returns -1 without the `wakeup(&p->nread)` of the other two
exits. If another process holds the write end, the reader sleeps on a full
pipe until that process writes or closes.

### Buffer cache and disk

A process is idle, in `bget`, asleep there, using a buffer, or in one of the
stages of `iderw`. The active request is the head of `idequeue`; the disk
finishes it (`disk_done`: a write takes effect) and raises `irq`; `ideintr`
transfers a read, sets the flags, wakes, and goes on with the next. `MaxPinned`
bounds the buffers the log keeps dirty. A member of `Procs` uses one buffer at a
time; a process that holds two (`write_log` and `install_trans`, `bmap` in
`balloc`) is a pair, the second with the first as its `Outer`, and `Nested` has
the pairs of blocks it may ask for in that order. When no buffer is free and
clean `bget` panics (`bget_panic`) and keeps `bcache.lock`.

* `CacheIsStore`: the cache and driver implement `BlockStore`.
* `BuffersSound`: one holder per buffer and one buffer per block, a queue
  without duplicates, flags that mean what they say, and valid buffers equal
  to the disk unless reads fail. It contains what makes it inductive
  (`HolderInv`, `FlagInv`), and `PanicOnlyWhenFull`: `bget` panics only when
  each of the `NBUF` buffers has a user or an uncommitted change, so none is
  ever lost. That this does not happen is not claimed (see below).
* `BreadReturns`: liveness, with processes that hold two buffers.

### File system calls

A process runs a program: a sequence of steps, each a set of calls to choose
from with the result expected. `proc[p]` holds the locals of its call; `pc` is
the point of the call, `lk` the inode it waits for or has locked, `puts` the
`iput`s still to do. A call takes `begin_op`, walks its path one `ilock` at a
time (`namex`), and then has a step for each stretch between two locks. An
`iput` is one step, and three when it frees the inode, because it gives up
`icache.lock` meanwhile. A process that exits keeps its slot until `wait`. Names, path elements and `DIRSIZ` are kept, so that
`skipelem` cuts names as the code does. The log, the buffer cache and the
blocks of directories are left to the other modules: an inode on disk is its
type, its link count, its entries and its data.

* `CountsExact`: `ip->ref` and `f->ref` are the numbers of pointers that exist.
* `IputInTransaction`: what the comment of `iput` asks of its callers.
* `TreeSound`: links are the number of names, no name dangles, directories
  form a tree.
* `TestsPass`: the tests get the results they ask for, and nothing panics.
* `CallsReturn`: nobody waits for an inode for ever.

The programs are `iputtest`, `exitiputtest`, `openiputtest`, `opentest`,
`writetest`, `createtest`, `dirtest`, `createdelete`, `unlinkread`,
`linktest`, `concreate`, `linkunlink`, `bigdir`, `subdir`, `fourteen`,
`rmdot`, `dirfile`, `iref` and `forktest` of `usertests.c`, with few rounds in
each loop, and two programs (`Crowd`, `Shared`) in which two processes choose
their calls on the same names and descriptors freely.

### File contents

A block is a row of `BSIZE` cells; a cell holds a byte or a block number. A
step is what a process does between two moments at which another can see the
bitmap or an inode: a turn of the loops of `readi`, `writei` and `itrunc`, a
transaction of `filewrite`. `logged` is the set of blocks the transaction has
written; `contents` the bytes each file should have.

* `BlocksOwned`: no block is in two places, and the bitmap marks exactly the
  blocks in use.
* `ContentsKept`: the inode on disk and its blocks hold what was written, and
  a read returns it.
* `WriteFitsLog`: a transaction of `filewrite` alone in the log never makes
  `log_write` panic: it writes at most the `LOGSIZE - 1` blocks that the log on
  disk has entries for, with one bitmap block (`FSSIZE` is 1000, a bitmap block
  has 4096 bits).
* `NothingOverwritten`: what `sharedfd` and `fourfiles` test.

### Memory

`freelist` is a set, from which `kalloc` takes the least page (which one is
taken matters to nothing in the code). An address space is its directory page,
the page table pages of the kernel part, the page table pages and the pages of
the user part, and the pages the user may touch. One turn of the loop of
`allocuvm` or `copyuvm`, or of `exec`'s loop over the program headers, is a
step; `loaduvm` is one step, with its assertions. A program is its sequence of
headers. `LinkedPrograms` assumes that segments to be loaded start at page
boundaries, as the linker lays them out (`-N -Ttext 0` in the Makefile): `exec`
passes `ph.vaddr` on unchecked and `loaduvm` asserts it. Arguments of `exec`
count by their size.

* `PagesAccounted`: every page is in one place.
* `SpacesSound`: a process has exactly the pages below `sz`; a call that fails
  leaves them, except `sbrk` by `-sz`; none of the assertions of `copyuvm`,
  `loaduvm`, `mappages`, `clearpteu` and `uva2ka` fails for such programs.
* `BigArgsFail`: arguments larger than the stack page make `exec` fail.

All three except the last are stated for behaviours in which `mappages` has
not failed (`mapfail`), see below.

### Spin locks

A step is one access to `lk->locked` or `lk->cpu`, so the assertions of
`holding` run against other CPUs in the middle of `acquire` and `release`.
Code takes locks in one order. Interrupts come whenever `FL_IF` is set; a
handler takes locks too.

* `SpinInv`: inductive, with `LocksSafe` in it: mutual exclusion, `holding`
  exact, no interrupt while a lock is held, the interrupt flag restored, no
  panic.

### Clock, console

`Clock` has the two locks of `sys_sleep` and `sleep` and the two steps of the
timer interrupt, `ticks` modulo `TICKS`. `SleepsAsAsked`: `sys_sleep(n)`
returns 0 not before `n` ticks and is not asleep when its time has come; the
type invariant and `SleeperInv` in it make it inductive. `SleepReturns`: it
returns.

`Console` has one step per key (`cr`, `^P`, `^U`, `^H`, `^D`, nul, others) and
per character read, indices modulo `INDICES`. `ConsoleIsLineQueue`: it
implements `LineQueue`. `ReadersServed`: no reader sleeps while there is a
line, and a read ends with the line; it is inductive, with types, the order of
the indices round the ring (`RingInv`) and one reader at a time in the loop
(`LoopInv`) in it. `EofReturnsZero`: a `^D` is consumed only by a read that
returns 0.

### Shell

`ShellParser` has the parse functions on tokens, `Shell` the processes: each
runs a node of the tree, with its descriptors. A pipe is named by the node
that made it. A program reads its input to the end and exits, so it ends only
if all writers of the pipe have closed it.

* `LineUnderstood`: of the lines run, those that are commands give a tree that
  printed back is the line, the others are refused, and `nulterminate` reaches
  every word. It is no definition of the grammar: `Unparse` writes each command
  one way, while `sh.c` also takes others, such as `( a )` or `a > x w`.
* `WiredAsTyped`: descriptors 0 and 1 are what the line says, all others
  closed.
* `ForegroundFirst`: the prompt, and the right side of a list, wait for what
  is not in the background. `EveryLineEnds`: liveness.

### Allocator, image builder

`Umalloc` keeps headers at units of the heap; `HeapSound` says that blocks
tile the heap, that the free list is ordered and joined, and that blocks are
as large as asked. `Mkfs` runs `main` call by call, and the byte at offset `o`
of inode `i` is the pair `<<i, o>>`; `ImageSound` says that every byte is
where `bmap` looks for it, that the bitmap is right and no block is shared.

## Runs

| Run | Instance | States | Shows |
|---|---|---|---|
| `log_crash` | 2 processes, 2 blocks, 2 values, 2 crashes | 74,562 | atomicity; the inductive invariant of the proofs |
| `log_wakeup` | 3 processes, 3 blocks, log of 4 | 30,595 | space and liveness of `begin_op`; two calls fit, the third must wait |
| `log_full` | 3 processes, `OPMAX = MAXOPBLOCKS = 2`, log of 6 = 3 `MAXOPBLOCKS`, as in `param.h` | | three calls that use their reservations panic in `log_write` (expected violation) |
| `proc_safety` | 4 slots, 2 CPUs, pids up to 4 | 756,035 | the safety of the process table |
| `proc_live` | 3 slots, 1 CPU, pids up to 3 | 6,271 | liveness |
| `pipe` | 2 writers, 1 reader, ring of 2, counters modulo 4, messages up to 3 | 45,971 | the queue, wakeups, liveness |
| `pipe_lost` | the same with writers that may be killed | | the lost wakeup above (expected violation) |
| `bcache_store` | 3 processes, 3 blocks, 2 buffers, 1 pinned | 154,666 | the block store and the invariants |
| `bcache_live` | 2 processes with two buffers each, 2 blocks, 3 buffers, read errors | 3,937 | every `bread` returns |
| `fs` | 3 process slots, 10 inodes, 6 cache slots, 3 files, 2 descriptors | 94,879 | the file system calls under the tests and two free programs |
| `data` | 2 processes, 2 files, 7 blocks of 2 cells, 1 direct block, 1 bitmap block, log of 6 | 259,529 | blocks and contents under 7 programs |
| `parts` | see below | 125,793 | memory, spin locks, clock, console, shell, allocator, image builder |

Why the bounds are enough for the interesting cases: two crashes put one into
a recovery; four slots are needed for a process that exits with a zombie child
under a parent other than init, and two CPUs for a stack used twice; pids stop
at `MaxPid`, after slots have been reused; messages longer than the ring force
partial writes and six bytes wrap the counters; three processes and three
blocks with two buffers force recycling around a pinned one and reach the panic
of `bget`; the inode cache, file table and
descriptors of `fs` are small enough that calls run out of each; blocks of two
cells with one direct block reach the indirect block with the second block,
and seven blocks let two processes fill the disk. In `parts`: 13 pages and
three processes, of which the third cannot be built whole, programs of one and
two segments, one of them too large; two locks and two
CPUs, so that locks nest and handlers nest in code; `ticks` modulo 4, so that
it wraps within a sleep; a ring of 3 keys with indices modulo 6 and two
readers; command lines with up to three programs, pipes, lists, parentheses,
redirections, background, and lines that are not commands; a heap of 8 units;
files that end before, at and behind the last direct block. Deadlock is not
checked for pipes, `fs`, `data` and `parts`, where all programs end, nor for
`bcache_live`, where a circle of waiting processes is for `BreadReturns` to
find, and is checked everywhere else. Symmetry is used for processes, CPUs, blocks or
values, only in runs without liveness properties.

**Fairness.** Weak fairness for steps that stay enabled: a process or CPU in
the kernel keeps executing, the disk answers, the timer ticks, a program of
the shell gets on, a process that waits for an inode is woken and looks again.
Strong fairness where a step needs a spin lock or a processor that others take
from time to time: xv6's spin locks have no queue, so that a contender gets
the lock in the end is an assumption about the hardware. Also: a file system
call makes finitely many `log_write`s, the user of a buffer releases it,
awaited I/O completes, init keeps calling `wait`, and a process that holds the
end of a pipe uses it again or closes it. Nobody is assumed to make another
system call otherwise. `SleepReturns` assumes that a woken process runs within
`MaxLate` ticks.

## Proofs

The safety of seven components is proved for every value of their constants,
and with it four refinements. Eight modules hold the proofs; each has one lemma
per action of the component and lemmas for the facts they share.

**Log.** `LogStepProofs` (the steps of `begin_op`, `commit` and recovery that
count nothing), `LogCallProofs` (the steps that change the calls in progress or
the blocks reserved for them, and a crash) and `LogProofs` (`end_op`, each step
as a step of `AtomicDisk`, the theorems) prove for every number of processes,
blocks, values and crashes, and for all sizes:

* `Invariance`: `Spec /\ []WithinLog => []IndInv`;
* `HomeWritesAreAhead`, `CommitIsDurable`: under the same condition, home blocks
  change only for a transaction whose header is on disk; when the last `end_op`
  returns they have changed;
* `Refinement`: `Spec /\ []WithinLog => CrashAtomic`;
* `NeverPanics`, `TransactionFits`: for every `n` with `Capacity(n)`, if no call
  ever logs more than `n` blocks (`[]Modest(n)`), then nothing panics and
  `WithinLog` holds, so the theorems above apply.

The first four assume nothing of the calls. `WithinLog` says that the entries
of `log.lh` fit its array and the log on disk; this is what `log_write` tests,
but without `log.lock`, so two calls at a full log could both pass. Calls too
large for their reservation, those of `filewrite` included, are covered as long
as they end in the panic or fit: a call that panics keeps its buffer and stays
in its transaction, and nothing is committed any more.

None of the safety properties is inductive. `IndInv` is the conjunction of the
types, `ControlInv` (at most one process commits and nobody is in a call
meanwhile; `outstanding` counts the calls; who panics in `log_write` has found
the log full), `BufInv` (who holds a buffer), `HeadInv` (what the headers in
memory and on disk are in each phase) and `DataInv` (which of log block, home
block and cached copy agree in each phase). For `NeverPanics` comes `SpaceInv`:
the entries in the log plus those that the calls in progress may still add fit,
the set `Reserved` making the sum a cardinality. TLC checks `IndInv` in
`log_crash`.

**Processes.** For every number of slots, CPUs and pids, `ProcStackProofs`
proves `StacksInvariance` (`SafetySpec => []StacksOwned`), and `ProcTreeProofs`
proves `TreeInvariance` (`ProcessTree` as well) and `GetpcountExact`
(`PcountExact`). The assumptions are that there is a slot for init and that
pids do not wrap. `StackExclusive` and `RunningOnCpu` are not inductive:
`StackInv` says where each kernel stack is and that a CPU inside `sched` holds
`ptable.lock`, which is why a process that `scheduler` finds `RUNNABLE`, or
`wait` finds a zombie, has left its stack; `ForkInv` says that every `fork` in
progress has an `EMBRYO` slot of its own, which is why its unlocked steps are
harmless. `TreeInv` adds that init never goes away and that a slot is in use
exactly if it is init's, somebody's child, or just claimed by a `fork`; from
this `PcountExact` follows by counting three disjoint sets. The actions that
only put processes to sleep, wake or switch them share a lemma. TLC checks both
invariants in `proc_safety`.

**Pipes.** `PipeProofs` proves, for any numbers of readers and writers, any
length of messages, any kills, and any `PIPESIZE` that divides `WORD` and is
smaller (512 and `2^32` in the code):

* `PipeInvariance`: `SafetySpec => []PipeSound`;
* `PipeRefinesQueue`: `SafetySpec => PipeIsQueue`.

`NoLostWakeup` needs `CallInv`: between the test of the counters and `sleep`
the process holds `p->lock`, so what it tested still holds when it sleeps, and
whoever changes the condition later takes the lock and wakes. The one exit that
changes it and does not wake is that of a killed writer, hence the disjunct in
`PipeSound`. The refinement maps the counters to the sequence of bytes between
them. Its core are lemmas on arithmetic modulo `WORD`: the difference of two
wrapped counters is the number of bytes, and two counters less than `PIPESIZE`
apart name different slots, because `PIPESIZE` divides `WORD`.

**Buffer cache and disk.** `BcacheProofs` proves, for any number of processes,
blocks, values and buffers, any `MaxPinned`, and any `Outer` and `Nested`:

* `BuffersInvariance`: `SafetySpec => []BuffersSound`;
* `CacheRefinesStore`: `SafetySpec => CacheIsStore`, if `~ReadErrors`.

`PanicOnlyWhenFull` is a counting argument: a busy buffer has one holder, so
when `bget` finds none that is neither busy nor dirty, the holders and the
buffers dirty and free are together `NBUF`, and afterwards nobody can take
`bcache.lock` to change that. `HolderInv` says which process owns each busy buffer
at each point of `bget` and `iderw`, the sleeping ones included; without it the
interrupt could finish a request whose buffer has been recycled. `FlagInv` adds
that the interrupt of a write comes after its effect on the disk.

**Clock, console, spin locks.** `PartsProofs` has the three parts that are
small enough to share a module.

* `SleepInvariance` (`ClockSpec => []SleepsAsAsked`), for any number of
  sleepers and any `TICKS` larger than the times slept (`n` is an `int`, so the
  code meets this). `SleeperInv` says that the wrapped difference
  `sys_sleep` tests never exceeds the ticks that have passed, and that
  `tickslock`, then `ptable.lock`, keep `wakeup` away from a process that has
  tested and does not yet sleep.
* `ReadersInvariance` (`ConSpec => []ReadersServed`), `EofInvariance`
  (`ConSpec => EofReturnsZero`) and `ConsoleRefinesLineQueue`
  (`ConSpec => ConsoleIsLineQueue`), for any number of readers and any
  `INPUT_BUF` that divides `INDICES` and is smaller (128 and `2^32` in the
  code). `RingInv` keeps `r`, `w` and `e` in this order within one turn of the
  ring, so that a key never overwrites what is not yet read, and keeps newlines
  out of the line being edited, so that kill-line removes all of it and nothing
  more. The refinement reads the finished lines between `r` and `w` and the
  edited one between `w` and `e`; lemmas say what storing, erasing, finishing
  and taking a character do to the two texts.

**Spin locks.** `PartsProofs` proves, for every number of CPUs and locks,
`SpinInvariance` (`SpinSpec => []SpinInv`) and from it `SpinLocksSafe`. The
assumptions are that `Locks` is a finite set of numbers and that code takes
locks in increasing order (a guard of `acquire`). `LocksSafe` is not inductive:
`GrantInv` relates `lk->locked` and `lk->cpu` to the CPU that was granted the
lock at each point of `acquire` and `release`, and `CliInv` says that
`cpu->ncli` counts the locks the CPU has or is taking or giving back and that
`cpu->intena` is the flag the outermost one found. TLC checks `SpinInv` in
`parts`.

**Only model-checked.**

* All liveness properties: TLAPS handles neither fairness nor `ENABLED`.
* The shell (`LineUnderstood`, `WiredAsTyped`, `ForegroundFirst`): the parser is
  a set of recursive operators, and what recursion computes needs induction
  over data, which is out of the prover's reach.
* `HeapSound` of `Umalloc`: the free list is what following `ptr` any number of
  times reaches, which needs the same induction.
* `FileSys` (`CountsExact`, `IputInTransaction`, `TreeSound`, `TestsPass`): path
  names are cut by a recursive operator (`skipelem`). `TestsPass` and
  `TreeSound` moreover hold of the programs that the runs execute, not of any
  program (see the next section).
* `FileData` (`BlocksOwned`, `ContentsKept`, `WriteFitsLog`,
  `NothingOverwritten`), `Memory` (`PagesAccounted`, `SpacesSound`,
  `BigArgsFail`) and `Mkfs` (`ImageSound`): sequential loops over tables of
  blocks or pages. Nothing in principle prevents a proof; there is none yet.

## Where the code violates a property

Two are kept as runs, with a finding each: `log_full` (a transaction of calls
that use their whole reservation panics) and `pipe_lost` (a killed writer
leaves a reader asleep on a full pipe).

TLC refutes more on the models as they stand. No run keeps them, so the
passing runs must be read with these restrictions:

* A process is not born killed. `kill` matches a pid without looking at the
  state (`proc.c:418`) and `allocproc` does not clear `killed`. With 0 in
  `KillPids`, `kill(0)` marks a free slot and the next `fork` gets it. The
  runs of `Proc` kill pids of children only.
* A killed process leaves a pipe call whatever the other end does. `killed` is
  tested before `sleep` without `ptable.lock` (`pipe.c:106`), and a `kill` in
  between does not wake. With fairness for the calls in progress only, a
  killed reader sleeps for ever. `CallReturns` holds because it assumes that
  the other end is used or closed. A killed reader of the console
  (`console.c:243`) likewise stays until the next line; `Console` has the
  behaviour and no property about it. In `sys_sleep` the next tick helps.
* A valid buffer holds the data of its block. `ideintr` sets `B_VALID` after a
  failed read (`ide.c:114`), while `bio.c:19` says the data has been read.
  `ValidMatchesDisk` and `CacheIsStore` fail with `ReadErrors = TRUE`;
  `bcache_store` sets it to `FALSE`, and `BuffersSound` asks for the first only
  then. `bcache_live` has read errors, and `BreadReturns` holds with them.
* No name leads to a freed inode. The `..` of a removed directory that is
  still a current directory does, once its parent has been removed as well:
  opening it then reaches `panic("ilock: no type")`. `Crowd` and the tests do
  not use `..` there. `TreeSound` leaves out the `..` of removed directories,
  and what is created in one (`orphaned`): such an entry keeps its inode
  allocated for ever.
* Address spaces are whole. `allocuvm` ignores a failure of `mappages`
  (`vm.c:240`), which leaves a hole below `sz`, and then `copyuvm`, `loaduvm`
  or `uva2ka` panic; `setupkvm` and `copyuvm` do not free what they have
  when `mappages` fails (`vm.c:142`, `vm.c:329`), and `deallocuvm` goes on a
  whole table's length from where a table is missing (`vm.c:262`), past pages
  behind it. The variable `mapfail`
  records such a failure, and the properties of `Memory` are stated up to it.
* `growproc` takes a new size of 0 for an error, after the pages are gone
  (`proc.c:117`), and leaves `sz` as it was. `SpacesSound` says of such a call
  only that no page is left.
* There is always a buffer. `bget` panics when all `NBUF` are held or pinned
  (`bio.c:95`), and `param.h` does not exclude it: 64 processes with up to two
  buffers each, 30 buffers, up to 29 of them pinned by the log.
* A `filewrite` transaction fits next to others. Alone it logs up to 17 blocks
  (14 of data, the indirect block, the inode, the bitmap), more than the 10
  that `begin_op` reserves (`param.h:10`), so `NeverPanics` does not cover it
  beside other calls. With a bitmap block for each block allocated it would
  log `LOGSIZE` blocks, one more than the log holds; `WriteFitsLog` assumes
  the one bitmap block of the image.
* The shell prompts only when the foreground has ended. When `fork` fails in
  the shell itself, `fork1` panics and the shell exits (`sh.c:188`);
  `ForegroundFirst` is stated for behaviours without a failed `fork`.
* Every byte of an image is in place. `mkfs` rounds the size of the root
  directory up by a whole block when its entries fill their blocks
  (`mkfs.c:161`); `ImageSound` admits the missing block.

Seen in the source only, not checked: `balloc` panics on a full disk (`fs.c:74`) where
`fsfull` of `usertests.c` expects the write to fail (the run `data` fills the
disk and stops there); `sys_sleep(n)` with `n` near `2^32` may miss its end, which
`SleepReturns` excludes; `malloc` of nearly `2^32` bytes overflows
(`umalloc.c:69`); pids repeat after `2^31` forks (`proc.c:49`); `mkfs` does not
compare `freeblock` with `FSSIZE`.

## Not modelled

* Boot, the interrupt controllers and multiprocessor tables, context switch and
  trap entry code, port-level device protocols: register-level code that runs
  once or has no state of its own here.
* Console output, `printf` and `cprintf`, keyboard translation: formatting.
* The fetching of system call arguments (`syscall.c`), library functions and
  the other user programs: sequential code without state beyond one call. The
  models take calls with valid arguments.
* Devices as files, beyond `mknod` and `open`; the tests of `usertests.c` that
  time loops or count processes.
* `memide.c`, a disk in memory without a queue.
* `src/qemu` holds no program source.
