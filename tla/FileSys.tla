------------------------------- MODULE FileSys -------------------------------
(***************************************************************************)
(* The file system seen by system calls: the inode cache and the inodes on *)
(* disk (fs.c), directories and path names (fs.c), the file table (file.c) *)
(* and the calls of sysfile.c, made by several processes at once.          *)
(*                                                                         *)
(* A step is what a call does up to the point where another process can    *)
(* see it: it waits for one inode lock, works on the inodes it has locked, *)
(* and gives locks back.  Each iput() is a step of its own, and three when *)
(* it frees the inode, because it drops icache.lock while it works on the  *)
(* disk.  Blocks of files are the subject of FileData, the log of Log.     *)
(***************************************************************************)
EXTENDS Integers, Sequences, FiniteSets

CONSTANTS
  Procs,      \* the slots of the process table
  NINODES,    \* inodes on disk: 1 .. NINODES - 1
  NINODE,     \* slots of the inode cache
  NFILE,      \* slots of the file table
  NOFILE,     \* descriptors of a process
  DIRSIZ,     \* characters of a name in a directory
  ImageFiles, \* the names of the files mkfs puts in the root directory
  Programs    \* what the first process may run: sequences of sets of steps

ROOTINO == 1
Inums == 1 .. NINODES - 1
Fds == 0 .. NOFILE - 1
Dots == {".", ".."}

VARIABLES
  dinode,   \* the inodes on disk
  icache,   \* by inode number, for the inodes with a slot (ref > 0)
  ftable,
  proc,     \* the state of every process
  panicked, \* the argument of panic(), or "no"
  orphaned  \* has an entry been made in a directory that was removed?

vars == <<dinode, icache, ftable, proc, panicked, orphaned>>

NoEnts == [n \in {} |-> 0]
FreeInode == [type |-> "free", nlink |-> 0, ents |-> NoEnts, data |-> ""]
NoEntry == [ref |-> 0, busy |-> FALSE, valid |-> FALSE, type |-> "free", nlink |-> 0]
NoFile == [ref |-> 0, type |-> "none", ip |-> 0, off |-> 0, mode |-> ""]
NoCall == [op |-> "", path |-> "", arg |-> "", fd |-> 0]

(* A process: the step it is at, the inode it must lock before it, the       *)
(* inodes it still has to iput() before it, and the locals of the call.      *)
(* dp and ip, when not 0, are references that the call holds.                *)
NoProc ==
  [pc |-> "unused", lk |-> 0, puts |-> <<>>, freeing |-> "", inop |-> FALSE,
   call |-> NoCall, path |-> <<>>, parent |-> FALSE, then |-> "", else |-> "",
   name |-> "", dp |-> 0, ip |-> 0, new |-> 0, f |-> 0, rv |-> "",
   ofile |-> [d \in Fds |-> 0], cwd |-> 0, prog |-> <<>>]

(* The image written by mkfs, and the first process with "/" as its cwd. *)
Image ==
  LET number[S \in SUBSET ImageFiles] ==
        IF S = {} THEN NoEnts
        ELSE LET n == CHOOSE n \in S : TRUE IN
             [m \in S |-> IF m = n THEN Cardinality(S) + 1 ELSE number[S \ {n}][m]]
      files == number[ImageFiles]
  IN  [i \in Inums |->
         IF i = ROOTINO
         THEN [FreeInode EXCEPT !.type = "dir", !.nlink = 1,
                 !.ents = [n \in ImageFiles \cup Dots |->
                             IF n \in Dots THEN ROOTINO ELSE files[n]]]
         ELSE IF i <= Cardinality(ImageFiles) + 1
         THEN [FreeInode EXCEPT !.type = "file", !.nlink = 1] ELSE FreeInode]

Init ==
  /\ dinode = Image
  /\ icache = [[i \in Inums |-> NoEntry] EXCEPT ![ROOTINO].ref = 1]
  /\ ftable = [f \in 1 .. NFILE |-> NoFile]
  /\ \E prog \in Programs, p \in Procs :
       /\ p = CHOOSE q \in Procs : TRUE
       /\ proc = [[q \in Procs |-> NoProc] EXCEPT
                    ![p].pc = "idle", ![p].cwd = ROOTINO, ![p].prog = prog]
  /\ panicked = "no"
  /\ orphaned = FALSE

-----------------------------------------------------------------------------
(* Path names. *)

CharAt(s, i) == SubSeq(s, i, i)

(* Faulty variant: a long element is not cut. *)
ElemLen_whole(len) == len

ElemLen(len) == IF len >= DIRSIZ THEN DIRSIZ ELSE len

(* skipelem() applied until the path is used up: the names of its elements,  *)
(* cut to DIRSIZ characters.                                                 *)
RECURSIVE skipelem(_)
skipelem(path) ==
  IF path = "" THEN <<>>
  ELSE IF CharAt(path, 1) = "/" THEN skipelem(SubSeq(path, 2, Len(path)))
  ELSE LET stop == CHOOSE e \in 1 .. Len(path) :
                     /\ e = Len(path) \/ CharAt(path, e + 1) = "/"
                     /\ \A j \in 1 .. e : CharAt(path, j) # "/"
       IN  <<SubSeq(path, 1, ElemLen(stop))>> \o skipelem(SubSeq(path, stop + 1, Len(path)))

Absolute(path) == path # "" /\ CharAt(path, 1) = "/"

-----------------------------------------------------------------------------
(* The inode cache. *)

NoSlot(i) == icache[i].ref = 0 /\ Cardinality({j \in Inums : icache[j].ref > 0}) >= NINODE

iget(ic, i) ==
  [ic EXCEPT ![i] = IF @.ref > 0 THEN [@ EXCEPT !.ref = @ + 1]
                    ELSE [NoEntry EXCEPT !.ref = 1]]

idup(ic, i) == [ic EXCEPT ![i].ref = @ + 1]

(* The entry of i as ilock() leaves it, but for I_BUSY. *)
Loaded(i) ==
  IF icache[i].valid THEN icache
  ELSE [icache EXCEPT ![i] = [@ EXCEPT !.valid = TRUE, !.type = dinode[i].type,
                                       !.nlink = dinode[i].nlink]]

Busy(ic, i, b) == [ic EXCEPT ![i].busy = b]

(* A change of the link count of i, in the cache and, by iupdate(), on disk. *)
Relink(ic, i, d) == [ic EXCEPT ![i].nlink = @ + d]

iupdate(di, ic, i) == [di EXCEPT ![i].type = ic[i].type, ![i].nlink = ic[i].nlink]

NoType(i) == ~icache[i].valid /\ dinode[i].type = "free"

(* p is at the step and every inode it had to put is put; ilock() on the     *)
(* inode the step starts with, if any, succeeds.                             *)
At(p, step) ==
  /\ panicked = "no"
  /\ proc[p].pc = step
  /\ proc[p].puts = <<>>
  /\ proc[p].lk # 0 => ~icache[proc[p].lk].busy /\ ~NoType(proc[p].lk)

(* p is in ilock() and about to panic: the inode is free on disk. *)
ilock_panic(p) ==
  proc[p].puts = <<>> /\ proc[p].lk # 0 /\ ~icache[proc[p].lk].busy /\ NoType(proc[p].lk)

Panic(msg) ==
  /\ panicked' = msg
  /\ UNCHANGED <<dinode, icache, ftable, proc, orphaned>>

Goto(p, k) == proc' = [proc EXCEPT ![p] = k]

(* The reference that iput() drops is the last, and no name is left. *)
LastUse(e) == e.ref = 1 /\ e.valid /\ e.nlink = 0

(* iput() of the first inode p has to put. *)
iput(p) ==
  LET k == proc[p]
      i == Head(k.puts)
      e == icache[i]
  IN
  /\ panicked = "no"
  /\ k.puts # <<>>
  /\ \/ /\ k.freeing = "" /\ LastUse(e)
        /\ IF e.busy THEN Panic("iput busy")
           ELSE /\ icache' = Busy(icache, i, TRUE)
                /\ Goto(p, [k EXCEPT !.freeing = "itrunc"])
                /\ UNCHANGED <<dinode, panicked>>
     \/ /\ k.freeing = "" /\ ~LastUse(e)
        /\ icache' = [icache EXCEPT ![i] = IF e.ref = 1 THEN NoEntry ELSE [e EXCEPT !.ref = @ - 1]]
        /\ Goto(p, [k EXCEPT !.puts = Tail(@)])
        /\ UNCHANGED <<dinode, panicked>>
     \/ /\ k.freeing = "itrunc"
        /\ dinode' = [dinode EXCEPT ![i] = FreeInode]
        /\ icache' = [icache EXCEPT ![i].type = "free"]
        /\ Goto(p, [k EXCEPT !.freeing = "done"])
        /\ UNCHANGED panicked
     \/ /\ k.freeing = "done"
        /\ icache' = [icache EXCEPT ![i] = IF e.ref = 1 THEN NoEntry
                                           ELSE [NoEntry EXCEPT !.ref = e.ref - 1]]
        /\ Goto(p, [k EXCEPT !.freeing = "", !.puts = Tail(@)])
        /\ UNCHANGED <<dinode, panicked>>
  /\ UNCHANGED <<ftable, orphaned>>

-----------------------------------------------------------------------------
(* Steps on behalf of a call. *)

(* The call returns, after its iput()s and its end_op(). *)
Return(k, v, drop) ==
  [k EXCEPT !.pc = "end", !.rv = v, !.lk = 0, !.puts = drop, !.dp = 0, !.name = "",
            !.path = <<>>, !.then = "", !.else = "", !.parent = FALSE, !.new = 0]
Fail(k, drop) == [Return(k, "fail", drop) EXCEPT !.ip = 0]

(* namex() starts at the root or at the current directory. *)
Walk(k, path, parent, then, else) ==
  LET from == IF Absolute(path) THEN ROOTINO ELSE k.cwd
      elems == skipelem(path)
  IN  [k EXCEPT !.pc = "namex", !.path = elems, !.parent = parent, !.then = then,
                !.else = else, !.dp = from, !.lk = IF elems = <<>> THEN 0 ELSE from]
WalkFrom(k, ic, path) == IF Absolute(path) THEN iget(ic, ROOTINO) ELSE idup(ic, k.cwd)

(* iget() finds no room for the root directory. *)
NoRoot(path) == Absolute(path) /\ NoSlot(ROOTINO)

(* Faulty variant: the directory is unlocked and not put. *)
NotFound_kept(k, drop) ==
  IF k.else = "end" THEN Fail(k, <<>>)
  ELSE [k EXCEPT !.pc = k.else, !.lk = k.ip, !.dp = 0, !.puts = <<>>]

(* namex() gives up: the call fails or, for the second path of sys_link(),   *)
(* undoes what it did.                                                       *)
NotFound(k, drop) ==
  IF k.else = "end" THEN Fail(k, drop)
  ELSE [k EXCEPT !.pc = k.else, !.lk = k.ip, !.dp = 0, !.puts = drop]

(* One element of the path, or the end of it. *)
namex(p) ==
  LET k == proc[p]
      d == k.dp
      ents == dinode[d].ents
  IN
  /\ At(p, "namex")
  /\ \/ /\ k.path = <<>>
        /\ Goto(p, IF k.parent THEN NotFound(k, <<d>>)
                   ELSE [k EXCEPT !.pc = k.then, !.ip = d, !.dp = 0, !.lk = d])
        /\ UNCHANGED <<icache, panicked>>
     \/ /\ k.path # <<>>
        /\ LET ic == Loaded(d)
               name == Head(k.path)
           IN  \/ /\ ic[d].type # "dir"
                  /\ icache' = ic
                  /\ Goto(p, NotFound(k, <<d>>))
                  /\ UNCHANGED panicked
               \/ /\ ic[d].type = "dir" /\ k.parent /\ Len(k.path) = 1
                  /\ icache' = ic
                  /\ Goto(p, [k EXCEPT !.pc = k.then, !.name = name, !.path = <<>>])
                  /\ UNCHANGED panicked
               \/ /\ ic[d].type = "dir" /\ ~(k.parent /\ Len(k.path) = 1)
                  /\ name \notin DOMAIN ents
                  /\ icache' = ic
                  /\ Goto(p, NotFound(k, <<d>>))
                  /\ UNCHANGED panicked
               \/ /\ ic[d].type = "dir" /\ ~(k.parent /\ Len(k.path) = 1)
                  /\ name \in DOMAIN ents
                  /\ IF NoSlot(ents[name])
                     THEN panicked' = "iget: no inodes" /\ UNCHANGED <<icache, proc>>
                     ELSE /\ icache' = iget(ic, ents[name])
                          /\ Goto(p, [k EXCEPT !.puts = <<d>>, !.dp = ents[name],
                                               !.path = Tail(@),
                                               !.lk = IF Len(k.path) = 1 THEN 0 ELSE ents[name]])
                          /\ UNCHANGED panicked
  /\ UNCHANGED <<dinode, ftable, orphaned>>

(* The directory d gets the entry (name, i), as dirlink() writes it. *)
dirlink(di, d, name, i) ==
  [di EXCEPT ![d].ents = [n \in DOMAIN @ \cup {name} |-> IF n = name THEN i ELSE @[n]]]
Removed(di, d, name) == [di EXCEPT ![d].ents = [n \in DOMAIN @ \ {name} |-> @[n]]]

(* The directory loses its last name while somebody still uses it. *)
IntoOrphan(d) == orphaned' = (orphaned \/ dinode[d].nlink = 0)

(* Faulty variant: a directory may be linked. *)
MayLink_any(type) == TRUE

MayLink(type) == type # "dir"

(* sys_link(): the file found, then the directory for the new name, then the *)
(* undoing when that fails.                                                  *)
sys_link(p) ==
  LET k == proc[p]
      ic == Loaded(k.ip)
      up == Relink(ic, k.ip, 1)
      w == Walk(k, k.call.arg, TRUE, "link_dir", "link_bad")
  IN
  /\ At(p, "link")
  /\ IF ~MayLink(ic[k.ip].type)
     THEN icache' = ic /\ Goto(p, Fail(k, <<k.ip>>)) /\ UNCHANGED <<dinode, panicked>>
     ELSE IF NoRoot(k.call.arg)
     THEN panicked' = "iget: no inodes" /\ UNCHANGED <<dinode, icache, proc>>
     ELSE /\ icache' = WalkFrom(k, up, k.call.arg)
          /\ dinode' = iupdate(dinode, up, k.ip)
          /\ Goto(p, w)
          /\ UNCHANGED panicked
  /\ UNCHANGED <<ftable, orphaned>>

sys_link_dir(p) ==
  LET k == proc[p]
      ic == Loaded(k.dp)
      ents == dinode[k.dp].ents
  IN
  /\ At(p, "link_dir")
  /\ IF k.name \in DOMAIN ents /\ NoSlot(ents[k.name])
     THEN panicked' = "iget: no inodes" /\ UNCHANGED <<dinode, icache, proc, orphaned>>
     ELSE IF k.name \in DOMAIN ents
     THEN /\ icache' = Busy(iget(ic, ents[k.name]), k.dp, TRUE)
          /\ Goto(p, [k EXCEPT !.pc = "link_unlock", !.lk = 0, !.puts = <<ents[k.name]>>])
          /\ UNCHANGED <<dinode, panicked, orphaned>>
     ELSE /\ icache' = ic
          /\ dinode' = dirlink(dinode, k.dp, k.name, k.ip)
          /\ IntoOrphan(k.dp)
          /\ Goto(p, [Return(k, "ok", <<k.dp, k.ip>>) EXCEPT !.ip = 0])
          /\ UNCHANGED panicked
  /\ UNCHANGED ftable

sys_link_unlock(p) ==
  LET k == proc[p] IN
  /\ At(p, "link_unlock")
  /\ icache' = Busy(icache, k.dp, FALSE)
  /\ Goto(p, [k EXCEPT !.pc = "link_bad", !.puts = <<k.dp>>, !.dp = 0, !.lk = k.ip])
  /\ UNCHANGED <<dinode, ftable, panicked, orphaned>>

sys_link_bad(p) ==
  LET k == proc[p]
      down == Relink(Loaded(k.ip), k.ip, -1)
  IN
  /\ At(p, "link_bad")
  /\ icache' = down
  /\ dinode' = iupdate(dinode, down, k.ip)
  /\ Goto(p, Fail(k, <<k.ip>>))
  /\ UNCHANGED <<ftable, panicked, orphaned>>

(* isdirempty(): no entry but "." and "..". *)
isdirempty(i) == DOMAIN dinode[i].ents \subseteq Dots

(* Faulty variant: only ".." is refused. *)
IsDot_dotdot(name) == name = ".."

IsDot(name) == name \in Dots

(* sys_unlink(): the directory, then the inode with both locked, then the    *)
(* link count of the inode once the directory is put.                        *)
sys_unlink(p) ==
  LET k == proc[p]
      ic == Loaded(k.dp)
      ents == dinode[k.dp].ents
  IN
  /\ At(p, "unlink")
  /\ IF IsDot(k.name) \/ k.name \notin DOMAIN ents
     THEN icache' = ic /\ Goto(p, Fail(k, <<k.dp>>)) /\ UNCHANGED panicked
     ELSE IF NoSlot(ents[k.name])
     THEN panicked' = "iget: no inodes" /\ UNCHANGED <<icache, proc>>
     ELSE /\ icache' = Busy(iget(ic, ents[k.name]), k.dp, TRUE)
          /\ Goto(p, [k EXCEPT !.pc = "unlink_ip", !.ip = ents[k.name], !.lk = ents[k.name]])
          /\ UNCHANGED panicked
  /\ UNCHANGED <<dinode, ftable, orphaned>>

sys_unlink_ip(p) ==
  LET k == proc[p]
      ic == Loaded(k.ip)
      isdir == ic[k.ip].type = "dir"
      left == Busy(Relink(ic, k.dp, IF isdir THEN -1 ELSE 0), k.dp, FALSE)
  IN
  /\ At(p, "unlink_ip")
  /\ \/ ic[k.ip].nlink < 1 /\ panicked' = "unlink: nlink < 1" /\ UNCHANGED <<dinode, icache, proc>>
     \/ /\ ic[k.ip].nlink >= 1 /\ isdir /\ ~isdirempty(k.ip)
        /\ icache' = ic
        /\ Goto(p, [k EXCEPT !.pc = "unlink_bad", !.puts = <<k.ip>>, !.ip = 0, !.lk = 0])
        /\ UNCHANGED <<dinode, panicked>>
     \/ /\ ic[k.ip].nlink >= 1 /\ ~(isdir /\ ~isdirempty(k.ip))
        /\ icache' = Busy(left, k.ip, TRUE)
        /\ dinode' = iupdate(Removed(dinode, k.dp, k.name), left, k.dp)
        /\ Goto(p, [k EXCEPT !.pc = "unlink_dec", !.puts = <<k.dp>>, !.dp = 0, !.lk = 0])
        /\ UNCHANGED panicked
  /\ UNCHANGED <<ftable, orphaned>>

sys_unlink_dec(p) ==
  LET k == proc[p]
      down == Busy(Relink(icache, k.ip, -1), k.ip, FALSE)
  IN
  /\ At(p, "unlink_dec")
  /\ icache' = down
  /\ dinode' = iupdate(dinode, down, k.ip)
  /\ Goto(p, [Return(k, "ok", <<k.ip>>) EXCEPT !.ip = 0])
  /\ UNCHANGED <<ftable, panicked, orphaned>>

sys_unlink_bad(p) ==
  LET k == proc[p] IN
  /\ At(p, "unlink_bad")
  /\ icache' = Busy(icache, k.dp, FALSE)
  /\ Goto(p, Fail(k, <<k.dp>>))
  /\ UNCHANGED <<dinode, ftable, panicked, orphaned>>

-----------------------------------------------------------------------------
(* create(), for sys_open(), sys_mkdir() and sys_mknod(): with the directory *)
(* locked, find the name or allocate an inode.  ialloc() marks the inode on  *)
(* disk and gets its cache entry afterwards.                                 *)
TypeMade(op) == IF op = "mkdir" THEN "dir" ELSE IF op = "mknod" THEN "dev" ELSE "file"

create(p) ==
  LET k == proc[p]
      ic == Loaded(k.dp)
      ents == dinode[k.dp].ents
      free == {i \in Inums : dinode[i].type = "free"}
  IN
  /\ At(p, "create")
  /\ \/ /\ k.name \in DOMAIN ents /\ ~NoSlot(ents[k.name])
        /\ icache' = iget(ic, ents[k.name])
        /\ Goto(p, [k EXCEPT !.pc = "create_old", !.puts = <<k.dp>>, !.dp = 0,
                             !.ip = ents[k.name], !.lk = ents[k.name]])
        /\ UNCHANGED <<dinode, panicked>>
     \/ /\ k.name \in DOMAIN ents /\ NoSlot(ents[k.name])
        /\ panicked' = "iget: no inodes"
        /\ UNCHANGED <<dinode, icache, proc>>
     \/ /\ k.name \notin DOMAIN ents /\ free # {}
        /\ LET i == CHOOSE i \in free : \A j \in free : i <= j
           IN  /\ dinode' = [dinode EXCEPT ![i] = [FreeInode EXCEPT !.type = TypeMade(k.call.op)]]
               /\ Goto(p, [k EXCEPT !.pc = "ialloc_iget", !.new = i, !.lk = 0])
        /\ icache' = Busy(ic, k.dp, TRUE)
        /\ UNCHANGED panicked
     \/ /\ k.name \notin DOMAIN ents /\ free = {}
        /\ panicked' = "ialloc: no inodes"
        /\ UNCHANGED <<dinode, icache, proc>>
  /\ UNCHANGED <<ftable, orphaned>>

ialloc_iget(p) ==
  LET k == proc[p] IN
  /\ At(p, "ialloc_iget")
  /\ IF NoSlot(k.new)
     THEN panicked' = "iget: no inodes" /\ UNCHANGED <<icache, proc>>
     ELSE /\ icache' = iget(icache, k.new)
          /\ Goto(p, [k EXCEPT !.pc = "create_new", !.ip = k.new, !.lk = k.new, !.new = 0])
          /\ UNCHANGED panicked
  /\ UNCHANGED <<dinode, ftable, orphaned>>

(* The rest of create(), both inodes locked; ip stays locked. *)
create_new(p) ==
  LET k == proc[p]
      isdir == k.call.op = "mkdir"
      one == [Loaded(k.ip) EXCEPT ![k.ip].nlink = 1, ![k.ip].busy = TRUE, ![k.dp].busy = FALSE]
      ic == IF isdir THEN Relink(one, k.dp, 1) ELSE one
      dots == IF isdir THEN dirlink(dirlink(dinode, k.ip, ".", k.ip), k.ip, "..", k.dp) ELSE dinode
  IN
  /\ At(p, "create_new")
  /\ icache' = ic
  /\ dinode' = iupdate(iupdate(dirlink(dots, k.dp, k.name, k.ip), ic, k.ip), ic, k.dp)
  /\ IntoOrphan(k.dp)
  /\ Goto(p, [k EXCEPT !.pc = IF k.call.op = "open" THEN "open_fd" ELSE "made",
                       !.puts = <<k.dp>>, !.dp = 0, !.lk = 0])
  /\ UNCHANGED <<ftable, panicked>>

create_old(p) ==
  LET k == proc[p]
      ic == Loaded(k.ip)
  IN
  /\ At(p, "create_old")
  /\ IF k.call.op = "open" /\ ic[k.ip].type = "file"
     THEN /\ icache' = Busy(ic, k.ip, TRUE)
          /\ Goto(p, [k EXCEPT !.pc = "open_fd", !.lk = 0])
     ELSE icache' = ic /\ Goto(p, Fail(k, <<k.ip>>))
  /\ UNCHANGED <<dinode, ftable, panicked, orphaned>>

(* sys_mkdir() and sys_mknod() after create(). *)
made(p) ==
  LET k == proc[p] IN
  /\ At(p, "made")
  /\ icache' = Busy(icache, k.ip, FALSE)
  /\ Goto(p, [Return(k, "ok", <<k.ip>>) EXCEPT !.ip = 0])
  /\ UNCHANGED <<dinode, ftable, panicked, orphaned>>

-----------------------------------------------------------------------------
(* Open files. *)

FreeFds(k) == {d \in Fds : k.ofile[d] = 0}
fdalloc(k) == CHOOSE d \in FreeFds(k) : \A e \in FreeFds(k) : d <= e
FreeFiles == {f \in 1 .. NFILE : ftable[f].ref = 0}
filealloc == CHOOSE f \in FreeFiles : \A g \in FreeFiles : f <= g

(* sys_open() without O_CREATE, once namei() has found the inode. *)
sys_open(p) ==
  LET k == proc[p]
      ic == Loaded(k.ip)
  IN
  /\ At(p, "open")
  /\ IF ic[k.ip].type = "dir" /\ k.call.arg # "O_RDONLY"
     THEN icache' = ic /\ Goto(p, Fail(k, <<k.ip>>))
     ELSE icache' = Busy(ic, k.ip, TRUE) /\ Goto(p, [k EXCEPT !.pc = "open_fd", !.lk = 0])
  /\ UNCHANGED <<dinode, ftable, panicked, orphaned>>

(* filealloc() and fdalloc().  When there is a file but no descriptor,       *)
(* fileclose() puts whatever inode the file still names.                     *)
open_fd(p) ==
  LET k == proc[p]
      stale == IF FreeFiles # {} /\ ftable[filealloc].type = "inode"
               THEN <<ftable[filealloc].ip>> ELSE <<>>
  IN
  /\ At(p, "open_fd")
  /\ icache' = Busy(icache, k.ip, FALSE)
  /\ IF FreeFiles # {} /\ FreeFds(k) # {}
     THEN /\ ftable' = [ftable EXCEPT ![filealloc].ref = 1]
          /\ Goto(p, [Return(k, "ok", <<>>) EXCEPT !.f = filealloc, !.ofile[fdalloc(k)] = filealloc])
     ELSE /\ Goto(p, Fail(k, stale \o <<k.ip>>))
          /\ UNCHANGED ftable
  /\ UNCHANGED <<dinode, panicked, orphaned>>

(* sys_chdir(): the old directory is put before end_op(). *)
sys_chdir(p) ==
  LET k == proc[p]
      ic == Loaded(k.ip)
  IN
  /\ At(p, "chdir")
  /\ icache' = ic
  /\ Goto(p, IF ic[k.ip].type # "dir" THEN Fail(k, <<k.ip>>)
             ELSE [Return(k, "ok", <<k.cwd>>) EXCEPT !.cwd = 0])
  /\ UNCHANGED <<dinode, ftable, panicked, orphaned>>

(* end_op() and what sys_open() and sys_chdir() do after it. *)
end_op(p) ==
  LET k == proc[p]
      opened == k.f # 0
      done == [k EXCEPT !.inop = FALSE, !.ip = 0, !.f = 0, !.lk = 0]
  IN
  /\ At(p, "end")
  /\ ftable' = IF opened
               THEN [ftable EXCEPT ![k.f] = [ref |-> 1, type |-> "inode", ip |-> k.ip,
                                             off |-> 0, mode |-> k.call.arg]]
               ELSE ftable
  /\ Goto(p, IF k.call.op = "exit" THEN [done EXCEPT !.pc = "exit"]
             ELSE [done EXCEPT !.pc = "idle", !.call = NoCall, !.rv = "", !.prog = Tail(@),
                               !.cwd = IF k.call.op = "chdir" /\ k.rv = "ok" THEN k.ip ELSE @])
  /\ UNCHANGED <<dinode, icache, panicked, orphaned>>

(* fileclose(): the last reference to an inode's file puts the inode in a    *)
(* transaction of its own.  pipeclose() is in Pipe.                          *)
fileclose(ft, f) ==
  [ft EXCEPT ![f] = IF @.ref > 1 THEN [@ EXCEPT !.ref = @ - 1]
                    ELSE [@ EXCEPT !.ref = 0, !.type = "none"]]
ClosePuts(f) ==
  IF ftable[f].ref = 1 /\ ftable[f].type = "inode" THEN <<ftable[f].ip>> ELSE <<>>

(* Faulty variant: the inode is put outside a transaction. *)
InOp_never(puts) == FALSE

InOp(puts) == puts # <<>>

Result(k, v) == [k EXCEPT !.pc = "end", !.rv = v]

sys_close(p, k) ==
  LET f == k.ofile[k.call.fd] IN
  IF f = 0 THEN Goto(p, Result(k, "fail")) /\ UNCHANGED ftable
  ELSE /\ ftable' = fileclose(ftable, f)
       /\ Goto(p, [Result(k, "ok") EXCEPT !.ofile[k.call.fd] = 0, !.puts = ClosePuts(f),
                                          !.inop = InOp(ClosePuts(f))])

sys_dup(p, k) ==
  LET f == k.ofile[k.call.fd] IN
  IF f = 0 \/ FreeFds(k) = {} THEN Goto(p, Result(k, "fail")) /\ UNCHANGED ftable
  ELSE /\ ftable' = [ftable EXCEPT ![f].ref = @ + 1]
       /\ Goto(p, [Result(k, "ok") EXCEPT !.ofile[fdalloc(k)] = f])

Readable(f) == ftable[f].mode # "O_WRONLY"
Writable(f) == ftable[f].mode \in {"O_WRONLY", "O_RDWR", "O_CREATE|O_RDWR"}

(* sys_read(), sys_write() and sys_fstat() on the file of an inode, which is *)
(* locked meanwhile: what readi() and writei() do with a file's bytes.  The  *)
(* bytes of a directory are its entries, and the devices have no driver.     *)
DataCall(p, op) ==
  LET k == proc[p]
      f == k.ofile[k.call.fd]
      i == ftable[f].ip
      off == ftable[f].off
      data == dinode[i].data
      src == k.call.arg
      IsFile == f # 0 /\ ftable[f].type = "inode"
  IN
  /\ At(p, op)
  /\ IsFile => ~icache[i].busy
  /\ IF ~IsFile \/ (op = "read" /\ ~Readable(f)) \/ (op = "write" /\ ~Writable(f))
     THEN Goto(p, Result(k, "fail")) /\ UNCHANGED <<dinode, icache, ftable>>
     ELSE /\ icache' = Loaded(i)
          /\ IF op = "write" /\ Loaded(i)[i].type = "file"
             THEN /\ dinode' = [dinode EXCEPT ![i].data =
                        SubSeq(@, 1, off) \o src \o SubSeq(@, off + Len(src) + 1, Len(@))]
                  /\ ftable' = [ftable EXCEPT ![f].off = @ + Len(src)]
                  /\ Goto(p, Result(k, "ok"))
             ELSE IF op = "read" /\ Loaded(i)[i].type = "file"
             THEN /\ ftable' = [ftable EXCEPT ![f].off = Len(data)]
                  /\ Goto(p, Result(k, SubSeq(data, off + 1, Len(data))))
                  /\ UNCHANGED dinode
             ELSE /\ Goto(p, Result(k, IF Loaded(i)[i].type = "dev" /\ op # "fstat"
                                       THEN "fail" ELSE "ok"))
                  /\ UNCHANGED <<dinode, ftable>>
  /\ UNCHANGED <<panicked, orphaned>>

(* pipealloc() takes two files, not at once, and a page that may be missing; *)
(* sys_pipe() then takes two descriptors.                                    *)
sys_pipe(p) ==
  LET k == proc[p] IN
  /\ At(p, "pipe")
  /\ IF FreeFiles = {} THEN Goto(p, Result(k, "fail")) /\ UNCHANGED ftable
     ELSE /\ ftable' = [ftable EXCEPT ![filealloc].ref = 1]
          /\ Goto(p, [k EXCEPT !.pc = "pipealloc", !.f = filealloc])
  /\ UNCHANGED <<dinode, icache, panicked, orphaned>>

PipeFile(mode) == [NoFile EXCEPT !.ref = 1, !.type = "pipe", !.mode = mode]

pipealloc(p) ==
  LET k == proc[p]
      one == [k EXCEPT !.ofile[fdalloc(k)] = k.f]
  IN
  /\ At(p, "pipealloc")
  /\ \/ /\ FreeFiles # {} /\ Cardinality(FreeFds(k)) >= 2
        /\ ftable' = [ftable EXCEPT ![k.f] = PipeFile("O_RDONLY"), ![filealloc] = PipeFile("O_WRONLY")]
        /\ Goto(p, [Result(one, "ok") EXCEPT !.f = 0, !.ofile[fdalloc(one)] = filealloc])
     \/ /\ ftable' = fileclose(ftable, k.f)
        /\ Goto(p, [Result(k, "fail") EXCEPT !.f = 0])
  /\ UNCHANGED <<dinode, icache, panicked, orphaned>>

(* fork() duplicates the files and the current directory; exit() closes them *)
(* one by one and leaves a zombie, whose slot wait() frees.  Only the first  *)
(* process forks, so all others are its children; the sleep is in Proc.      *)
fork(p, k) ==
  LET unused == {q \in Procs : proc[q].pc = "unused"}
      q == CHOOSE q \in unused : TRUE
  IN
  \/ unused = {} /\ Goto(p, Result(k, "fail")) /\ UNCHANGED <<icache, ftable>>
  \/ /\ unused # {}
     /\ ftable' = [f \in 1 .. NFILE |->
           [ftable[f] EXCEPT !.ref = @ + Cardinality({d \in Fds : k.ofile[d] = f})]]
     /\ icache' = idup(icache, k.cwd)
     /\ proc' = [proc EXCEPT ![p] = Result(k, "ok"),
                   ![q] = [NoProc EXCEPT !.pc = "idle", !.ofile = k.ofile, !.cwd = k.cwd,
                                         !.prog = k.call.arg]]

exit(p) ==
  LET k == proc[p]
      open == {d \in Fds : k.ofile[d] # 0}
      d == CHOOSE d \in open : \A e \in open : d <= e
      f == k.ofile[d]
  IN
  /\ At(p, "exit")
  /\ \/ /\ open # {}
        /\ ftable' = fileclose(ftable, f)
        /\ Goto(p, [k EXCEPT !.ofile[d] = 0, !.pc = IF ClosePuts(f) = <<>> THEN "exit" ELSE "end",
                             !.puts = ClosePuts(f), !.inop = InOp(ClosePuts(f))])
     \/ /\ open = {} /\ k.cwd # 0
        /\ Goto(p, [k EXCEPT !.puts = <<k.cwd>>, !.cwd = 0, !.inop = TRUE])
        /\ UNCHANGED ftable
     \/ /\ open = {} /\ k.cwd = 0
        /\ Goto(p, [NoProc EXCEPT !.pc = "zombie"])
        /\ UNCHANGED ftable
  /\ UNCHANGED <<dinode, icache, panicked, orphaned>>

wait(p, k) ==
  LET children == {q \in Procs \ {p} : proc[q].pc # "unused"}
      zombies == {q \in children : proc[q].pc = "zombie"}
  IN
  \/ children = {} /\ Goto(p, Result(k, "fail"))
  \/ /\ zombies # {}
     /\ proc' = [proc EXCEPT ![p] = Result(k, "ok"), ![CHOOSE q \in zombies : TRUE] = NoProc]

-----------------------------------------------------------------------------
(* The system call p makes next, up to its first wait for an inode. *)
PathCall(p, k) ==
  LET op == k.call.op
      creates == op \in {"mkdir", "mknod"} \/ k.call.arg \in {"O_CREATE", "O_CREATE|O_RDWR"}
      in == [k EXCEPT !.inop = TRUE]
  IN
  /\ IF NoRoot(k.call.path) THEN panicked' = "iget: no inodes" /\ UNCHANGED <<icache, proc>>
     ELSE /\ icache' = WalkFrom(k, icache, k.call.path)
          /\ Goto(p, IF op = "unlink" THEN Walk(in, k.call.path, TRUE, "unlink", "end")
                     ELSE IF op \in {"mkdir", "mknod", "open"} /\ creates
                     THEN Walk(in, k.call.path, TRUE, "create", "end")
                     ELSE Walk(in, k.call.path, FALSE, op, "end"))
          /\ UNCHANGED panicked
  /\ UNCHANGED ftable

syscall(p) ==
  /\ At(p, "idle") /\ proc[p].prog # <<>>
  /\ \E step \in Head(proc[p].prog) :
       LET op == step.call.op
           k == [proc[p] EXCEPT !.call = step.call, !.prog = <<{step}>> \o Tail(@)]
       IN  \/ op \in {"link", "unlink", "open", "mkdir", "mknod", "chdir"} /\ PathCall(p, k)
           \/ op = "close" /\ sys_close(p, k) /\ UNCHANGED <<icache, panicked>>
           \/ op = "dup" /\ sys_dup(p, k) /\ UNCHANGED <<icache, panicked>>
           \/ op = "fork" /\ fork(p, k) /\ UNCHANGED panicked
           \/ op = "wait" /\ wait(p, k) /\ UNCHANGED <<icache, ftable, panicked>>
           \/ /\ op \in {"read", "write", "fstat", "pipe", "exit"}
              /\ Goto(p, [k EXCEPT !.pc = op])
              /\ UNCHANGED <<icache, ftable, panicked>>
  /\ UNCHANGED <<dinode, orphaned>>

Step(p) ==
  \/ syscall(p) \/ iput(p) \/ namex(p) \/ end_op(p)
  \/ sys_link(p) \/ sys_link_dir(p) \/ sys_link_unlock(p) \/ sys_link_bad(p)
  \/ sys_unlink(p) \/ sys_unlink_ip(p) \/ sys_unlink_dec(p) \/ sys_unlink_bad(p)
  \/ create(p) \/ ialloc_iget(p) \/ create_new(p) \/ create_old(p) \/ made(p)
  \/ sys_open(p) \/ open_fd(p) \/ sys_chdir(p) \/ exit(p)
  \/ sys_pipe(p) \/ pipealloc(p)
  \/ \E op \in {"read", "write", "fstat"} : DataCall(p, op)

Next == \E p \in Procs : Step(p)

(* A process in a call goes on; one that waits for an inode gets it when it  *)
(* is free.                                                                  *)
Spec == Init /\ [][Next]_vars /\ \A p \in Procs : WF_vars(Step(p))

-----------------------------------------------------------------------------
References(i) ==
  Cardinality({p \in Procs : proc[p].cwd = i})
  + Cardinality({p \in Procs : proc[p].dp = i}) + Cardinality({p \in Procs : proc[p].ip = i})
  + Cardinality({x \in Procs \X (1 .. 2) :
                   x[2] <= Len(proc[x[1]].puts) /\ proc[x[1]].puts[x[2]] = i})
  + Cardinality({f \in 1 .. NFILE : ftable[f].type = "inode" /\ ftable[f].ip = i})

(* ip->ref is the number of pointers to the inode: current directories, open *)
(* files and the calls in progress, whatever way each call ends.             *)
RefsCounted == panicked = "no" => \A i \in Inums : icache[i].ref = References(i)

(* f->ref is the number of descriptors that name the file, and a file        *)
(* without references names no inode or pipe.                                *)
FilesCounted ==
  \A f \in 1 .. NFILE :
    /\ ftable[f].ref = Cardinality({x \in Procs \X Fds : proc[x[1]].ofile[x[2]] = f})
                       + Cardinality({p \in Procs : proc[p].pc = "pipealloc" /\ proc[p].f = f})
    /\ ftable[f].ref = 0 => ftable[f].type = "none"

(* No call, however it ends and whoever runs beside it, loses a reference    *)
(* or drops one twice.                                                       *)
CountsExact == RefsCounted /\ FilesCounted

(* Every iput() is called inside a transaction (the comment of iput()). *)
IputInTransaction == \A p \in Procs : proc[p].puts # <<>> => proc[p].inop

Allocated == {i \in Inums : dinode[i].type # "free"}
Dirs == {i \in Inums : dinode[i].type = "dir"}
NamesOf(i) == {<<d, n>> \in Dirs \X UNION {DOMAIN dinode[d].ents : d \in Dirs} :
                 n \in DOMAIN dinode[d].ents \ Dots /\ dinode[d].ents[n] = i}
Subdirs(i) == {d \in Dirs \ {ROOTINO} : dinode[d].nlink > 0 /\ dinode[d].ents[".."] = i}
Quiet == \A p \in Procs : proc[p].pc \in {"idle", "unused", "zombie"}

(* Between calls the link count on disk is the number of names of the inode  *)
(* and of the ".." entries for it; an inode without names is free unless     *)
(* somebody still uses it.  Entries made in a removed directory are the      *)
(* exception.                                                                *)
LinksCounted ==
  Quiet /\ panicked = "no" /\ ~orphaned =>
  \A i \in Allocated :
    /\ dinode[i].nlink = Cardinality(NamesOf(i)) + Cardinality(Subdirs(i))
                         + IF i = ROOTINO THEN 1 ELSE 0
    /\ dinode[i].nlink = 0 => icache[i].ref > 0

(* A name always leads to an allocated inode, while calls are in progress    *)
(* too.  The ".." of a removed directory is the exception, and the names in  *)
(* what was made in one.                                                     *)
NoDanglingName ==
  \A d \in Dirs : \A n \in DOMAIN dinode[d].ents :
    dinode[d].ents[n] \in Allocated \/ (n = ".." /\ (dinode[d].nlink = 0 \/ orphaned))

(* Between calls the directories form a tree: one with links has one name,   *)
(* in the directory that its ".." names.                                     *)
DirectoryTree ==
  Quiet /\ panicked = "no" /\ ~orphaned =>
  \A d \in Dirs \ {ROOTINO} : dinode[d].nlink > 0 =>
    /\ Cardinality(NamesOf(d)) = 1
    /\ \A e \in NamesOf(d) : e[1] = dinode[d].ents[".."]

(* link(), unlink(), mkdir() and create() keep names, links and inodes       *)
(* consistent in every interleaving.                                         *)
TreeSound == LinksCounted /\ NoDanglingName /\ DirectoryTree

(* None of the assertions of fs.c and sysfile.c fails. *)
NoFsPanic == panicked = "no" /\ \A p \in Procs : ~ilock_panic(p)

(* Every call of a program returns what the program, a test of usertests.c   *)
(* for most, expects of it, and on the way no assertion of the kernel fails. *)
TestsPass ==
  /\ NoFsPanic
  /\ \A p \in Procs :
       proc[p].pc = "end" /\ proc[p].puts = <<>> /\ proc[p].call.op # "exit" =>
         \A step \in Head(proc[p].prog) : step.expect \in {"any", proc[p].rv}

(* Every call returns, so no two processes wait for each other's inodes: a   *)
(* program makes finitely many calls, and in the end no process is in one.   *)
CallsReturn == <>[]Quiet
==============================================================================
