------------------------------ MODULE UserTests ------------------------------
(***************************************************************************)
(* The file system tests of usertests.c as programs for FileSys: the calls *)
(* a test makes, in its order, and what it requires each to return.  Where *)
(* a test forks, the child runs beside the parent in every interleaving.   *)
(* Loops are cut to a few rounds, and README stands for the image's files. *)
(***************************************************************************)
EXTENDS FileSys

PathOp(op, path, arg) == [NoCall EXCEPT !.op = op, !.path = path, !.arg = arg]
Open(path, mode) == PathOp("open", path, mode)
Unlink(path) == PathOp("unlink", path, "")
Link(old, new) == PathOp("link", old, new)
Mkdir(path) == PathOp("mkdir", path, "")
Mknod(path) == PathOp("mknod", path, "")
Chdir(path) == PathOp("chdir", path, "")
FdOp(op, fd, arg) == [NoCall EXCEPT !.op = op, !.fd = fd, !.arg = arg]
Close(fd) == FdOp("close", fd, "")
Dup(fd) == FdOp("dup", fd, "")
Read(fd) == FdOp("read", fd, "")
Write(fd, data) == FdOp("write", fd, data)
Fstat(fd) == FdOp("fstat", fd, "")
Pipe == [NoCall EXCEPT !.op = "pipe"]
Fork(child) == [NoCall EXCEPT !.op = "fork", !.arg = child]
Exit == [NoCall EXCEPT !.op = "exit"]
Wait == [NoCall EXCEPT !.op = "wait"]

Expect(call, v) == {[call |-> call, expect |-> v]}
Does(call) == Expect(call, "ok")
Fails(call) == Expect(call, "fail")
Try(call) == Expect(call, "any")
AnyOf(calls) == UNION {Try(c) : c \in calls}

RD == "O_RDONLY"
RW == "O_RDWR"
CR == "O_CREATE"
CRW == "O_CREATE|O_RDWR"

-----------------------------------------------------------------------------
iputtest ==
  <<Does(Mkdir("iputdir")), Does(Chdir("iputdir")), Does(Unlink("../iputdir")), Does(Chdir("/"))>>

exitiputtest ==
  <<Does(Fork(<<Does(Mkdir("iputdir")), Does(Chdir("iputdir")), Does(Unlink("../iputdir")),
                Try(Exit)>>)), Try(Wait)>>

openiputtest ==
  <<Does(Mkdir("oidir")), Does(Fork(<<Fails(Open("oidir", RW)), Try(Exit)>>)),
    Does(Unlink("oidir")), Try(Wait)>>

opentest == <<Does(Open("README", RD)), Try(Close(0)), Fails(Open("doesnotexist", RD))>>

writetest ==
  <<Does(Open("small", CRW)), Does(Write(0, "a")), Does(Write(0, "b")), Does(Write(0, "a")),
    Does(Write(0, "b")), Try(Close(0)), Does(Open("small", RD)), Expect(Read(0), "abab"),
    Try(Close(0)), Does(Unlink("small"))>>

createtest ==
  <<Try(Open("a0", CRW)), Try(Close(0)), Try(Open("a1", CRW)), Try(Close(0)),
    Try(Unlink("a0")), Try(Unlink("a1"))>>

dirtest == <<Does(Mkdir("dir0")), Does(Chdir("dir0")), Does(Chdir("..")), Does(Unlink("dir0"))>>

(* Four processes with twenty files each in the test; here two, and each     *)
(* deletes a file or keeps it.                                               *)
createdelete ==
  LET child(file, deletes) == <<Does(Open(file, CRW)), Try(Close(0))>>
        \o (IF deletes THEN <<Does(Unlink(file))>> ELSE <<>>) \o <<Try(Exit)>>
  IN  <<Does(Fork(child("p0", FALSE))), Does(Fork(child("p1", TRUE))), Try(Wait), Try(Wait),
        Does(Open("p0", RD)), Try(Close(0)), Fails(Open("p1", RD)), Try(Unlink("p0"))>>

unlinkread ==
  <<Does(Open("unlinkread", CRW)), Try(Write(0, "hello")), Try(Close(0)),
    Does(Open("unlinkread", RW)), Does(Unlink("unlinkread")),
    Try(Open("unlinkread", CRW)), Try(Write(1, "yyy")), Try(Close(1)),
    Expect(Read(0), "hello"), Does(Write(0, "hellohello")), Try(Close(0)),
    Try(Unlink("unlinkread"))>>

linktest ==
  <<Try(Unlink("lf1")), Try(Unlink("lf2")), Does(Open("lf1", CRW)), Does(Write(0, "hello")),
    Try(Close(0)), Does(Link("lf1", "lf2")), Try(Unlink("lf1")), Fails(Open("lf1", RD)),
    Does(Open("lf2", RD)), Expect(Read(0), "hello"), Try(Close(0)), Fails(Link("lf2", "lf2")),
    Try(Unlink("lf2")), Fails(Link("lf2", "lf1")), Fails(Link(".", "lf1"))>>

(* One round of the first loop for each way parent and child may differ. *)
concreate ==
  LET make(how) == IF how = "link" THEN <<Try(Link("C0", "C1"))>>
                   ELSE <<Does(Open("C1", CRW)), Try(Close(0))>>
  IN  {<<Does(Open("C0", CRW)), Try(Close(0)), Try(Unlink("C1")),
         Does(Fork(make(child) \o <<Try(Exit)>>))>> \o make(parent) \o <<Try(Wait)>> :
         parent \in {"link", "create"}, child \in {"link", "create"}}

(* One round of the second loop. *)
concreate_unlink ==
  LET look == <<Try(Open("C0", RD)), Try(Close(0)), Try(Open("C0", RD)), Try(Close(0))>>
      drop == <<Try(Unlink("C0")), Try(Unlink("C0"))>>
  IN  {<<Does(Open("C0", CRW)), Try(Close(0)), Does(Fork(drop \o <<Try(Exit)>>))>>
         \o look \o <<Try(Wait)>>,
       <<Does(Open("C0", CRW)), Try(Close(0)), Does(Fork(look \o <<Try(Exit)>>))>>
         \o drop \o <<Try(Wait)>>}

(* The test draws the calls from a random number generator. *)
linkunlink ==
  LET round == AnyOf({Open("x", CRW), Link("README", "x"), Unlink("x")})
  IN  <<Try(Unlink("x")), Does(Fork(<<round, Try(Close(0)), round, Try(Exit)>>)),
        round, Try(Close(0)), round, Try(Wait)>>

bigdir ==
  <<Try(Unlink("bd")), Does(Open("bd", CR)), Try(Close(0)), Does(Link("bd", "x00")),
    Does(Link("bd", "x10")), Try(Unlink("bd")), Does(Unlink("x00")), Does(Unlink("x10"))>>

subdir ==
  <<Try(Unlink("ff")), Does(Mkdir("dd")), Does(Open("dd/ff", CRW)), Try(Write(0, "ff")),
    Try(Close(0)), Fails(Unlink("dd")), Does(Mkdir("/dd/dd")), Does(Open("dd/dd/ff", CRW)),
    Try(Write(0, "FF")), Try(Close(0)), Does(Open("dd/dd/../ff", RD)), Expect(Read(0), "ff"),
    Try(Close(0)), Does(Link("dd/dd/ff", "dd/dd/ffff")), Does(Unlink("dd/dd/ff")),
    Fails(Open("dd/dd/ff", RD)), Does(Chdir("dd")), Does(Chdir("dd/../../dd")),
    Does(Chdir("dd/../../../dd")), Does(Chdir("./..")), Does(Open("dd/dd/ffff", RD)),
    Expect(Read(0), "FF"), Try(Close(0)), Fails(Open("dd/dd/ff", RD)),
    Fails(Open("dd/ff/ff", CRW)), Fails(Open("dd/xx/ff", CRW)), Fails(Open("dd", CR)),
    Fails(Open("dd", RW)), Fails(Open("dd", "O_WRONLY")), Fails(Link("dd/ff/ff", "dd/dd/xx")),
    Fails(Link("dd/xx/ff", "dd/dd/xx")), Fails(Link("dd/ff", "dd/dd/ffff")),
    Fails(Mkdir("dd/ff/ff")), Fails(Mkdir("dd/xx/ff")), Fails(Mkdir("dd/dd/ffff")),
    Fails(Unlink("dd/xx/ff")), Fails(Unlink("dd/ff/ff")), Fails(Chdir("dd/ff")),
    Fails(Chdir("dd/xx")), Does(Unlink("dd/dd/ffff")), Does(Unlink("dd/ff")),
    Fails(Unlink("dd")), Does(Unlink("dd/dd")), Does(Unlink("dd"))>>

fourteen ==
  LET n14 == "12345678901234"
      n15 == "123456789012345"
  IN  <<Does(Mkdir(n14)), Does(Mkdir(n14 \o "/" \o n15)),
        Does(Open(n15 \o "/" \o n15 \o "/" \o n15, CR)), Try(Close(0)),
        Does(Open(n14 \o "/" \o n14 \o "/" \o n14, RD)), Try(Close(0)),
        Fails(Mkdir(n14 \o "/" \o n14)), Fails(Mkdir(n15 \o "/" \o n14))>>

rmdot ==
  <<Does(Mkdir("dots")), Does(Chdir("dots")), Fails(Unlink(".")), Fails(Unlink("..")),
    Does(Chdir("/")), Fails(Unlink("dots/.")), Fails(Unlink("dots/..")), Does(Unlink("dots"))>>

dirfile ==
  <<Does(Open("dirfile", CR)), Try(Close(0)), Fails(Chdir("dirfile")),
    Fails(Open("dirfile/xx", RD)), Fails(Open("dirfile/xx", CR)), Fails(Mkdir("dirfile/xx")),
    Fails(Unlink("dirfile/xx")), Fails(Link("README", "dirfile/xx")), Does(Unlink("dirfile")),
    Fails(Open(".", RW)), Try(Open(".", RD)), Fails(Write(0, "x")), Try(Close(0))>>

(* The round is repeated once more than the inode cache has slots. *)
iref ==
  LET round == <<Does(Mkdir("irefd")), Does(Chdir("irefd")), Try(Mkdir("")),
                 Try(Link("README", "")), Try(Open("", CR)), Try(Open("xx", CR)), Try(Close(0)),
                 Try(Unlink("xx"))>>
      rounds[n \in Nat] == IF n = 0 THEN <<>> ELSE rounds[n - 1] \o round
  IN  rounds[NINODE + 1] \o <<Try(Chdir("/"))>>

(* fork() fails when the table of three processes is full, zombies counted;  *)
(* wait() then finds as many children as there were, and no more.            *)
forktest ==
  LET child == <<Try(Exit)>>
  IN  <<Does(Fork(child)), Does(Fork(child)), Fails(Fork(child)),
        Does(Wait), Does(Wait), Fails(Wait)>>

Tests ==
  {iputtest, exitiputtest, openiputtest, opentest, writetest, createtest, dirtest, createdelete,
   unlinkread, linktest, linkunlink, bigdir, subdir, fourteen, rmdot, dirfile, iref, forktest}
  \cup concreate \cup concreate_unlink

-----------------------------------------------------------------------------
(* No tests of the repository: two processes in one directory, and two with  *)
(* the same open file, making calls that the tests do not run side by side.  *)
Crowd ==
  LET first == AnyOf({Open("d/f", CRW), Unlink("d"), Chdir("d")})
      second == AnyOf({Unlink("d/f"), Mknod("d"), Link("d", "y"), Link("README", "d/f"),
                       Mkdir("f")})
  IN  <<Does(Mkdir("d")), Does(Fork(<<first, second, Try(Exit)>>)), first, second>>
Shared ==
  LET any == AnyOf({Dup(0), Pipe, Fstat(0), Read(0), Close(0), Open("README", RD)})
  IN  <<Does(Open("README", RD)), Does(Fork(<<any, any, Try(Exit)>>)), any, any>>
==============================================================================
