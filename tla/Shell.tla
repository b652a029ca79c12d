-------------------------------- MODULE Shell --------------------------------
(***************************************************************************)
(* The shell (sh.c): it reads lines, and for each one forks a child that   *)
(* parses it and runs the tree, forking and connecting more processes.     *)
(* Process 1 is the shell itself.  What the kernel does for it (fork,      *)
(* wait, exit, pipe, dup, close, open) is modelled by its effect on the    *)
(* process table and on descriptors.  A program reads its standard input   *)
(* to the end and exits; init reaps orphans.                               *)
(***************************************************************************)
EXTENDS ShellParser, FiniteSets, FiniteSetsExt

CONSTANTS
  NJOBS,     \* slots of the process table that the shell and its jobs may use
  Scripts,   \* the sequences of lines that may be typed
  Malformed  \* the lines among them that are no commands

Pids == 1 .. NJOBS
Fds == 0 .. 6

(* Open files: a kind, and which one.  A pipe is named by the line and the   *)
(* path to the pipecmd that made it.                                         *)
File(kind, line, path) == [kind |-> kind, line |-> line, path |-> path]
Closed == File("closed", 0, <<>>)
OnConsole == File("console", 0, <<>>)

VARIABLES
  job,       \* the processes
  script,    \* the lines still to come
  nofork     \* history: has fork() failed?

shVars == <<job, script, nofork>>

(* line, path: the line that a process works for, how many lines were left   *)
(* when it was read, and the way from its root to cmd.                       *)
NoJob ==
  [pc |-> "none", cmd |-> execcmd(<<>>), fd |-> [n \in Fds |-> Closed], parent |-> 0,
   line |-> <<>>, left |-> 0, path |-> <<>>]

(* What parsecmd() makes of each line. *)
Lines == UNION {{sc[i] : i \in DOMAIN sc} : sc \in Scripts}
Parsed == [l \in Lines |-> parsecmd(l)]

Live(p) == job[p].pc \notin {"none", "zombie"}

Terminal == [n \in Fds |-> IF n < 3 THEN OnConsole ELSE Closed]

ShInit ==
  /\ job = [p \in Pids |-> IF p = 1 THEN [NoJob EXCEPT !.pc = "prompt", !.fd = Terminal] ELSE NoJob]
  /\ script \in Scripts
  /\ nofork = FALSE

-----------------------------------------------------------------------------
(* The kernel, as the shell sees it. *)
FirstFd(fd) == Min({n \in Fds : fd[n] = Closed})

close(fd, n) == [fd EXCEPT ![n] = Closed]

dup(fd, n) == [fd EXCEPT ![FirstFd(fd)] = fd[n]]

Children(p) == {q \in Pids : job[q].parent = p /\ job[q].pc # "none"}

(* The table after p exits: its children are init's. *)
Exited(p) ==
  [q \in Pids |->
     IF q = p THEN IF job[p].parent = 0 THEN NoJob
                   ELSE [NoJob EXCEPT !.pc = "zombie", !.parent = job[p].parent]
     ELSE IF q \in Children(p)
          THEN IF job[q].pc = "zombie" THEN NoJob ELSE [job[q] EXCEPT !.parent = 0]
     ELSE job[q]]

exit(p) == job' = Exited(p) /\ UNCHANGED <<script, nofork>>

(* fork1(): the parent goes on at pc, the child is as given.  When fork()    *)
(* fails panic() exits.                                                      *)
fork1(p, child, pc) ==
  LET unused == {q \in Pids : job[q].pc = "none"}
  IN  IF unused = {} THEN job' = Exited(p) /\ nofork' = TRUE
      ELSE /\ job' = [job EXCEPT ![p].pc = pc, ![Min(unused)] = [child EXCEPT !.parent = p]]
           /\ UNCHANGED nofork

(* wait(), then on as next. *)
waits(p, next) ==
  LET dead == {q \in Children(p) : job[q].pc = "zombie"}
  IN  /\ dead # {} \/ Children(p) = {}
      /\ job' = [q \in Pids |-> IF q = p THEN next
                               ELSE IF dead # {} /\ q = Min(dead) THEN NoJob ELSE job[q]]
      /\ UNCHANGED <<script, nofork>>

-----------------------------------------------------------------------------
IsCd(line) == Len(line) > 1 /\ line[1] = "cd"

(* The loop of main(): a line is read; cd is the shell's own business, for   *)
(* any other line a child is forked and waited for.                          *)
main_fork ==
  /\ job[1].pc = "prompt" /\ script # <<>> /\ ~IsCd(Head(script))
  /\ fork1(1, [job[1] EXCEPT !.pc = "parsecmd", !.line = Head(script), !.left = Len(script)],
           "wait")
  /\ script' = Tail(script)

main_wait == job[1].pc = "wait" /\ waits(1, [job[1] EXCEPT !.pc = "prompt"])

(* chdir(): the current directory is left out. *)
main_cd ==
  /\ job[1].pc = "prompt" /\ script # <<>> /\ IsCd(Head(script))
  /\ script' = Tail(script)
  /\ UNCHANGED <<job, nofork>>

(* End of file. *)
main_exit == job[1].pc = "prompt" /\ script = <<>> /\ exit(1)

Becomes(p, next) == job' = [job EXCEPT ![p] = next] /\ UNCHANGED <<script, nofork>>

(* The child parses the line, and exits on a syntax error. *)
main_parse(p) ==
  /\ job[p].pc = "parsecmd"
  /\ LET res == Parsed[job[p].line]
     IN  IF res.panic # "no" THEN exit(p)
         ELSE Becomes(p, [job[p] EXCEPT !.pc = "runcmd", !.cmd = res.cmd])

Runs(p, type) == job[p].pc = "runcmd" /\ job[p].cmd.type = type

(* runcmd() of a part of p's command. *)
Part(p, part, fd) ==
  [job[p] EXCEPT !.pc = "runcmd", !.cmd = @[part], !.path = Append(@, part), !.fd = fd]

(* exec() can fail, for instance because there is no such file. *)
runcmd_exec(p) ==
  /\ Runs(p, "EXEC")
  /\ \/ exit(p)
     \/ job[p].cmd.argv # <<>> /\ Becomes(p, [job[p] EXCEPT !.pc = "program"])

(* So can open(). *)
runcmd_redir(p) ==
  LET c == job[p].cmd
      fd == close(job[p].fd, c.fd)
  IN  /\ Runs(p, "REDIR")
      /\ \/ exit(p)
         \/ Becomes(p, Part(p, "cmd", [fd EXCEPT ![FirstFd(fd)] = File("file", 0, <<c.file>>)]))

runcmd_list(p) ==
  /\ Runs(p, "LIST")
  /\ fork1(p, Part(p, "left", job[p].fd), "list_wait")
  /\ UNCHANGED script

(* Faulty variant: the list goes on at once. *)
list_wait_not(p) == job[p].pc = "list_wait" /\ Becomes(p, Part(p, "right", job[p].fd))

list_wait(p) == job[p].pc = "list_wait" /\ waits(p, Part(p, "right", job[p].fd))

runcmd_back(p) ==
  /\ Runs(p, "BACK")
  /\ fork1(p, Part(p, "cmd", job[p].fd), "exit")
  /\ UNCHANGED script

PipeEnd(p, kind) == File(kind, job[p].left, job[p].path)

(* pipe(): p[0] and p[1] are the two lowest free descriptors.  It can fail.  *)
runcmd_pipe(p) ==
  LET fd0 == [job[p].fd EXCEPT ![FirstFd(job[p].fd)] = PipeEnd(p, "read")]
      fd1 == [fd0 EXCEPT ![FirstFd(fd0)] = PipeEnd(p, "write")]
  IN  /\ Runs(p, "PIPE")
      /\ exit(p) \/ Becomes(p, [job[p] EXCEPT !.pc = "fork_left", !.fd = fd1])

P0(p) == CHOOSE n \in Fds : job[p].fd[n] = PipeEnd(p, "read")
P1(p) == CHOOSE n \in Fds : job[p].fd[n] = PipeEnd(p, "write")

(* Faulty variant: a child keeps p[1] open. *)
Replaced_kept(p, n, by) == close(dup(close(job[p].fd, n), by), P0(p))

(* In a child, close(n); dup(by); close(p[0]); close(p[1]). *)
Replaced(p, n, by) == close(close(dup(close(job[p].fd, n), by), P0(p)), P1(p))

fork_left(p) ==
  /\ job[p].pc = "fork_left"
  /\ fork1(p, Part(p, "left", Replaced(p, 1, P1(p))), "fork_right")
  /\ UNCHANGED script

(* Faulty variant: both children get the end of the left one. *)
fork_right_copied(p) ==
  /\ job[p].pc = "fork_right"
  /\ fork1(p, Part(p, "right", Replaced(p, 0, P1(p))), "pipe_close")
  /\ UNCHANGED script

fork_right(p) ==
  /\ job[p].pc = "fork_right"
  /\ fork1(p, Part(p, "right", Replaced(p, 0, P0(p))), "pipe_close")
  /\ UNCHANGED script

pipe_close(p) ==
  /\ job[p].pc = "pipe_close"
  /\ Becomes(p, [job[p] EXCEPT !.pc = "wait_one", !.fd = close(close(@, P0(p)), P1(p))])

NextWait(pc) == IF pc = "wait_one" THEN "wait_two" ELSE "exit"

pipe_wait(p) ==
  /\ job[p].pc \in {"wait_one", "wait_two"}
  /\ waits(p, [job[p] EXCEPT !.pc = NextWait(@)])

runcmd_exit(p) == job[p].pc = "exit" /\ exit(p)

(* A program exits when there is no more input for it: for a pipe, when no   *)
(* process has the write end open.                                           *)
program(p) ==
  LET stdin == job[p].fd[0]
  IN  /\ job[p].pc = "program"
      /\ stdin.kind = "read" =>
           \A q \in Pids, n \in Fds : job[q].fd[n] # [stdin EXCEPT !.kind = "write"]
      /\ exit(p)

JobStep(p) ==
  \/ main_parse(p)
  \/ runcmd_exec(p) \/ runcmd_redir(p) \/ runcmd_list(p) \/ list_wait(p) \/ runcmd_back(p)
  \/ runcmd_pipe(p) \/ fork_left(p) \/ fork_right(p) \/ pipe_close(p) \/ pipe_wait(p)
  \/ runcmd_exit(p) \/ program(p)

MainStep == main_fork \/ main_wait \/ main_cd \/ main_exit
ShNext == MainStep \/ \E p \in Pids : JobStep(p)

(* The scheduler runs every process, and programs stop at end of file. *)
ShFairness ==
  WF_shVars(MainStep) /\ \A p \in Pids : WF_shVars(JobStep(p))

ShSpec == ShInit /\ [][ShNext]_shVars /\ ShFairness

-----------------------------------------------------------------------------
(* A reference: the tokens of a tree, with the parentheses it needs. *)
RECURSIVE Unparse(_)
Unparse(c) ==
  LET Paren(d, ok) == IF d.type \in ok THEN Unparse(d) ELSE <<"(">> \o Unparse(d) \o <<")">>
      Simple == {"EXEC", "REDIR"}
  IN  CASE c.type = "EXEC" -> c.argv
        [] c.type = "REDIR" -> Paren(c.cmd, Simple) \o <<IF c.fd = 0 THEN "<" ELSE ">", c.file>>
        [] c.type = "PIPE" -> Paren(c.left, Simple) \o <<"|">> \o Paren(c.right, Simple \cup {"PIPE"})
        [] c.type = "LIST" ->
             Paren(c.left, Simple \cup {"PIPE", "BACK"}) \o <<";">> \o Unparse(c.right)
        [] c.type = "BACK" -> Paren(c.cmd, Simple \cup {"PIPE", "BACK"}) \o <<"&">>

(* A reference: standard input and output at the end of a path. *)
RECURSIVE Wiring(_, _, _, _, _)
Wiring(c, left, path, done, io) ==
  IF path = <<>> THEN io
  ELSE Wiring(c[Head(path)], left, Tail(path), Append(done, Head(path)),
         CASE c.type = "REDIR" -> [io EXCEPT ![c.fd] = File("file", 0, <<c.file>>)]
           [] c.type = "PIPE" /\ Head(path) = "left" -> [io EXCEPT ![1] = File("write", left, done)]
           [] c.type = "PIPE" /\ Head(path) = "right" -> [io EXCEPT ![0] = File("read", left, done)]
           [] OTHER -> io)

Root(p) == Parsed[job[p].line].cmd

(* The command at the end of a path. *)
RECURSIVE Node(_, _)
Node(c, path) == IF path = <<>> THEN c ELSE Node(c[Head(path)], Tail(path))

(* The first n nodes on the way to p's command. *)
Above(p, n) == SubSeq(job[p].path, 1, n)

(* From depth n on, there is a backcmd above p's command. *)
InBackground(p, n) ==
  \E k \in n .. Len(job[p].path) - 1 : Node(Root(p), Above(p, k)).type = "BACK"

RECURSIVE ArgvFits(_)
ArgvFits(c) ==
  CASE c.type = "EXEC" -> Len(c.argv) < MAXARGS
    [] c.type \in {"REDIR", "BACK"} -> ArgvFits(c.cmd)
    [] OTHER -> ArgvFits(c.left) /\ ArgvFits(c.right)

-----------------------------------------------------------------------------
(* Of the lines in Scripts, parsecmd() refuses those in Malformed only; for  *)
(* the others the tree, printed back, is the line: precedence, associativity *)
(* and parentheses are as sh.c's grammar means them.  sh.c takes spellings   *)
(* that Unparse never writes, such as ( a ) or a > x w: none is in Scripts.  *)
ParsesBack ==
  \A p \in Pids : job[p].pc = "parsecmd" =>
    LET res == Parsed[job[p].line]
    IN  IF res.panic = "no" THEN Unparse(res.cmd) = job[p].line ELSE job[p].line \in Malformed

(* Every word of a parsed line, argument or file name, gets its nul, and an  *)
(* argument list has room for the null pointer at its end.                   *)
WordsEnd ==
  \A p \in Pids : job[p].pc = "runcmd" /\ job[p].path = <<>> =>
    /\ nulterminate(job[p].cmd) = {job[p].line[i] : i \in DOMAIN job[p].line} \ Symbols
    /\ ArgvFits(job[p].cmd)

(* A line is run as the command it is the text of, its words ended. *)
LineUnderstood == ParsesBack /\ WordsEnd

(* A program starts with the standard input and output that the line gives   *)
(* it, and with no other descriptor open.                                    *)
WiredAsTyped ==
  \A p \in Pids : job[p].pc = "program" =>
    job[p].fd = Wiring(Root(p), job[p].left, job[p].path, <<>>, Terminal)

(* The shell prompts, and a list goes on to its right side, only when        *)
(* everything before has exited, except what runs in the background.         *)
ForegroundFirst ==
  ~nofork =>
    \A p \in Pids : Live(p) /\ job[p].pc \notin {"prompt", "wait", "parsecmd"} =>
      /\ job[1].pc = "prompt" => InBackground(p, 0)
      /\ \A q \in Pids, n \in 1 .. Len(job[p].path) :
           /\ job[q].pc \in {"runcmd", "program"} /\ job[q].left = job[p].left
           /\ n <= Len(job[q].path) /\ Above(q, n - 1) = Above(p, n - 1)
           /\ job[p].path[n] = "left" /\ job[q].path[n] = "right"
           /\ Node(Root(p), Above(p, n - 1)).type = "LIST"
           => InBackground(p, n)

(* Every command line ends: no process of a pipeline waits for an end of     *)
(* file that another one, or itself, holds back, and no child is left over.  *)
EveryLineEnds == <>[](\A p \in Pids : job[p].pc \in {"none", "prompt"})
==============================================================================
