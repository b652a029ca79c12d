----------------------------- MODULE ShellParser -----------------------------
(***************************************************************************)
(* The parser of the shell (sh.c) on a line of tokens: the symbols of the  *)
(* language, and words.  Every parse function takes the index of the next  *)
(* token and returns a result: the command and the index after it, or the  *)
(* message of panic().                                                     *)
(***************************************************************************)
EXTENDS Naturals, Sequences

CONSTANT MAXARGS

Symbols == {"<", "|", ">", ">>", "&", ";", "(", ")"}

execcmd(argv) == [type |-> "EXEC", argv |-> argv]
redircmd(c, file, fd) == [type |-> "REDIR", cmd |-> c, file |-> file, fd |-> fd]
pipecmd(l, r) == [type |-> "PIPE", left |-> l, right |-> r]
listcmd(l, r) == [type |-> "LIST", left |-> l, right |-> r]
backcmd(c) == [type |-> "BACK", cmd |-> c]

Ok(c, i) == [panic |-> "no", cmd |-> c, i |-> i]
Panics(why) == [panic |-> why]

peek(s, i, toks) == i <= Len(s) /\ s[i] \in toks

IsWord(s, i) == i <= Len(s) /\ s[i] \notin Symbols

RedirFd(tok) == IF tok = "<" THEN 0 ELSE 1

RECURSIVE parseredirs(_, _, _)
parseredirs(c, s, i) ==
  IF ~peek(s, i, {"<", ">", ">>"}) THEN Ok(c, i)
  ELSE IF ~IsWord(s, i + 1) THEN Panics("missing file for redirection")
  ELSE parseredirs(redircmd(c, s[i + 1], RedirFd(s[i])), s, i + 2)

TooMany(argc) == argc >= MAXARGS

(* The program's words go into the same execcmd, however many redircmds are  *)
(* already around it.                                                        *)
RECURSIVE AddArg(_, _)
AddArg(c, w) ==
  IF c.type = "EXEC" THEN [c EXCEPT !.argv = Append(@, w)]
  ELSE [c EXCEPT !.cmd = AddArg(@, w)]

RECURSIVE parseargs(_, _, _)
parseargs(res, argc, s) ==
  IF res.panic # "no" \/ peek(s, res.i, {"|", ")", "&", ";"}) \/ res.i > Len(s) THEN res
  ELSE IF ~IsWord(s, res.i) THEN Panics("syntax")
  ELSE IF TooMany(argc + 1) THEN Panics("too many args")
  ELSE LET next == parseredirs(AddArg(res.cmd, s[res.i]), s, res.i + 1)
       IN  parseargs(next, argc + 1, s)

RECURSIVE parseline(_, _)

parseblock(s, i) ==
  LET res == parseline(s, i + 1)
  IN  IF res.panic # "no" THEN res
      ELSE IF peek(s, res.i, {")"}) THEN parseredirs(res.cmd, s, res.i + 1)
      ELSE Panics("syntax - missing )")

parseexec(s, i) ==
  IF peek(s, i, {"("}) THEN parseblock(s, i)
  ELSE parseargs(parseredirs(execcmd(<<>>), s, i), 0, s)

RECURSIVE parsepipe(_, _)
parsepipe(s, i) ==
  LET left == parseexec(s, i)
  IN  IF left.panic # "no" \/ ~peek(s, left.i, {"|"}) THEN left
      ELSE LET right == parsepipe(s, left.i + 1)
           IN  IF right.panic # "no" THEN right ELSE Ok(pipecmd(left.cmd, right.cmd), right.i)

RECURSIVE parseback(_, _)
parseback(res, s) ==
  IF res.panic # "no" \/ ~peek(s, res.i, {"&"}) THEN res
  ELSE parseback(Ok(backcmd(res.cmd), res.i + 1), s)

(* Faulty variant: one command follows a semicolon. *)
Rest_pipe(s, i) == parsepipe(s, i)

(* What follows a semicolon. *)
Rest(s, i) == parseline(s, i)

parseline(s, i) ==
  LET left == parseback(parsepipe(s, i), s)
  IN  IF left.panic # "no" \/ ~peek(s, left.i, {";"}) THEN left
      ELSE LET right == Rest(s, left.i + 1)
           IN  IF right.panic # "no" THEN right ELSE Ok(listcmd(left.cmd, right.cmd), right.i)

(* The words that nulterminate() ends with a nul. *)
RECURSIVE nulterminate(_)
nulterminate(c) ==
  CASE c.type = "EXEC" -> {c.argv[i] : i \in DOMAIN c.argv}
    [] c.type = "REDIR" -> {c.file} \cup nulterminate(c.cmd)
    [] c.type \in {"PIPE", "LIST"} -> nulterminate(c.left) \cup nulterminate(c.right)
    [] c.type = "BACK" -> nulterminate(c.cmd)

parsecmd(s) ==
  LET res == parseline(s, 1)
  IN  IF res.panic = "no" /\ res.i <= Len(s) THEN Panics("syntax") ELSE res
==============================================================================
