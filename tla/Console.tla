------------------------------- MODULE Console -------------------------------
(***************************************************************************)
(* Console input (console.c): consoleintr() edits a line in a ring of      *)
(* INPUT_BUF characters and consoleread() takes finished lines out of it.  *)
(* The indices r, w and e are unsigned integers and wrap.                  *)
(* consoleintr() is one step per key; a reader keeps input.lock from the   *)
(* moment it gets it until it sleeps or returns.                           *)
(***************************************************************************)
EXTENDS Integers, Sequences

CONSTANTS
  TtyReaders,
  INPUT_BUF,
  INDICES,     \* the values of an unsigned integer (2^32)
  Keys,        \* what getc() returns
  ReadSizes    \* the values of n

ASSUME ConsoleConstants ==
  /\ INPUT_BUF \in Nat \ {0} /\ INDICES \in Nat
  /\ INDICES % INPUT_BUF = 0 /\ INDICES > INPUT_BUF
  /\ ReadSizes \subseteq Int

VARIABLES
  input,       \* buf, r, w, e
  inputlock,   \* is input.lock held by a reader?
  rd           \* each reader: at, n, target, got (dst) and killed

conVars == <<input, inputlock, rd>>

Idle == [at |-> "user", n |-> 0, target |-> 0, got |-> <<>>, killed |-> FALSE]

ConInit ==
  /\ input = [buf |-> [i \in 0 .. INPUT_BUF - 1 |-> "none"], r |-> 0, w |-> 0, e |-> 0]
  /\ inputlock = FALSE
  /\ rd = [p \in TtyReaders |-> Idle]

Uint(i) == i % INDICES

Cell(i) == Uint(i) % INPUT_BUF

(* The characters between two indices. *)
Chars(i, j) == [k \in 1 .. Uint(j - i) |-> input.buf[Cell(i + k - 1)]]

(* A finished line, as consoleintr() sees it after storing c. *)
Wakes(c, q) == c \in {"nl", "^D"} \/ q.e = Uint(q.r + INPUT_BUF)

(* Only the cells between r and e are kept: the rest of buf is never read. *)
Kept(q) ==
  [q EXCEPT !.buf = [c \in 0 .. INPUT_BUF - 1 |->
     IF \E k \in 0 .. Uint(q.e - q.r) - 1 : c = Cell(q.r + k) THEN @[c] ELSE "none"]]

(* Faulty variant: one sleeper is woken, whoever comes first. *)
wakeup_one ==
  LET asleep == {p \in TtyReaders : rd[p].at = "asleep"}
  IN  IF asleep = {} THEN rd ELSE [rd EXCEPT ![CHOOSE p \in asleep : TRUE].at = "woken"]

wakeup_readers ==
  [p \in TtyReaders |-> IF rd[p].at = "asleep" THEN [rd[p] EXCEPT !.at = "woken"] ELSE rd[p]]

(* Faulty variant: an empty line is erased too. *)
backspace_any ==
  /\ input' = [input EXCEPT !.e = Uint(@ - 1)]
  /\ UNCHANGED rd

backspace ==
  /\ input' = IF input.e = input.w THEN input ELSE Kept([input EXCEPT !.e = Uint(@ - 1)])
  /\ UNCHANGED rd

(* The index at which kill-line stops. *)
LineStart ==
  LET back == {k \in 0 .. Uint(input.e - input.w) :
                 /\ \A i \in 1 .. k : input.buf[Cell(input.e - i)] # "nl"
                 /\ Uint(input.e - k) = input.w \/ input.buf[Cell(input.e - k - 1)] = "nl"}
  IN  Uint(input.e - CHOOSE k \in back : \A j \in back : k <= j)

kill_line ==
  /\ input' = Kept([input EXCEPT !.e = LineStart])
  /\ UNCHANGED rd

(* The ring with one character more. *)
WithChar(c) == [input EXCEPT !.buf[Cell(input.e)] = c, !.e = Uint(@ + 1)]

typed(key) ==
  LET c == IF key = "cr" THEN "nl" ELSE key
      q == WithChar(c)
  IN  IF key = "nul" \/ Uint(input.e - input.r) >= INPUT_BUF
      THEN UNCHANGED <<input, rd>>
      ELSE IF Wakes(c, q)
           THEN input' = [q EXCEPT !.w = q.e] /\ rd' = wakeup_readers
           ELSE input' = q /\ UNCHANGED rd

consoleintr(key) ==
  /\ ~inputlock
  /\ CASE key = "^P" -> UNCHANGED <<input, rd>>     \* procdump() only prints
       [] key = "^U" -> kill_line
       [] key \in {"^H", "del"} -> backspace
       [] OTHER -> typed(key)
  /\ UNCHANGED inputlock

(* consoleread() up to its loop, which a read of 0 bytes skips.  A killed    *)
(* process never gets here: it exits when it leaves the kernel (trap.c).     *)
consoleread(p, n) ==
  /\ rd[p].at = "user" /\ ~rd[p].killed /\ ~inputlock
  /\ rd' = IF n > 0 THEN [rd EXCEPT ![p] = [Idle EXCEPT !.at = "loop", !.n = n, !.target = n]]
           ELSE rd
  /\ inputlock' = (n > 0)
  /\ UNCHANGED input

(* The end of sleep(). *)
read_woken(p) ==
  /\ rd[p].at = "woken" /\ ~inputlock
  /\ rd' = [rd EXCEPT ![p].at = "loop"]
  /\ inputlock' = TRUE
  /\ UNCHANGED input

(* The caller has what was read. *)
Return(p) ==
  /\ rd' = [rd EXCEPT ![p] = [Idle EXCEPT !.killed = rd[p].killed]]
  /\ inputlock' = FALSE

(* No finished line: give up if killed, else go on to sleep(). *)
read_empty(p) ==
  /\ rd[p].at = "loop" /\ rd[p].n > 0 /\ input.r = input.w
  /\ IF rd[p].killed THEN Return(p)
     ELSE rd' = [rd EXCEPT ![p].at = "tosleep"] /\ UNCHANGED inputlock
  /\ UNCHANGED input

sleep_input(p) ==
  /\ rd[p].at = "tosleep"
  /\ rd' = [rd EXCEPT ![p].at = "asleep"]
  /\ inputlock' = FALSE
  /\ UNCHANGED input

(* Faulty variant: end of file is consumed by a read that returns data. *)
PutBack_never(s) == FALSE

(* ^D stays in the ring for the next read. *)
PutBack(s) == s.n < s.target

(* The loop of consoleread() ends. *)
Done(c, s) == c = "nl" \/ s.n = 0

read_char(p) ==
  LET s == rd[p]
      c == input.buf[Cell(input.r)]
      t == [s EXCEPT !.n = @ - 1, !.got = Append(@, c)]
  IN  /\ s.at = "loop" /\ s.n > 0 /\ input.r # input.w
      /\ IF c = "^D"
         THEN /\ input' = IF PutBack(s) THEN input ELSE Kept([input EXCEPT !.r = Uint(@ + 1)])
              /\ Return(p)
         ELSE /\ input' = Kept([input EXCEPT !.r = Uint(@ + 1)])
              /\ IF Done(c, t) THEN Return(p)
                 ELSE rd' = [rd EXCEPT ![p] = t] /\ UNCHANGED inputlock

(* kill() takes ptable.lock, not input.lock. *)
kill_reader(p) ==
  /\ ~rd[p].killed
  /\ rd' = [rd EXCEPT ![p].killed = TRUE, ![p].at = IF @ = "asleep" THEN "woken" ELSE @]
  /\ UNCHANGED <<input, inputlock>>

ConNext ==
  \/ \E key \in Keys : consoleintr(key)
  \/ \E p \in TtyReaders :
       \/ \E n \in ReadSizes : consoleread(p, n)
       \/ read_woken(p) \/ read_empty(p) \/ sleep_input(p) \/ read_char(p) \/ kill_reader(p)

ConSpec == ConInit /\ [][ConNext]_conVars

-----------------------------------------------------------------------------
FinishedLines == Chars(input.r, input.w)
EditedLine == Chars(input.w, input.e)

Tty == INSTANCE LineQueue
         WITH Capacity <- INPUT_BUF, Glyphs <- Keys, Enders <- {"nl", "^D"},
              lines <- FinishedLines, edit <- EditedLine

(* The ring and its three wrapping indices behave as a queue of finished     *)
(* lines and a line being edited: no key is lost or repeated, finished text  *)
(* is never erased, and a line that fills the ring is finished.              *)
ConsoleIsLineQueue == Tty!Spec

Stored == Keys \cup {"nl", "none"}

Inputs ==
  [buf : [0 .. INPUT_BUF - 1 -> Stored],
   r : 0 .. INDICES - 1, w : 0 .. INDICES - 1, e : 0 .. INDICES - 1]

ReadRecords ==
  [at : {"user", "loop", "tosleep", "asleep", "woken"}, n : Nat, target : Nat,
   got : Seq(Stored), killed : BOOLEAN]

ConTypeOK ==
  input \in Inputs /\ inputlock \in BOOLEAN /\ rd \in [TtyReaders -> ReadRecords]

(* The three indices keep their order round the ring, and the line being     *)
(* edited holds no newline, so kill-line stops at input.w.                   *)
RingInv ==
  /\ Uint(input.w - input.r) + Uint(input.e - input.w) <= INPUT_BUF
  /\ \A i \in 1 .. Uint(input.e - input.w) : EditedLine[i] # "nl"

Busy(p) == rd[p].at \in {"loop", "tosleep"}

(* One reader at a time is in the loop, under input.lock. *)
LoopInv ==
  \A p \in TtyReaders : Busy(p) => inputlock /\ \A q \in TtyReaders : Busy(q) => q = p

(* A reader sleeps only while there is no finished line, whoever else reads, *)
(* and a read stops at the end of a line: what it has so far is never a      *)
(* whole line, and never holds a ^D.                                         *)
ReadersServed ==
  /\ ConTypeOK /\ RingInv /\ LoopInv
  /\ \A p \in TtyReaders :
       /\ rd[p].at \in {"tosleep", "asleep"} => input.r = input.w
       /\ Len(rd[p].got) = rd[p].target - rd[p].n
       /\ \A i \in DOMAIN rd[p].got : rd[p].got[i] \notin {"nl", "^D"}

(* End of file leaves the ring only with a read that returns 0 bytes, which  *)
(* consoleread()'s comment promises.                                         *)
EofReturnsZero ==
  [][\A p \in TtyReaders :
       /\ rd[p].at = "loop" /\ input.r # input.w
       /\ input.buf[Cell(input.r)] = "^D" /\ input.r' # input.r
       => rd'[p].at = "user" /\ rd[p].got = <<>>]_conVars
==============================================================================
