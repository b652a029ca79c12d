------------------------------- MODULE MCParts -------------------------------
(***************************************************************************)
(* Parts of the system that share no state, checked side by side: each     *)
(* behaviour runs one of them and leaves the others as they start.         *)
(***************************************************************************)
EXTENDS Memory, Spinlock, Clock, Console, Shell, Umalloc, Mkfs, TLC

VARIABLE part

vars == <<part, memVars, spinVars, clockVars, conVars, shVars, malVars, mkVars>>

Sbrks == {1, 3, -2, -3}

(* Executables: text at 0, the data with or behind it, and a header that is  *)
(* not loaded; one shares a page already there, one is too large.            *)
Load(vaddr, filesz, memsz) == [load |-> TRUE, vaddr |-> vaddr, filesz |-> filesz, memsz |-> memsz]
NoLoad == [load |-> FALSE, vaddr |-> 0, filesz |-> 0, memsz |-> 0]
Executables ==
  {<<Load(0, 2, 2)>>, <<Load(0, 3, 3), Load(4, 0, 1), NoLoad>>, <<Load(0, 3, 3), Load(0, 1, 1)>>,
   <<Load(0, 2, 8)>>, <<Load(0, 2, 2), Load(8, 2, 4)>>}

Pipeline == <<"a", "|", "b", "|", "c">>
Redirected == <<"a", "<", "x", "|", "b", ">", "y">>
Block == <<"(", "a", ";", "b", ")", "|", "c">>
Background == <<"a", "|", "b", "&">>
List == <<"a", "&", ";", "b", ";", "c">>
TwoFiles == <<"a", "w", ">", "x", ">", "y">>
Outer == <<"(", "a", "|", "b", ")", ">", "x">>
NotCommands == {<<"a", "&", "b">>, <<"a", ">">>, <<"(", "a">>, <<"a", "w", "v">>, <<"a", "(">>}
Typed ==
  {<<line>> : line \in {Pipeline, Redirected, Block, Background, List, TwoFiles, Outer,
                        <<>>, <<"&", ";">>} \cup NotCommands}
    \cup {<<Background, Redirected>>, <<Background, Pipeline>>, <<List, Background>>,
            <<<<"cd", "x">>, TwoFiles>>}

FileSizes == {<<>>, <<0>>, <<3>>, <<4, 9>>, <<9, 8, 1>>, <<2, 2, 2, 2>>, <<17>>}

Init ==
  /\ part \in {"memory", "spinlock", "clock", "console", "shell", "malloc", "mkfs"}
  /\ MemInit /\ ClockInit /\ ConInit /\ MalInit
  /\ IF part = "spinlock" THEN SpinInit ELSE SpinInit /\ lk = [c \in CPUs |-> 1]
  /\ IF part = "shell" THEN ShInit ELSE ShInit /\ script = <<<<>>>>
  /\ IF part = "mkfs" THEN MkInit ELSE MkInit /\ todo = Calls(<<>>)

MemTurn == part = "memory" /\ MemNext
             /\ UNCHANGED <<part, spinVars, clockVars, conVars, shVars, malVars, mkVars>>
SpinTurn == part = "spinlock" /\ SpinNext
              /\ UNCHANGED <<part, memVars, clockVars, conVars, shVars, malVars, mkVars>>
ClockTurn == part = "clock" /\ ClockNext
               /\ UNCHANGED <<part, memVars, spinVars, conVars, shVars, malVars, mkVars>>
ConTurn == part = "console" /\ ConNext
             /\ UNCHANGED <<part, memVars, spinVars, clockVars, shVars, malVars, mkVars>>
ShTurn == part = "shell" /\ ShNext
            /\ UNCHANGED <<part, memVars, spinVars, clockVars, conVars, malVars, mkVars>>
MalTurn == part = "malloc" /\ MalNext
             /\ UNCHANGED <<part, memVars, spinVars, clockVars, conVars, shVars, mkVars>>
MkTurn == part = "mkfs" /\ MkNext
            /\ UNCHANGED <<part, memVars, spinVars, clockVars, conVars, shVars, malVars>>

Next == MemTurn \/ SpinTurn \/ ClockTurn \/ ConTurn \/ ShTurn \/ MalTurn \/ MkTurn

(* ClockFairness and ShFairness, of the part that runs. *)
Fairness ==
  /\ WF_clockVars(part = "clock" /\ TimerRuns)
  /\ \A p \in Sleepers : WF_clockVars(part = "clock" /\ SleeperRuns(p))
  /\ WF_shVars(part = "shell" /\ MainStep)
  /\ \A p \in Pids : WF_shVars(part = "shell" /\ JobStep(p))

Spec == Init /\ [][Next]_vars /\ Fairness
==============================================================================
