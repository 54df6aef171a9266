------------------------------ MODULE Console ------------------------------
(***************************************************************************)
(* The shell of Userland/Shell/shell.c at the keyboard: its main loop      *)
(* reads a line, parses it and runs a built-in command, a process or a     *)
(* pipeline, whose first process may read the keyboard in its turn.  A     *)
(* word is a command's name, an argument, & or |.  Of the programs, cat    *)
(* stands for those that read their standard input, loop for the others.   *)
(***************************************************************************)
EXTENDS Keyboard

CONSTANTS
    MAX_BUFFER_SIZE,    \* characters of the shell's line
    Lines,              \* bound: what may be typed before a behaviour starts, and where
                        \* in the ring it may start
    LateWords,          \* bound: the words that may be typed after that
    MaxKeys             \* bound on the keys typed after that

ASSUME ConsoleAssumption == /\ MAX_BUFFER_SIZE \in Nat \ {0}
                            /\ MAX_PROCESSES > 2
                            /\ \A l \in Lines : /\ l.start \in Cells
                                                 /\ l.words \in Seq(Words)
                                                 /\ Len(l.words) < BUFFER_SIZE
                            /\ LateWords \subseteq Printables
                            /\ MaxKeys \in Nat

SHELLPID == 2
Users    == 3..MAX_PROCESSES

VARIABLES pc,           \* what each program does next
          line,         \* the shell's buffer
          cmd,          \* what the shell runs: programs still to create, PIDs, &
          foreground,
          waitPid,      \* who waits for a process
          keys          \* bound: keys that may still be typed

shellVars   == <<pc, line, cmd, foreground, waitPid>>
consoleVars == <<vars, kbVars, shellVars, keys>>

Idle == [progs |-> << >>, pid |-> NULL, bg |-> FALSE, pids |-> {}, blocked |-> FALSE]

On(p, at) == cpu = p /\ state[p] = "RUNNING" /\ pc[p] = at
Goto(p, at) == pc' = [pc EXCEPT ![p] = at]

Alive(p)   == state[p] # "EXITED"
Blocked(p) == state[p] = "BLOCKED"
Live       == {p \in Users : Alive(p)}
FreeSlots  == Users \ Live
Foreground == {p \in Live : foreground[p]}
Awaited    == \E p \in Live : waitPid[p] = SHELLPID

-----------------------------------------------------------------------------
\* The commands table
Builtins               == {"kill", "block", "nice", "ps", "mem", "echo", "help", "man", "font", "clear"}
Programs               == {"cat", "loop"}
allow_background(prog) == prog = "loop"

Word(c)      == c # SPACE
Tokens(s)    == SelectSeq(s, Word)
Text(l)      == [i \in DOMAIN l |-> l[i].char]
Command(s)   == Head(Tokens(s))

\* main: a final & is cut off; parse_pipe_command and parse_arguments
Background(s) == s # << >> /\ Last(s) = "&"
Body(s)       == IF Background(s) THEN Front(s) ELSE s
PipeAt(s)     == Min({i \in DOMAIN s : s[i] = "|"})
LeftOf(s)     == SubSeq(s, 1, PipeAt(s) - 1)
RightOf(s)    == SubSeq(s, PipeAt(s) + 1, Len(s))
HasPipe(s)    == "|" \in Range(s)

\* What a line asks for: at most two programs, a built-in command or nothing
Parsed(s) ==
    LET b == Body(s)
        l == LeftOf(b)
        r == RightOf(b)
    IN  IF HasPipe(b)
        THEN IF Tokens(l) = << >> \/ Tokens(r) = << >> THEN << >>
             ELSE IF ~({Command(l), Command(r)} \subseteq Programs) THEN << >>
             ELSE IF Background(s) /\ ~allow_background(Command(l)) THEN << >>
             ELSE <<Command(l), Command(r)>>
        ELSE IF Tokens(b) = << >> \/ Command(b) \notin Programs \cup Builtins THEN << >>
             ELSE <<Command(b)>>

\* execute_command runs in the foreground what may not run in the background
InBackground(s) == Background(s) /\ (HasPipe(s) \/ allow_background(Head(Parsed(s))))

-----------------------------------------------------------------------------
\* main: getchar until the end of a line; an end of file is a character like others
Prompt(at) == pc' = [pc EXCEPT ![SHELLPID] = at] /\ cmd' = Idle /\ line' = << >>

Execute(s) ==
    LET progs == Parsed(s)
    IN  IF progs = << >> THEN Prompt("getchar")
        ELSE IF Head(progs) \in Builtins
        THEN /\ Prompt(IF Head(progs) \in {"kill", "block"} THEN Head(progs) ELSE "getchar")
        ELSE /\ Goto(SHELLPID, "create")
             /\ cmd' = [Idle EXCEPT !.progs = progs, !.bg = InBackground(s)]
             /\ UNCHANGED line

ShellRead ==
    /\ On(SHELLPID, "getchar")
    /\ \/ AwaitKey /\ UNCHANGED <<pc, line, cmd>>
       \/ /\ TakeChar
          /\ LET c == kb.buffer[kb.to_read]
             IN  IF c.char = NEW_LINE_CHAR THEN Execute(Text(line))
                 ELSE IF Len(line) + 1 = MAX_BUFFER_SIZE THEN Prompt("skip")
                 ELSE line' = Append(line, c) /\ UNCHANGED <<pc, cmd>>
    /\ UNCHANGED <<foreground, waitPid, keys>>

\* "Shell buffer overflow": the rest of the line is read and dropped
ShellSkip ==
    /\ On(SHELLPID, "skip")
    /\ \/ AwaitKey /\ UNCHANGED pc
       \/ /\ TakeChar
          /\ IF kb.buffer[kb.to_read].char = NEW_LINE_CHAR THEN Goto(SHELLPID, "getchar")
             ELSE UNCHANGED pc
    /\ UNCHANGED <<line, cmd, foreground, waitPid, keys>>

-----------------------------------------------------------------------------
(***************************************************************************)
(* execute_command and execute_pipe: the processes are created one by one, *)
(* the first in the foreground unless & was given, the second never.       *)
(***************************************************************************)
First == cmd.pid = NULL

\* A first process reads the keyboard if its program reads, a second one the pipe
Create ==
    LET p == Min(FreeSlots)
    IN  /\ On(SHELLPID, "create") /\ FreeSlots # {}
        /\ Start(p)
        /\ pc' = [pc EXCEPT ![p] = IF First /\ Head(cmd.progs) = "cat" THEN "getchar" ELSE "run",
                            ![SHELLPID] = IF Len(cmd.progs) > 1 THEN "create"
                                          ELSE IF cmd.bg THEN "getchar" ELSE "wait"]
        /\ cmd' = IF Len(cmd.progs) = 1 /\ cmd.bg THEN Idle
                  ELSE [cmd EXCEPT !.progs = Tail(@), !.pid = IF First THEN p ELSE @]
        /\ line' = IF Len(cmd.progs) = 1 /\ cmd.bg THEN << >> ELSE line
        /\ foreground' = [foreground EXCEPT ![p] = First /\ ~cmd.bg]
        /\ waitPid' = [waitPid EXCEPT ![p] = NULL]
        /\ UNCHANGED <<semVars, kbVars, keys>>

Killed(p) ==
    /\ inWait' = [inWait EXCEPT ![p] = NoSem]
    /\ waitPid' = [waitPid EXCEPT ![p] = NULL]
    /\ UNCHANGED <<sems, handle, foreground>>

KillOther(p) ==
    /\ Stay(Woken([state EXCEPT ![p] = "EXITED"], {waitPid[p]}))
    /\ Killed(p)

\* No slot or no memory: the left side of a pipeline is killed
CreateFails ==
    /\ On(SHELLPID, "create")
    /\ Prompt("getchar")
    /\ IF First \/ ~Alive(cmd.pid) THEN UNCHANGED <<vars, foreground, waitPid>>
                                   ELSE KillOther(cmd.pid)
    /\ UNCHANGED <<kbVars, keys>>

\* Mutant: the shell does not wait for a foreground process
WaitSkipped ==
    /\ On(SHELLPID, "wait")
    /\ Goto(SHELLPID, "clear")
    /\ UNCHANGED <<vars, kbVars, line, cmd, foreground, waitPid, keys>>

Wait ==
    /\ On(SHELLPID, "wait")
    /\ Goto(SHELLPID, "clear")
    /\ IF Alive(cmd.pid)
       THEN BlockSelf /\ waitPid' = [waitPid EXCEPT ![cmd.pid] = SHELLPID]
       ELSE UNCHANGED <<procVars, waitPid>>
    /\ UNCHANGED <<semVars, kbVars, line, cmd, foreground, keys>>

\* Mutant: what was typed meanwhile is not cleared
clearInputBufferSkipped ==
    /\ On(SHELLPID, "clear")
    /\ Prompt("getchar")
    /\ UNCHANGED <<vars, kbVars, foreground, waitPid, keys>>

clearInputBuffer ==
    /\ On(SHELLPID, "clear")
    /\ kb' = Cleared(kb)
    /\ Prompt("getchar")
    /\ UNCHANGED <<vars, erased, foreground, waitPid, keys>>

-----------------------------------------------------------------------------
\* kill_cmd: the process with a PID other than init's and the shell's, or all
KillCommand ==
    /\ On(SHELLPID, "kill")
    /\ \E ps \in {Live} \cup {{p} : p \in Users} :
         cmd' = [cmd EXCEPT !.pids = ps]
    /\ Goto(SHELLPID, "killing")
    /\ UNCHANGED <<vars, kbVars, line, foreground, waitPid, keys>>

\* One system call per process of the list, which may have ended by then
KillNext ==
    LET p == Min(cmd.pids)
    IN  /\ On(SHELLPID, "killing")
        /\ IF cmd.pids = {}
           THEN Prompt("getchar") /\ UNCHANGED <<vars, foreground, waitPid>>
           ELSE /\ cmd' = [cmd EXCEPT !.pids = @ \ {p}]
                /\ IF Alive(p) THEN KillOther(p) ELSE UNCHANGED <<vars, foreground, waitPid>>
                /\ UNCHANGED <<pc, line>>
        /\ UNCHANGED <<kbVars, keys>>

(***************************************************************************)
(* block_cmd looks for the process in a list it got from the kernel and    *)
(* decides from that.  A PID that is not in the list sends the search past *)
(* its end: whatever it finds there, the call that follows refuses a PID   *)
(* without a process.                                                      *)
(***************************************************************************)
Found(p) ==
    /\ cmd' = [cmd EXCEPT !.pid = p, !.blocked = Blocked(p)]
    /\ Goto(SHELLPID, "toggle")
    /\ UNCHANGED line

BlockCommand ==
    /\ On(SHELLPID, "block")
    /\ (\E p \in Live : Found(p)) \/ Prompt("getchar")
    /\ UNCHANGED <<vars, kbVars, foreground, waitPid, keys>>

Toggle ==
    LET p == cmd.pid
    IN  /\ On(SHELLPID, "toggle")
        /\ Stay(IF ~Alive(p) THEN state
                ELSE IF cmd.blocked THEN Woken(state, {p})
                ELSE [state EXCEPT ![p] = "BLOCKED"])
        /\ Prompt("getchar")
        /\ UNCHANGED <<semVars, kbVars, foreground, waitPid, keys>>

ShellStep == \/ ShellRead \/ ShellSkip \/ Create \/ CreateFails \/ Wait \/ clearInputBuffer
             \/ KillCommand \/ KillNext \/ BlockCommand \/ Toggle

-----------------------------------------------------------------------------
\* cat: reads from the keyboard until the end of the file; one in the background
\* is told so at once
CatRead(p) ==
    /\ On(p, "getchar")
    /\ \/ foreground[p] /\ AwaitKey /\ UNCHANGED pc
       \/ /\ foreground[p] /\ TakeChar
          /\ Goto(p, IF kb.buffer[kb.to_read].char = EOF THEN "run" ELSE "getchar")
       \/ ~foreground[p] /\ Goto(p, "run") /\ UNCHANGED <<vars, kbVars>>
    /\ UNCHANGED <<line, cmd, foreground, waitPid, keys>>

\* The entry point returns.  A tick may cut the exit off before the shell is woken.
Return(p) ==
    /\ On(p, "run")
    /\ \/ /\ Switch(Woken([state EXCEPT ![p] = "EXITED"], {waitPid[p]}))
          /\ waitPid' = [waitPid EXCEPT ![p] = NULL]
       \/ Switch([state EXCEPT ![p] = "EXITED"]) /\ UNCHANGED waitPid
    /\ UNCHANGED <<semVars, kbVars, pc, line, cmd, foreground, keys>>

UserStep(p) == CatRead(p) \/ Return(p)

-----------------------------------------------------------------------------
\* Mutant: the process that waits for the killed one is not woken
handleCtrlCSilent ==
    LET p == Min(Foreground)
    IN  /\ Interrupt /\ ~BUFFER_IS_FULL(kb) /\ kb.control
        /\ Foreground # {}
        /\ IF p = cpu THEN Switch([state EXCEPT ![p] = "EXITED"]) /\ UNCHANGED kb
           ELSE Stay([state EXCEPT ![p] = "EXITED"]) /\ kb' = Cleared(kb)
        /\ Killed(p)
        /\ UNCHANGED <<erased, pc, line, cmd>>

\* handleCtrlC: a handler that kills the process it interrupted never comes back
\* to clear the buffer
handleCtrlC ==
    LET p  == Min(Foreground)
        st == Woken([state EXCEPT ![p] = "EXITED"], {waitPid[p]})
    IN  /\ Interrupt /\ ~BUFFER_IS_FULL(kb) /\ kb.control
        /\ Foreground # {}
        /\ IF p = cpu THEN Switch(st) /\ UNCHANGED kb
                      ELSE Stay(st) /\ kb' = Cleared(kb)
        /\ Killed(p)
        /\ UNCHANGED <<erased, pc, line, cmd>>

Key ==
    /\ keys > 0 /\ keys' = keys - 1
    /\ \/ /\ \/ BufferFull \/ handleCtrlD(Awaited) \/ ReturnKey(Awaited)
             \/ TabKey(Awaited) \/ BackspaceKey
             \/ \E key \in LateWords : WordKey(key, Awaited)
          /\ UNCHANGED shellVars
       \/ handleCtrlC

Control == \E on \in BOOLEAN : kb.control # on /\ ControlKey(on) /\ UNCHANGED <<shellVars, keys>>

Turn == Tick /\ UNCHANGED <<kbVars, shellVars, keys>>

\* The shell sleeps in getchar, the typed words unread; a job may be in the background
ConsoleInit ==
    /\ \E jobs \in SUBSET {Min(Users)} :
         state = [p \in PIDs |-> CASE p = INITPID  -> "RUNNING"
                                   [] p = SHELLPID -> "BLOCKED"
                                   [] p \in jobs   -> "READY"
                                   [] OTHER        -> "EXITED"]
    /\ cpu = INITPID
    /\ sems = [s \in SemIds |-> [used |-> TRUE, value |-> 0, waiting |-> <<SHELLPID>>,
                                 openedBy |-> [i \in 0..(MAX_PROCESSES - 1) |-> FALSE],
                                 name |-> [i \in 1..NameLength |-> NUL]]]
    /\ inWait = [p \in PIDs |-> IF p = SHELLPID THEN keyboard_semaphore ELSE NoSem]
    /\ handle = [p \in PIDs |-> [n \in Names |-> NoSem]]
    /\ \E typed \in Lines : initKeyboard(typed.words, typed.start)
    /\ pc = [p \in PIDs |-> IF p = SHELLPID THEN "getchar" ELSE "run"]
    /\ line = << >> /\ cmd = Idle
    /\ foreground = [p \in PIDs |-> p \notin Users]
    /\ waitPid = [p \in PIDs |-> NULL]
    /\ keys = MaxKeys

ConsoleNext == \/ Key \/ Control \/ Turn \/ ShellStep
               \/ \E p \in Users : UserStep(p)

ConsoleSpec == ConsoleInit /\ [][ConsoleNext]_consoleVars

(***************************************************************************)
(* No process stays READY for ever, and one that is on the CPU again and   *)
(* again makes its next step: getKeyboardCharacter and wait run masked,    *)
(* and a turn is longer than the code between two calls.  A process may    *)
(* run for ever in its own code, and the user may stop typing.             *)
(***************************************************************************)
CanStep(p) == cpu = p /\ state[p] = "RUNNING" /\ pc[p] # "run"

Step(p) == IF p = SHELLPID THEN ShellStep ELSE UserStep(p)

FairConsoleSpec ==
    /\ ConsoleSpec
    /\ \A p \in PIDs \ {INITPID} : []<>(state[p] # "READY")
    /\ \A p \in PIDs \ {INITPID} : ([]<>CanStep(p) => []<><<Step(p)>>_consoleVars)

-----------------------------------------------------------------------------
\* Ctrl-D enters two characters, TAB as many as are left to the tab stop
Burst == IF TAB_SIZE > 2 THEN TAB_SIZE ELSE 2

Input == INSTANCE InputQueue WITH queue <- Unread(kb), Capacity <- BUFFER_SIZE

\* The ring, its two positions and its test for a full buffer behave as a queue
\* that is edited at its end: no character is read twice, out of order or after
\* it was erased, and what is lost is lost as a whole.
ImplementsInputQueue == Input!InputSpec

Reader(p) == Alive(p) /\ pc[p] \in {"getchar", "skip"} /\ foreground[p]

\* The keyboard has one reader at a time, the shell or the process it waits for,
\* so that no line is split between two.
OneReader == \A p, q \in PIDs : Reader(p) /\ Reader(q) => p = q

\* shell.c:305, "Clear any input that was typed during process execution": nothing
\* entered while the shell waits for a process gets into a command line, however
\* that process ends and whatever it leaves in the buffer.
TypeAheadIsDropped == \A i \in DOMAIN line : ~line[i].typedAhead

\* keyboard.c:247, a reader halts "until any key is pressed or \n is entered": it
\* takes what a line end completes, unless more is typed or something was erased.
LineIsTaken ==
    \A p \in PIDs :
       Reader(p) /\ LineReady(kb) /\ ~erased ~> ~(Reader(p) /\ LineReady(kb) /\ ~erased)

\* The shell comes back to its prompt when the process it waits for is killed, by
\* Ctrl-C wherever that process is, or ends without being cut off.
ShellComesBack ==
    pc[SHELLPID] = "clear" /\ waitPid[cmd.pid] # SHELLPID ~> pc[SHELLPID] = "getchar"
=============================================================================
