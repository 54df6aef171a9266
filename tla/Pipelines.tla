----------------------------- MODULE Pipelines -----------------------------
(***************************************************************************)
(* A | B of the shell: execute_pipe of Userland/Shell/shell.c makes a pipe *)
(* and two processes, which run programs of commands.c on its ends.  The   *)
(* left one may be killed by Ctrl-C or by the kill command, the right one  *)
(* by the latter.  Ticks fall between any two steps of a program; system   *)
(* calls and handlers run with interrupts masked.                          *)
(***************************************************************************)
EXTENDS Pipes

CONSTANTS
    Lefts, Rights,      \* programs used on each side
    MaxBytes,           \* bound on the bytes written to a pipe
    MaxCall             \* bound on the bytes of one write

Programs == {"counter", "loop", "loop_ps", "cat", "filter", "wc"}

ASSUME PipelinesAssumption == /\ Lefts \subseteq Programs /\ Rights \subseteq Programs
                              /\ MaxBytes \in Nat /\ MaxCall \in Nat \ {0}
                              /\ MAX_PROCESSES >= 4

SHELLPID == 2
Users    == 3..MAX_PROCESSES        \* slots of the processes the shell creates

\* What the shell's table and the bodies of the programs say of each of them
AllowBackground(prog) == prog \in {"counter", "loop", "loop_ps"}
Reads(prog)           == prog \in {"cat", "filter", "wc"}
Returns(prog)         == prog # "loop"

\* The descriptors a program closes itself before it returns
Closes(prog, fds) ==
    CASE prog \in {"counter", "cat"} -> <<fds[2]>>
      [] prog \in {"filter", "wc"}   -> <<fds[1], fds[2]>>
      [] OTHER                       -> << >>

VARIABLES pc,           \* what each program does next
          prog,         \* the program of each process
          fds,          \* its two descriptors
          left,         \* bytes it has still to write in its call of write
          closing,      \* descriptors it has still to close
          foreground,
          waitPid,      \* who waits for it
          shell         \* locals of execute_pipe: programs, descriptors, left_pid, &

progVars == <<pc, prog, fds, left, closing, foreground, waitPid>>
allVars  == <<vars, pipeVars, progVars, shell>>

Masked(p) == inWait[p] # NoSem \/ left[p] > 0 \/ pc[p] = "spin"

\* The program of p is on the CPU, about to do the step called at
On(p, at) == cpu = p /\ state[p] = "RUNNING" /\ pc[p] = at

Goto(p, at) == pc' = [pc EXCEPT ![p] = at]

\* acquire_spinlock never returns: interrupts are masked and the holder is gone
Spin(p) ==
    /\ Goto(p, "spin")
    /\ UNCHANGED <<vars, pipeVars, prog, fds, left, closing, foreground, waitPid, shell>>

-----------------------------------------------------------------------------
\* read(fds[0], &c, 1) of cat, filter and wc: a byte, or 0 at the end of the file
ReadByte(p) ==
    LET r     == fileDescriptors[fds[p][1]].resource
        s     == streams[r].readSem
        again == inWait[p] # NoSem
        k     == IF again THEN Kernel ELSE BeforeRead(Kernel, r)
    IN  /\ On(p, "run")
        /\ Reads(prog[p]) /\ fds[p][1] \in FDs
        /\ \/ /\ s \in locked \/ (streams[r].writeSem \in locked /\ Passes(k, s, again))
              /\ Spin(p)
           \/ /\ {s, streams[r].writeSem} \cap locked = {} /\ ~Passes(k, s, again)
              /\ BlockOn(k, s)
              /\ UNCHANGED <<handle, progVars, shell>>
           \/ /\ {s, streams[r].writeSem} \cap locked = {} /\ Passes(k, s, again)
              /\ Len(streams[r].got) < 2 * MaxBytes
              /\ Install(Read(Decremented(k, s, again), r))
              /\ inWait' = [inWait EXCEPT ![p] = NoSem]
              /\ IF HasByte(k.streams[r]) THEN UNCHANGED <<pc, closing>>
                 ELSE /\ Goto(p, "close")
                      /\ closing' = [closing EXCEPT ![p] = Closes(prog[p], fds[p])]
              /\ UNCHANGED <<handle, prog, fds, left, foreground, waitPid, shell>>

\* A program that does not read the pipe calls write with n bytes
WriteCall(p) ==
    LET r == fileDescriptors[fds[p][2]].resource
    IN  /\ On(p, "run")
        /\ fds[p][2] \in FDs
        /\ \E n \in 1..MaxCall :
             /\ streams[r].sent + n <= MaxBytes
             /\ left' = [left EXCEPT ![p] = n]
        /\ Install(BeforeWrite(Kernel, r))
        /\ Goto(p, "write")
        /\ UNCHANGED <<inWait, handle, prog, fds, closing, foreground, waitPid, shell>>

WriteByte(p) ==
    LET r     == fileDescriptors[fds[p][2]].resource
        s     == streams[r].writeSem
        again == inWait[p] # NoSem
    IN  /\ On(p, "write")
        /\ \/ /\ s \in locked \/ (streams[r].readSem \in locked /\ Passes(Kernel, s, again))
              /\ Spin(p)
           \/ /\ {s, streams[r].readSem} \cap locked = {} /\ ~Passes(Kernel, s, again)
              /\ BlockOn(Kernel, s)
              /\ UNCHANGED <<handle, progVars, shell>>
           \/ /\ {s, streams[r].readSem} \cap locked = {} /\ Passes(Kernel, s, again)
              /\ Install(Write(Decremented(Kernel, s, again), r))
              /\ inWait' = [inWait EXCEPT ![p] = NoSem]
              /\ left' = [left EXCEPT ![p] = @ - 1]
              /\ Goto(p, IF left[p] = 1 THEN "run" ELSE "write")
              /\ UNCHANGED <<handle, prog, fds, closing, foreground, waitPid, shell>>

\* ... until it has counted, looked or, for a left cat, filter or wc, read enough
Finish(p) ==
    /\ On(p, "run")
    /\ Returns(prog[p]) /\ ~(Reads(prog[p]) /\ fds[p][1] \in FDs)
    /\ Goto(p, "close")
    /\ closing' = [closing EXCEPT ![p] = Closes(prog[p], fds[p])]
    /\ UNCHANGED <<vars, pipeVars, prog, fds, left, foreground, waitPid, shell>>

CloseCall(p) ==
    /\ On(p, "close")
    /\ closing[p] # << >>
    /\ IF Spins(Kernel, Head(closing[p])) THEN Spin(p)
       ELSE /\ Install(closeFD(Kernel, Head(closing[p])))
            /\ closing' = [closing EXCEPT ![p] = Tail(@)]
            /\ UNCHANGED <<inWait, handle, pc, prog, fds, left, foreground, waitPid, shell>>

Return(p) ==
    /\ On(p, "close")
    /\ closing[p] = << >>
    /\ Goto(p, "exit")
    /\ UNCHANGED <<vars, pipeVars, prog, fds, left, closing, foreground, waitPid, shell>>

Ended(k, p) == [k EXCEPT !.state[p] = "EXITED"]

(***************************************************************************)
(* The exit of p: kill on itself with interrupts enabled.  Once it is      *)
(* EXITED a tick takes the CPU for good, wherever the closing of its       *)
(* descriptors is and whether or not its waiter was woken.                 *)
(***************************************************************************)
Exit(p) ==
    LET k0   == Ended(Kernel, p)
        k1   == closeFD(k0, fds[p][1])
        k2   == closeFD(k1, fds[p][2])
        last == [k2 EXCEPT !.state = Woken(@, {waitPid[p]})]
    IN  /\ On(p, "exit")
        /\ \E k \in IF Spins(k0, fds[p][1]) THEN CutOff(k0, fds[p][1])
                    ELSE CutOff(k0, fds[p][1]) \cup CutOff(k1, fds[p][2])
                         \cup (IF Spins(k1, fds[p][2]) THEN {} ELSE {last}) :
             /\ InstallAndSwitch(k)
             /\ waitPid' = IF k = last THEN [waitPid EXCEPT ![p] = NULL] ELSE waitPid
        /\ Goto(p, "gone")
        /\ UNCHANGED <<inWait, handle, prog, fds, left, closing, foreground, shell>>

ProgramStep(p) == \/ ReadByte(p) \/ WriteCall(p) \/ WriteByte(p) \/ Finish(p)
                  \/ CloseCall(p) \/ Return(p) \/ Exit(p)

-----------------------------------------------------------------------------
\* kill on p from a system call of another process or from the keyboard handler
Killed(p) ==
    LET k1 == closeFD(Ended(Kernel, p), fds[p][1])
    IN  [closeFD(k1, fds[p][2]) EXCEPT !.state = Woken(@, {waitPid[p]})]

KillSpins(p) == \/ Spins(Ended(Kernel, p), fds[p][1])
                \/ Spins(closeFD(Ended(Kernel, p), fds[p][1]), fds[p][2])

Forget(p, at) ==
    /\ inWait' = [inWait EXCEPT ![p] = NoSem]
    /\ left' = [left EXCEPT ![p] = 0]
    /\ waitPid' = [waitPid EXCEPT ![p] = NULL]
    /\ pc' = [pc EXCEPT ![p] = "gone", ![SHELLPID] = at]
    /\ UNCHANGED <<handle, prog, fds, closing, foreground>>

Alive(p) == state[p] # "EXITED"

\* The kill command of the shell
KillCommand ==
    \E p \in Users :
       /\ On(SHELLPID, "prompt") /\ Alive(p)
       /\ IF KillSpins(p) THEN Spin(SHELLPID)
          ELSE Install(Killed(p)) /\ Forget(p, "prompt") /\ UNCHANGED shell

\* Ctrl-C: the handler kills the first foreground process, which may be on the CPU
CtrlC ==
    LET p == Min({q \in Users : Alive(q) /\ foreground[q]})
    IN  /\ ~Masked(cpu)
        /\ \E q \in Users : Alive(q) /\ foreground[q]
        /\ IF KillSpins(p) THEN Spin(cpu)
           ELSE /\ IF p = cpu THEN InstallAndSwitch(Killed(p)) ELSE Install(Killed(p))
                /\ Forget(p, pc[SHELLPID])
                /\ UNCHANGED shell

-----------------------------------------------------------------------------
\* execute_pipe
ShellStep(at) == On(SHELLPID, at)

OpenPipe ==
    LET made == createPipe(Kernel)
    IN  /\ ShellStep("prompt")
        /\ \E r \in Streams : streams[r].status = "fresh"
        /\ \E l \in Lefts, r \in Rights, bg \in BOOLEAN :
             /\ shell' = [left |-> l, right |-> r, fds |-> made.fds, pid |-> NULL, bg |-> bg]
             /\ Goto(SHELLPID, IF made.fds[1] = NoFD THEN "prompt"
                               ELSE IF bg /\ ~AllowBackground(l) THEN "close0" ELSE "left")
        /\ Install(made.kernel)
        /\ UNCHANGED <<inWait, handle, prog, fds, left, closing, foreground, waitPid>>

FreeSlots == {p \in Users : state[p] = "EXITED"}

\* createProcess into the first free slot of the table
Create(program, ends, fg, next) ==
    LET p == Min(FreeSlots)
    IN  /\ FreeSlots # {}
        /\ Start(p)
        /\ pc' = [pc EXCEPT ![p] = "run", ![SHELLPID] = next]
        /\ prog' = [prog EXCEPT ![p] = program]
        /\ fds' = [fds EXCEPT ![p] = ends]
        /\ left' = [left EXCEPT ![p] = 0]
        /\ closing' = [closing EXCEPT ![p] = << >>]
        /\ foreground' = [foreground EXCEPT ![p] = fg]
        /\ waitPid' = [waitPid EXCEPT ![p] = NULL]
        /\ inWait' = [inWait EXCEPT ![p] = NoSem]
        /\ UNCHANGED <<sems, handle, pipeVars>>

CreateLeft ==
    /\ ShellStep("left")
    /\ Create(shell.left, <<STDIN, shell.fds[2]>>, ~shell.bg, "right")
    /\ shell' = [shell EXCEPT !.pid = Min(FreeSlots)]

\* createProcess also fails for want of memory
CreateLeftFails ==
    /\ ShellStep("left")
    /\ Goto(SHELLPID, "close0")
    /\ UNCHANGED <<vars, pipeVars, prog, fds, left, closing, foreground, waitPid, shell>>

CreateRight ==
    /\ ShellStep("right")
    /\ Create(shell.right, <<shell.fds[1], STDOUT>>, FALSE, IF shell.bg THEN "prompt" ELSE "wait")
    /\ UNCHANGED shell

CreateRightFails ==
    /\ ShellStep("right")
    /\ IF ~Alive(shell.pid)
       THEN /\ Goto(SHELLPID, "close0")
            /\ UNCHANGED <<vars, pipeVars, prog, fds, left, closing, foreground, waitPid, shell>>
       ELSE IF KillSpins(shell.pid) THEN Spin(SHELLPID)
       ELSE Install(Killed(shell.pid)) /\ Forget(shell.pid, "close0") /\ UNCHANGED shell

ClosePipe(at, i, next) ==
    /\ ShellStep(at)
    /\ IF Spins(Kernel, shell.fds[i]) THEN Spin(SHELLPID)
       ELSE /\ Install(closeFD(Kernel, shell.fds[i]))
            /\ Goto(SHELLPID, next)
            /\ UNCHANGED <<inWait, handle, prog, fds, left, closing, foreground, waitPid, shell>>

\* wait(left_pid) returns at once when the process has ended
WaitLeft ==
    /\ ShellStep("wait")
    /\ IF Alive(shell.pid)
       THEN /\ waitPid' = [waitPid EXCEPT ![shell.pid] = SHELLPID]
            /\ BlockSelf
       ELSE UNCHANGED <<waitPid, procVars>>
    /\ Goto(SHELLPID, "prompt")
    /\ UNCHANGED <<semVars, pipeVars, prog, fds, left, closing, foreground, shell>>

ExecutePipe == \/ CreateLeft \/ CreateLeftFails \/ CreateRight \/ CreateRightFails
               \/ ClosePipe("close0", 1, "close1") \/ ClosePipe("close1", 2, "prompt")
               \/ WaitLeft

-----------------------------------------------------------------------------
\* A tick ends the turn of a process that runs with interrupts enabled
Turn == ~Masked(cpu) /\ Preempt /\ UNCHANGED <<semVars, pipeVars, progVars, shell>>

\* The machine hangs: nothing happens any more
Hang == pc[cpu] = "spin" /\ UNCHANGED allVars

PipelinesInit ==
    /\ state = [p \in PIDs |-> CASE p = INITPID  -> "READY"
                                 [] p = SHELLPID -> "RUNNING"
                                 [] OTHER        -> "EXITED"]
    /\ cpu = SHELLPID
    /\ initSemManager
    /\ initFileDescriptors
    /\ pc = [p \in PIDs |-> IF p = SHELLPID THEN "prompt" ELSE "gone"]
    /\ prog = [p \in PIDs |-> "counter"]
    /\ fds = [p \in PIDs |-> <<STDIN, STDOUT>>]
    /\ left = [p \in PIDs |-> 0]
    /\ closing = [p \in PIDs |-> << >>]
    /\ foreground = [p \in PIDs |-> FALSE]
    /\ waitPid = [p \in PIDs |-> NULL]
    /\ shell = [left |-> "counter", right |-> "cat", fds |-> <<NoFD, NoFD>>,
                pid |-> NULL, bg |-> FALSE]

PipelinesNext == \/ OpenPipe \/ ExecutePipe \/ KillCommand \/ CtrlC \/ Turn \/ Hang
                 \/ \E p \in Users : ProgramStep(p)

PipelinesSpec == PipelinesInit /\ [][PipelinesNext]_allVars

(***************************************************************************)
(* No process stays READY for ever (AgedProcessesRun of Scheduler): the    *)
(* shell starts them all with the default priority.  A turn is long enough *)
(* for a step, and a system call goes on once its process is on the CPU.   *)
(* Which command comes next, Ctrl-C and kills are up to the user.  This is *)
(* strong fairness of ProgramStep(p), but for the body of loop, with the   *)
(* states that enable it spelled out.                                      *)
(***************************************************************************)
CanStep(p) == /\ cpu = p /\ state[p] = "RUNNING"
              /\ pc[p] \notin {"spin", "gone"}
              /\ ~(pc[p] = "run" /\ prog[p] = "loop")

FairPipelinesSpec ==
    /\ PipelinesSpec
    /\ \A p \in Users : []<>(state[p] # "READY")
    /\ \A p \in Users : ([]<>CanStep(p) => []<><<ProgramStep(p)>>_allVars)

-----------------------------------------------------------------------------
HasEnd(st) == st.readers > 0 \/ st.writers > 0

\* The two semaphores of a pipe with an end in use count what its buffer holds: a
\* writer's units and the bytes make up BUFFER_SIZE, a reader's units are the bytes until
\* the end of the file adds some, whoever is killed inside read, write or closeFD.
UnitsMatchData ==
    \A r \in Streams :
       LET st == streams[r]
       IN  st.status = "live" /\ HasEnd(st) =>
             /\ st.writeSem # NoSem =>
                  sems[st.writeSem].value + st.dataAvailable = BUFFER_SIZE
             /\ st.readSem # NoSem =>
                  /\ sems[st.readSem].value >= st.dataAvailable
                  /\ ~st.eof => sems[st.readSem].value = st.dataAvailable

\* What is read from a pipe is what was written to it, in order and without gaps,
\* through every wrap of the two positions.
ReadInOrder ==
    \A r \in Streams :
       /\ Len(streams[r].got) <= streams[r].sent
       /\ \A i \in DOMAIN streams[r].got : streams[r].got[i] = i

Reading(p) == Alive(p) /\ Reads(prog[p]) /\ fds[p][1] \in FDs

\* README.md:250, "wc procesa lo recibido": a reader that sees the end of the file
\* has read all that was written, and nobody can write more.
EofIsFinal ==
    \A p \in Users :
       LET st == streams[fileDescriptors[fds[p][1]].resource]
       IN  Reading(p) /\ pc[p] \in {"close", "exit"} =>
              Len(st.got) = st.sent /\ st.writers = 0

WriteEnds(r) == {fd \in FDs : fileDescriptors[fd].isOpen /\ fileDescriptors[fd].mode = "W"
                                 /\ fileDescriptors[fd].resource = r}

\* README.md:254, "termina cuando cat cierra su extremo de escritura": once the
\* write end of its pipe is closed, by its holder or by a kill, a reader reaches
\* the end of the file and ends.
ReadersEnd ==
    \A p \in Users :
       Reading(p) /\ WriteEnds(fileDescriptors[fds[p][1]].resource) = {} ~> ~Alive(p)

\* fds.h:73, createPipe "Returns 0 on success": the pipe of a live process has the
\* two semaphores that reads and writes wait on.
PipeHasSemaphores ==
    \A p \in Users, i \in 1..2 :
       Alive(p) /\ fds[p][i] \in FDs =>
          LET st == streams[fileDescriptors[fds[p][i]].resource]
          IN  st.readSem # NoSem /\ st.writeSem # NoSem
=============================================================================
