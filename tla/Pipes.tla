------------------------------- MODULE Pipes -------------------------------
(***************************************************************************)
(* The descriptor table and the pipes of Kernel/fds.c over the semaphores. *)
(* An operation maps the part of the kernel's state it works on, a record, *)
(* to the one it leaves.  closeFD is a sequence of such records: called    *)
(* from a system call or a handler it runs to its last one, called from    *)
(* the exit of a process, where interrupts are enabled, it may be cut off  *)
(* at any of them.                                                         *)
(***************************************************************************)
EXTENDS Semaphores

CONSTANTS
    MAX_FDS,            \* descriptors, the three standard ones included
    BUFFER_SIZE,        \* bytes a pipe holds
    MaxStreams          \* bound on the pipes created

ASSUME PipesAssumption == /\ MAX_FDS \in Nat /\ MAX_FDS > 3
                          /\ BUFFER_SIZE \in Nat \ {0}
                          /\ MaxStreams \in Nat \ {0}

STDIN    == 0
STDOUT   == 1
FDs      == 3..(MAX_FDS - 1)    \* what getAvailableFD hands out
NoFD     == -1
Streams  == 1..MaxStreams
NoStream == 0
Cells    == 0..(BUFFER_SIZE - 1)
Junk     == 0                   \* what a byte of the buffer holds before it is written

VARIABLES fileDescriptors,      \* the table, from the first pipe descriptor on
          streams,              \* the Stream structures, one per createPipe
          locked                \* semaphores whose spinlock a process that is gone holds

pipeVars == <<fileDescriptors, streams, locked>>

(***************************************************************************)
(* A Stream, with two history fields: how many bytes were written, and     *)
(* which were read.  The n-th byte written is the number n.                *)
(***************************************************************************)
Stream == [status : {"fresh", "live", "freed"},
           buffer : [Cells -> Nat], readPos : Cells, writePos : Cells,
           dataAvailable : Int, eof : BOOLEAN,
           readers : Int, writers : Int,
           readSem : SemIds \cup {NoSem}, writeSem : SemIds \cup {NoSem},
           sent : Nat, got : Seq(Nat)]

FD == [isOpen : BOOLEAN, resource : Streams \cup {NoStream}, mode : {"R", "W"}]

Kernel == [fds |-> fileDescriptors, streams |-> streams, sems |-> sems,
           state |-> state, locked |-> locked]

\* The operation returns and its caller keeps the CPU
Install(k) ==
    /\ fileDescriptors' = k.fds /\ streams' = k.streams /\ sems' = k.sems
    /\ state' = k.state /\ locked' = k.locked
    /\ UNCHANGED cpu

\* The caller loses the CPU for good or until it is READY again
InstallAndSwitch(k) ==
    /\ fileDescriptors' = k.fds /\ streams' = k.streams /\ sems' = k.sems
    /\ locked' = k.locked
    /\ Switch(k.state)

-----------------------------------------------------------------------------
\* semPost and semDestroy; a failed semCreate left NoSem, which both refuse
Posted(k, s) ==
    IF s = NoSem \/ ~k.sems[s].used THEN k
    ELSE [k EXCEPT !.sems[s].value = @ + 1, !.sems[s].waiting = << >>,
                   !.state = Woken(@, Range(k.sems[s].waiting))]

Destroyed(k, s) ==
    IF s = NoSem THEN k
    ELSE [k EXCEPT !.sems[s].used = FALSE, !.sems[s].waiting = << >>,
                   !.state = Woken(@, Range(k.sems[s].waiting))]

Locked(k, s) == IF s = NoSem THEN k ELSE [k EXCEPT !.locked = @ \cup {s}]

\* semWait(s) gets past its loop: on entry it also returns when s is not in use
Passes(k, s, again) ==
    IF again THEN k.sems[s].value # 0
             ELSE s = NoSem \/ ~k.sems[s].used \/ k.sems[s].value # 0

Decremented(k, s, again) ==
    IF again \/ (s # NoSem /\ k.sems[s].used) THEN [k EXCEPT !.sems[s].value = @ - 1] ELSE k

\* ... or queues its caller, which gives up the CPU
BlockOn(k, s) ==
    /\ inWait' = [inWait EXCEPT ![cpu] = s]
    /\ InstallAndSwitch([k EXCEPT !.sems[s].waiting = IF k.sems[s].used THEN Append(@, cpu) ELSE @,
                                  !.state[cpu] = "BLOCKED"])

\* semCreate refuses a name in use and a full table
semCreate(k, name, value) ==
    LET named == {s \in SemIds : k.sems[s].used /\ Spells(k.sems, s, name)}
        free  == {s \in SemIds : ~k.sems[s].used}
    IN  IF named # {} \/ free = {} THEN [kernel |-> k, id |-> NoSem]
        ELSE [kernel |-> [k EXCEPT !.sems[Min(free)] = Created(@, cpu, name, value)],
              id     |-> Min(free)]

-----------------------------------------------------------------------------
itoa(fd) == <<ToString(fd)>>    \* descriptors of one digit

ASSUME PipeNamesAssumption == \A fd \in FDs : itoa(fd) \in Names

\* getAvailableFD: the lowest closed slot, which is taken at once
Available(k) == {fd \in FDs : ~k.fds[fd].isOpen}

getAvailableFD(k) ==
    IF Available(k) = {} THEN [kernel |-> k, fd |-> NoFD]
    ELSE [kernel |-> [k EXCEPT !.fds[Min(Available(k))].isOpen = TRUE],
          fd     |-> Min(Available(k))]

(***************************************************************************)
(* createPipe: both slots are taken before either is tested.  What is      *)
(* allocated is a structure no pipe used before.                           *)
(***************************************************************************)
createPipe(k) ==
    LET first  == getAvailableFD(k)
        second == getAvailableFD(first.kernel)
        fd1    == first.fd
        fd2    == second.fd
        r      == Min({i \in Streams : k.streams[i].status = "fresh"})
        reads  == semCreate(second.kernel, itoa(fd1), 0)
        writes == semCreate(reads.kernel, itoa(fd2), BUFFER_SIZE)
    IN  IF fd1 = NoFD \/ fd2 = NoFD THEN [kernel |-> second.kernel, fds |-> <<NoFD, NoFD>>]
        ELSE [kernel |->
                [writes.kernel EXCEPT
                   !.streams[r] = [@ EXCEPT !.status = "live", !.readers = 1, !.writers = 1,
                                            !.readSem = reads.id, !.writeSem = writes.id],
                   !.fds[fd1].resource = r, !.fds[fd1].mode = "R",
                   !.fds[fd2].resource = r, !.fds[fd2].mode = "W"],
              fds |-> <<fd1, fd2>>]

(***************************************************************************)
(* readFromFD and writeToFD on a pipe, byte by byte: what happens before   *)
(* and after the semWait of a byte.                                        *)
(***************************************************************************)
BeforeRead(k, r) == IF k.streams[r].eof THEN Posted(k, k.streams[r].readSem) ELSE k

\* Mutant: the end of file is announced while bytes are left in the buffer
HasByteUntilEof(st) == ~st.eof \/ st.writers # 0

HasByte(st) == ~st.eof \/ st.writers # 0 \/ st.dataAvailable > 0

\* Mutant: the room a byte leaves is not given back to the writers
ReadKeepsRoom(k, r) ==
    LET st == k.streams[r]
    IN  IF HasByte(st)
        THEN [k EXCEPT !.streams[r].got = Append(@, st.buffer[st.readPos]),
                       !.streams[r].readPos = (@ + 1) % BUFFER_SIZE,
                       !.streams[r].dataAvailable = @ - 1]
        ELSE [k EXCEPT !.streams[r].eof = TRUE]

Read(k, r) ==
    LET st == k.streams[r]
    IN  IF HasByte(st)
        THEN Posted([k EXCEPT !.streams[r].got = Append(@, st.buffer[st.readPos]),
                              !.streams[r].readPos = (@ + 1) % BUFFER_SIZE,
                              !.streams[r].dataAvailable = @ - 1], st.writeSem)
        ELSE [k EXCEPT !.streams[r].eof = TRUE]

BeforeWrite(k, r) == [k EXCEPT !.streams[r].eof = FALSE]

\* Mutant: the write position does not wrap where the read position does
WriteNoWrap(k, r) ==
    LET st == k.streams[r]
    IN  Posted([k EXCEPT !.streams[r].sent = @ + 1,
                         !.streams[r].buffer[st.writePos] = st.sent + 1,
                         !.streams[r].writePos = IF @ + 1 < BUFFER_SIZE THEN @ + 1 ELSE @,
                         !.streams[r].dataAvailable = @ + 1], st.readSem)

Write(k, r) ==
    LET st == k.streams[r]
    IN  Posted([k EXCEPT !.streams[r].sent = @ + 1,
                         !.streams[r].buffer[st.writePos] = st.sent + 1,
                         !.streams[r].writePos = (@ + 1) % BUFFER_SIZE,
                         !.streams[r].dataAvailable = @ + 1], st.readSem)

-----------------------------------------------------------------------------
\* closeFD: the end is counted out of its stream
Counted(k, fd) ==
    LET d == k.fds[fd]
    IN  [k EXCEPT !.streams[d.resource].readers = IF d.mode = "R" THEN @ - 1 ELSE @,
                  !.streams[d.resource].writers = IF d.mode = "W" THEN @ - 1 ELSE @]

OnlyReaders(st) == st.readers > 0 /\ st.writers <= 0
NoUsers(st)     == st.readers = 0 /\ st.writers = 0

\* Mutant: the readers are not woken
SignalStepsSilent(c, r) == <<c, [c EXCEPT !.streams[r].eof = TRUE]>>

\* No writer is left: the readers, at most one, are told
SignalSteps(c, r) ==
    LET e == [c EXCEPT !.streams[r].eof = TRUE]
        s == c.streams[r].readSem
    IN  <<c, e, Locked(e, s), Locked(Posted(e, s), s), Posted(e, s)>>

\* Nobody is left: the semaphores and the stream go
ReleaseSteps(c, r) ==
    LET st == c.streams[r]
        d1 == Destroyed([c EXCEPT !.streams[r].eof = FALSE], st.readSem)
        d2 == Destroyed(d1, st.writeSem)
    IN  <<c, Locked(c, st.readSem), Locked(d1, st.readSem), d1,
          Locked(d1, st.writeSem), Locked(d2, st.writeSem), d2,
          [d2 EXCEPT !.streams[r].status = "freed"]>>

CloseSteps(k, fd) ==
    IF fd \notin FDs \/ ~k.fds[fd].isOpen THEN <<k>>
    ELSE LET r     == k.fds[fd].resource
             c     == Counted(k, fd)
             steps == IF OnlyReaders(c.streams[r]) THEN SignalSteps(c, r)
                      ELSE IF NoUsers(c.streams[r]) THEN ReleaseSteps(c, r) ELSE <<c>>
         IN  Append(steps, [Last(steps) EXCEPT !.fds[fd].isOpen = FALSE])

closeFD(k, fd) == Last(CloseSteps(k, fd))

\* The semaphores whose spinlock closeFD takes
Operated(k, fd) ==
    IF fd \notin FDs \/ ~k.fds[fd].isOpen THEN {}
    ELSE LET st == Counted(k, fd).streams[k.fds[fd].resource]
         IN  IF OnlyReaders(st) THEN {st.readSem}
             ELSE IF NoUsers(st) THEN {st.readSem, st.writeSem} ELSE {}

Spins(k, fd) == Operated(k, fd) \cap k.locked # {}

\* Where an exit can be cut off in closeFD, or spin until it is
CutOff(k, fd) ==
    {k} \cup IF Spins(k, fd) THEN {Head(CloseSteps(k, fd))} ELSE Range(CloseSteps(k, fd))

-----------------------------------------------------------------------------
\* initFileDescriptors; a Stream is filled in by createPipe
initFileDescriptors ==
    /\ fileDescriptors = [fd \in FDs |-> [isOpen |-> FALSE, resource |-> NoStream, mode |-> "R"]]
    /\ streams = [r \in Streams |->
                    [status |-> "fresh", buffer |-> [i \in Cells |-> Junk],
                     readPos |-> 0, writePos |-> 0, dataAvailable |-> 0, eof |-> FALSE,
                     readers |-> 0, writers |-> 0, readSem |-> NoSem, writeSem |-> NoSem,
                     sent |-> 0, got |-> << >>]]
    /\ locked = {}
=============================================================================
